---------------------------- MODULE SequenceReport ----------------------------
(* scripts/build_sequence_report.py: it reads the merged rows and the two   *)
(* halves of the split, counts again the sequences that                     *)
(* build_gru_sequences.py cuts from them, and says whether there are enough *)
(* of them, from enough runs.                                               *)
EXTENDS Dataset

CONSTANT Gates   \* --min-total, -train and -test-sequences, --max-run-share in percent

ASSUME SequenceReportAssumption ==
  /\ {Gates.total, Gates.train, Gates.test} \subseteq Nat /\ Gates.share \in 0..100

\* Mutant: without padding it begins one row late.
LateEndings(rows, e) ==
  LET n     == Cardinality(Mine(rows, e))
      first == IF args.padStart THEN 0 ELSE args.length
  IN {end \in first..(n - 1) : (end - first) % args.stride = 0}

\* estimate_by_length: the positions, counted from 0, at which it lets a
\* sequence of a group end.
Endings(rows, e) ==
  LET n     == Cardinality(Mine(rows, e))
      first == IF args.padStart THEN 0 ELSE args.length - 1
  IN {end \in first..(n - 1) : (end - first) % args.stride = 0}

\* What its loop counts: the groups and the ends in them, as pairs.
Counted(rows) == UNION {{<<e, end>> : end \in Endings(rows, e)} : e \in {r.entity : r \in rows}}

\* The counters it keeps: of all, of a run and of the target an end has.
Total(rows) == Cardinality(Counted(rows))
Estimate(rows, run) == Cardinality({pair \in Counted(rows) : pair[1][1] = run})
EstimatedTargets(rows, t) ==
  Cardinality({pair \in Counted(rows) : Ordered(rows, pair[1])[pair[2] + 1].target = t})

\* leakage_checks
SharedRuns == {r.entity[1] : r \in TrainRows} \cap {r.entity[1] : r \in TestRows}

\* top_share of the runs, 0 if there is nothing to share.
NotDominated(rows) ==
  \A run \in Runs : 100 * Estimate(rows, run) <= Gates.share * Total(rows)

\* gates, without those about columns, which the builder never writes, and
\* about scenarios, each of which is one run here.
OverallPass ==
  /\ SharedRuns = {}
  /\ Total(dataset) >= Gates.total
  /\ Total(TrainRows) >= Gates.train
  /\ Total(TestRows) >= Gates.test
  /\ NotDominated(TrainRows)

-----------------------------------------------------------------------------
CountOf(sequences, run) == Cardinality({s \in sequences : s.entity[1] = run})

\* The report is about the files that were written: it counts as many
\* sequences of every run and of every target as there are, and a report that
\* passes means enough of them, no run in both halves and none that dominates.
ReportIsSound ==
  stage = "done" =>
    /\ \A run \in Runs : /\ Estimate(TrainRows, run) = CountOf(train, run)
                         /\ Estimate(TestRows, run) = CountOf(test, run)
    /\ \A t \in args.targets :
         EstimatedTargets(TrainRows, t) = Cardinality({s \in train : s.label = t})
    /\ OverallPass =>
         /\ Cardinality(train) >= Gates.train /\ Cardinality(test) >= Gates.test
         /\ \A run \in Runs : /\ CountOf(train, run) = 0 \/ CountOf(test, run) = 0
                              /\ 100 * CountOf(train, run) <= Gates.share * Cardinality(train)
=============================================================================
