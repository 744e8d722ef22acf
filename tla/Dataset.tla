------------------------------- MODULE Dataset -------------------------------
(***************************************************************************)
(* scripts/build_scan_dataset.py merges the windows of all runs and splits *)
(* them by run; scripts/build_gru_sequences.py cuts each source's windows  *)
(* into sequences that end in a labelled window.  A source is named by a   *)
(* hash of its run and address, so sources of different runs differ.       *)
(***************************************************************************)
EXTENDS Integers, Sequences, FiniteSets, SequencesExt

CONSTANTS Runs,       \* --run
          TestRuns,   \* --test-run
          Addresses,  \* sources of a run
          Cases       \* how the scripts are called, and with which windows

\* Starts of windows are counted in window lengths; targets are the values of
\* scan_subtype; the last three fields are the arguments of the same names.
Case == [starts : SUBSET Nat, labels : SUBSET {"normal", "attack", "normal;scanning"},
         targets : SUBSET STRING, length : Nat \ {0}, stride : Nat \ {0}, padStart : BOOLEAN]

ASSUME DatasetAssumption ==
  /\ TestRuns \subseteq Runs /\ Cases \subseteq Case
  /\ IsFiniteSet(Runs) /\ IsFiniteSet(Addresses) /\ \A c \in Cases : IsFiniteSet(c.starts)

VARIABLES args,      \* the case
          files,     \* the feature files: all windows of all runs
          dataset,   \* the merged rows
          classes,   \* the labels of the training rows
          train, test,   \* the sequences built, in memory
          written,   \* the sequences of the output files
          stage

datasetVars == <<args, files, dataset, classes, train, test, written, stage>>

Entity == Runs \X Addresses
Row ==
  [entity : Entity, start : args.starts, label : args.labels, target : args.targets]
KeptRow ==
  [entity : Entity, start : args.starts, label : {"normal", "scanning"}, target : args.targets]
Padding == [entity |-> "none", start |-> 0]

Sequence == [entity : Entity, rows : Seq(KeptRow \cup {Padding}), label : args.targets]

DatasetTypeOK ==
  /\ args \in Cases
  /\ files \subseteq Row /\ dataset \subseteq KeptRow
  /\ classes \subseteq args.targets
  /\ train \subseteq Sequence /\ test \subseteq Sequence
  /\ \A out \in written : out[2] \subseteq Sequence
  /\ stage \in {"merge", "classes", "train", "test", "write", "half", "done", "cut", "exit"}

NothingRead ==
  /\ dataset = {} /\ classes = {} /\ train = {} /\ test = {} /\ written = {}
  /\ stage = "merge"

\* A window per source and start, so that a file is a function of these.
DatasetInit ==
  /\ args \in Cases
  /\ \E present \in SUBSET (Entity \X args.starts) :
       \E f \in [present -> args.labels \X args.targets] :
         files = {[entity |-> k[1], start |-> k[2], label |-> f[k][1], target |-> f[k][2]] :
                    k \in present}
  /\ NothingRead

-----------------------------------------------------------------------------
MappedLabel(l) == IF l = "attack" THEN "scanning" ELSE l

\* merge_rows: labels are mapped, and rows of other labels are dropped.
MergedRows ==
  {r \in {[f EXCEPT !.label = MappedLabel(f.label)] : f \in files} : r.label \in {"normal", "scanning"}}

Merge ==
  /\ stage = "merge"
  /\ dataset' = MergedRows
  /\ stage' = "classes"
  /\ UNCHANGED <<args, files, classes, train, test, written>>

TrainRows == {r \in dataset : r.entity[1] \notin TestRuns}
TestRows  == {r \in dataset : r.entity[1] \in TestRuns}

Classes == {r.target : r \in TrainRows}

\* build_gru_sequences exits on an empty file and on less than two classes.
ReadClasses ==
  /\ stage = "classes"
  /\ classes' = Classes
  /\ stage' = IF TrainRows = {} \/ TestRows = {} \/ Cardinality(classes') < 2
           THEN "exit" ELSE "train"
  /\ UNCHANGED <<args, files, dataset, train, test, written>>

-----------------------------------------------------------------------------
(* build_sequences                                                         *)

Mine(rows, e) == {r \in rows : r.entity = e}
Place(rows, r) == Cardinality({x \in Mine(rows, r.entity) : x.start <= r.start})

\* A source's rows sorted by their start.
Ordered(rows, e) ==
  [i \in 1..Cardinality(Mine(rows, e)) |-> CHOOSE r \in Mine(rows, e) : Place(rows, r) = i]

\* The positions at which sequences end.
Ends(rows, e) ==
  LET first == IF args.padStart THEN 1 ELSE args.length
  IN {i \in first..Cardinality(Mine(rows, e)) : (i - first) % args.stride = 0}

\* The last rows up to one of them, after padding if there are too few.
RowsUpTo(all, i) ==
  [k \in 1..args.length |->
     IF k + i <= args.length THEN Padding ELSE all[k + i - args.length]]

\* Mutant: the label of the row that comes next.
CutBefore(rows, e, i) ==
  LET all == Ordered(rows, e)
  IN [entity |-> e, rows |-> RowsUpTo(all, i),
      label  |-> all[IF i < Len(all) THEN i + 1 ELSE i].target]

Cut(rows, e, i) ==
  LET all == Ordered(rows, e)
  IN [entity |-> e, rows |-> RowsUpTo(all, i), label |-> all[i].target]

Sequences(rows) ==
  UNION {{Cut(rows, e, i) : i \in Ends(rows, e)} : e \in {r.entity : r \in rows}}

\* Labels that no training row has end the script.
Known(sequences) == \A s \in sequences : s.label \in classes

BuildTrain ==
  /\ stage = "train"
  /\ train' = Sequences(TrainRows)
  /\ stage' = IF Known(train') THEN "test" ELSE "exit"
  /\ UNCHANGED <<args, files, dataset, classes, test, written>>

\* Mutant: unknown labels are not looked for.
BuildTestBlindly ==
  /\ stage = "test"
  /\ test' = Sequences(TestRows)
  /\ stage' = "write"
  /\ UNCHANGED <<args, files, dataset, classes, train, written>>

BuildTest ==
  /\ stage = "test"
  /\ LET built == Sequences(TestRows)
     IN \/ Known(built) /\ test' = built /\ stage' = "write"
        \/ ~Known(built) /\ test' = test /\ stage' = "exit"
  /\ UNCHANGED <<args, files, dataset, classes, train, written>>

\* write_npz, for one file after the other; the metadata follow.
WriteTrain ==
  /\ stage = "write"
  /\ written' = {<<"train", train>>} /\ stage' = "half"
  /\ UNCHANGED <<args, files, dataset, classes, train, test>>

WriteTest ==
  /\ stage = "half"
  /\ written' = written \cup {<<"test", test>>} /\ stage' = "done"
  /\ UNCHANGED <<args, files, dataset, classes, train, test>>

\* A full disk or a kill ends the script between its files.
WriteCut ==
  /\ stage \in {"write", "half"} /\ stage' = "cut"
  /\ UNCHANGED <<args, files, dataset, classes, train, test, written>>

DatasetNext ==
  Merge \/ ReadClasses \/ BuildTrain \/ BuildTest \/ WriteTrain \/ WriteTest \/ WriteCut

DatasetSpec == DatasetInit /\ [][DatasetNext]_datasetVars

-----------------------------------------------------------------------------
(* The planner of the collection, scripts/collect_sequence_dataset.py.     *)

EstimatedSequences(windows) ==
  IF windows < args.length THEN 0 ELSE ((windows - args.length) \div args.stride) + 1

-----------------------------------------------------------------------------
RowsOf(s) == {s.rows[k] : k \in DOMAIN s.rows} \ {Padding}

\* Nothing of a test run is learned from, and nothing of a training run is
\* tested: not as a row of any sequence, and not as a class.
NoLeak ==
  /\ \A s \in train : \A r \in RowsOf(s) : r.entity[1] \notin TestRuns
  /\ \A s \in test : \A r \in RowsOf(s) : r.entity[1] \in TestRuns
  /\ \A c \in classes : \E f \in files : f.target = c /\ f.entity[1] \notin TestRuns

\* A sequence is a stretch of one source's kept windows in order of time, with
\* no kept window left out, padded only before the first one, and its label is
\* that of its last window.
SequencesAreStretches ==
  \A s \in train \cup test :
    /\ Len(s.rows) = args.length
    /\ \A i \in 1..(args.length - 1) : s.rows[i] # Padding =>
         /\ s.rows[i].start < s.rows[i + 1].start
         /\ ~\E r \in dataset : /\ r.entity = s.entity
                                /\ s.rows[i].start < r.start /\ r.start < s.rows[i + 1].start
    /\ \A r \in RowsOf(s) : r.entity = s.entity
    /\ s.rows[args.length] # Padding /\ s.label = s.rows[args.length].target
    /\ s.rows[1] = Padding =>
         Cardinality({r \in dataset : r.entity = s.entity /\ r.start <= s.rows[args.length].start})
           < args.length

\* What the planner expects of a source with so many windows is what the
\* cutting yields; with padding, every Stride-th window ends a sequence.
CountsAsPlanned ==
  stage \in {"write", "half", "done", "cut"} =>
    \A e \in {r.entity : r \in dataset} :
      LET windows == Cardinality({r \in dataset : r.entity = e})
          got     == Cardinality({s \in train \cup test : s.entity = e})
      IN got = IF args.padStart THEN (windows + args.stride - 1) \div args.stride
               ELSE EstimatedSequences(windows)

\* Of what each source did the sequences show all that was planned, as it was.
SequencesAsPlanned == SequencesAreStretches /\ CountsAsPlanned

\* The script writes only when both halves were built with labels that the
\* training rows have.  The files are a pair unless the writing was cut short,
\* and then it is the test file that may be an older one.
FilesArePair ==
  /\ written # {} => Known(train) /\ Known(test)
  /\ stage = "exit" => written = {}
  /\ stage = "done" \/ (stage = "cut" /\ <<"test", test>> \in written) =>
       {out[1] : out \in written} = {"train", "test"}

\* Training and test are kept apart: the rows have their type, nothing leaks,
\* and the two files are a pair.
SplitIsClean == DatasetTypeOK /\ NoLeak /\ FilesArePair

-----------------------------------------------------------------------------
(* Why it holds.                                                           *)

\* Everything the scripts have is what they make of the feature files, as far as
\* they have come.
DatasetInv ==
  /\ args \in Cases
  /\ stage \in {"merge", "classes", "train", "test", "write", "half", "done", "cut", "exit"}
  /\ files \subseteq Row /\ IsFiniteSet(files)
  /\ \A f, g \in files : f.entity = g.entity /\ f.start = g.start => f = g
  /\ dataset = IF stage = "merge" THEN {} ELSE MergedRows
  /\ classes = IF stage \in {"merge", "classes"} THEN {} ELSE Classes
  /\ train \in {{}, Sequences(TrainRows)} /\ test \in {{}, Sequences(TestRows)}
  /\ stage \in {"test", "write", "half", "done", "cut"} =>
       train = Sequences(TrainRows) /\ Known(train)
  /\ stage \in {"write", "half", "done", "cut"} => test = Sequences(TestRows) /\ Known(test)
  /\ written \subseteq {<<"train", train>>, <<"test", test>>}
  /\ stage \notin {"half", "done", "cut"} => written = {}
  /\ stage = "half" => written = {<<"train", train>>}
  /\ stage = "cut" => <<"test", test>> \notin written
  /\ stage = "done" => written = {<<"train", train>>, <<"test", test>>}
=============================================================================
