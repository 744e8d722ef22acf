---------------------------- MODULE BulkCollector ----------------------------
(* scripts/collect_bulk_scan_dataset.py: it captures and converts every run *)
(* of its plan that has no log yet, then builds one dataset of all planned  *)
(* runs.  Any step may fail or be killed, which ends the command; somebody  *)
(* calls it again, with --skip-existing or without.                         *)
EXTENDS Integers, Sequences, FiniteSets, FiniteSetsExt, Functions

CONSTANTS Scenarios,     \* the scenarios of the script, in order
          Slow,          \* those that wait a minute between attempts
          BulkOptions,   \* command lines, without --skip-existing; they plan a run
          MaxBulkFaults  \* bound: steps that fail, kills and empty captures

Baseline == "baseline"

BulkOption ==
  [selected : SUBSET Range(Scenarios), longOnly : SUBSET (Range(Scenarios) \ {Baseline}),
   tests : SUBSET Nat, baselineRepeats : Nat, repeats : Nat, baselineSeconds : Nat,
   attackSeconds : Nat, pairs : Nat, windowSeconds : Nat \ {0}]

ASSUME BulkCollectorAssumption ==
  /\ Scenarios \in Seq(STRING) /\ Slow \subseteq Range(Scenarios) \ {Baseline}
  /\ BulkOptions \subseteq BulkOption /\ MaxBulkFaults \in Nat

VARIABLES bulkArgs,
          step,        \* where the command is
          left,        \* the runs of the plan it has not done with
          skip,        \* --skip-existing
          pcaps, logs, \* run -> its pcap file, its conn.log
          skipped,     \* the runs this command has skipped
          merged,      \* the dataset
          summary,     \* the runs the summary counts
          bulkFaults,
          silent       \* history: runs of this command whose capture failed unseen

bulkVars == <<bulkArgs, step, left, skip, pcaps, logs, skipped, merged, summary,
              bulkFaults, silent>>

-----------------------------------------------------------------------------
(* The plan and what it says.                                              *)

\* build_plans: without --scenario all of them, each as often as asked.
Selected(a) == {s \in Range(Scenarios) : a.selected = {} \/ s \in a.selected}

RepeatsOf(a, scenario) == IF scenario = Baseline THEN a.baselineRepeats ELSE a.repeats

PlannedRuns(a) == UNION {[scenario : {s}, repeat : 1..RepeatsOf(a, s)] : s \in Selected(a)}

\* One scenario after the other, and the repeats of each in order.
TurnOf(scenario) == CHOOSE i \in DOMAIN Scenarios : Scenarios[i] = scenario

Precedes(r, q) ==
  \/ TurnOf(r.scenario) < TurnOf(q.scenario)
  \/ r.scenario = q.scenario /\ r.repeat < q.repeat

BulkPlan == PlannedRuns(bulkArgs)

\* split_runs; without --test-repeat it is the second.
InTest(a, run) == run.repeat \in (IF a.tests = {} THEN {2} ELSE a.tests)

UsesLongCapture(a, scenario) ==
  /\ scenario # Baseline /\ a.attackSeconds > 0
  /\ a.longOnly = {} \/ scenario \in a.longOnly

SlowSeconds(a) == 60 * Max({1, a.pairs})

\* estimated_run_duration_seconds
EstimatedSeconds(a, scenario) ==
  LET long == IF UsesLongCapture(a, scenario) THEN a.attackSeconds ELSE 0
  IN CASE scenario = Baseline -> a.baselineSeconds
       [] scenario \in Slow -> Max({long, SlowSeconds(a)})
       [] OTHER -> IF long > 0 THEN long ELSE a.windowSeconds

\* estimate_collection_plan: the windows of a run, and of one half of the split.
WindowsOf(a, run) == Max({1, EstimatedSeconds(a, run.scenario) \div a.windowSeconds})

Half(a, test) == {run \in PlannedRuns(a) : InTest(a, run) = test}

EstimatedWindows(a, test) ==
  Cardinality(UNION {{run} \X (1..WindowsOf(a, run)) : run \in Half(a, test)})

\* The sequence collector plans such runs itself (build_plan), from a
\* configuration that says which scenarios are captured long ...
SequenceSeconds(a, scenario) ==
  LET long == a.longOnly = {} \/ scenario \in a.longOnly
  IN CASE scenario = Baseline -> a.baselineSeconds
       [] scenario # Baseline /\ long /\ a.attackSeconds > 0 -> a.attackSeconds
       [] scenario \in Slow /\ ~(long /\ a.attackSeconds > 0) -> SlowSeconds(a)
       [] OTHER -> a.windowSeconds

\* ... and calls this script's functions with what it planned (bulk_args).
BulkArgsFor(a, scenario) ==
  LET long == scenario # Baseline /\ (a.longOnly = {} \/ scenario \in a.longOnly)
  IN [a EXCEPT !.attackSeconds = IF long THEN SequenceSeconds(a, scenario) ELSE 0,
               !.longOnly = IF long THEN {scenario} ELSE {}]

-----------------------------------------------------------------------------
(* The command.                                                            *)

NoFile == [there |-> FALSE]
BulkInit ==
  /\ bulkArgs \in BulkOptions
  /\ step = "off" /\ left = {} /\ skip = FALSE /\ skipped = {}
  /\ pcaps = [r \in BulkPlan |-> NoFile] /\ logs = pcaps
  /\ merged = {} /\ summary = {} /\ bulkFaults = 0 /\ silent = {}

\* The run the command works on.
Now == {run \in left : \A other \in left : ~Precedes(other, run)}

BulkFault == bulkFaults < MaxBulkFaults /\ bulkFaults' = bulkFaults + 1
Same == UNCHANGED <<bulkArgs, skip>>
FilesSame == UNCHANGED <<pcaps, logs, merged, summary>>

Aged(file) == IF file = NoFile THEN NoFile ELSE [file EXCEPT !.fresh = FALSE]

BulkStart(skipping) ==
  /\ step = "off"
  /\ step' = "runs" /\ left' = BulkPlan /\ skip' = skipping
  /\ skipped' = {} /\ silent' = {}
  /\ pcaps' = [r \in DOMAIN pcaps |-> Aged(pcaps[r])]
  /\ logs' = [r \in DOMAIN logs |-> Aged(logs[r])]
  /\ UNCHANGED <<bulkArgs, merged, summary, bulkFaults>>

\* docker, a child script or the script itself fails, or it is killed.
BulkEnds ==
  /\ step # "off" /\ BulkFault
  /\ step' = "off"
  /\ Same /\ FilesSame /\ UNCHANGED <<silent, left, skipped>>

HasLog(run) == logs[run] # NoFile

\* Mutant: a run that was captured is skipped.
SkipsCaptured(run) == skip /\ pcaps[run] # NoFile

Skips(run) == skip /\ HasLog(run)

SkipRun(run) ==
  /\ step = "runs" /\ Skips(run)
  /\ left' = left \ {run} /\ skipped' = skipped \cup {run}
  /\ Same /\ FilesSame /\ UNCHANGED <<silent, step, bulkFaults>>

Capture(run) ==
  /\ step = "runs" /\ ~Skips(run)
  /\ step' = "capturing"
  /\ Same /\ FilesSame /\ UNCHANGED <<silent, left, skipped, bulkFaults>>

\* Nobody looks at tcpdump, so that a capture may be cut short or not be made at
\* all without a word.
CaptureEnded(run) ==
  /\ step = "capturing"
  /\ \/ /\ pcaps' = [pcaps EXCEPT ![run] = [fresh |-> TRUE, whole |-> TRUE]]
        /\ UNCHANGED <<bulkFaults, silent>>
     \/ /\ BulkFault /\ silent' = silent \cup {run}
        /\ \/ pcaps' = [pcaps EXCEPT ![run] = [fresh |-> TRUE, whole |-> FALSE]]
           \/ UNCHANGED pcaps
  /\ step' = "convert"
  /\ Same /\ UNCHANGED <<left, skipped, logs, merged, summary>>

\* The child script of an attack fails, and what it captured stays.
CaptureFailed(run) ==
  /\ step = "capturing" /\ run.scenario # Baseline /\ BulkFault
  /\ pcaps' = [pcaps EXCEPT ![run] = [fresh |-> TRUE, whole |-> FALSE]]
  /\ step' = "off"
  /\ Same /\ UNCHANGED <<silent, left, skipped, logs, merged, summary>>

\* run_zeek_pcap.py exits without a pcap; Zeek writes its log in place.
Convert(run) ==
  /\ step = "convert"
  /\ IF pcaps[run] = NoFile
     THEN step' = "off" /\ UNCHANGED logs
     ELSE /\ step' = "converting"
          /\ logs' = [logs EXCEPT ![run] = [pcaps[run] EXCEPT !.whole = FALSE]]
  /\ Same /\ UNCHANGED <<silent, left, skipped, pcaps, merged, summary, bulkFaults>>

ConvertEnded(run) ==
  /\ step = "converting"
  /\ logs' = [logs EXCEPT ![run] = pcaps[run]]
  /\ step' = "runs" /\ left' = left \ {run}
  /\ Same /\ UNCHANGED <<silent, skipped, pcaps, merged, summary, bulkFaults>>

\* A capture without connections makes no conn.log, and an older one stays;
\* that is no error.
ConvertedNothing(run) ==
  /\ step = "convert" /\ pcaps[run] # NoFile /\ BulkFault
  /\ step' = "runs" /\ left' = left \ {run} /\ silent' = silent \cup {run}
  /\ Same /\ FilesSame /\ UNCHANGED skipped

Rows(runs) ==
  {[run |-> r, log |-> logs[r], skipped |-> r \in skipped, silent |-> r \in silent] : r \in runs}

\* Mutant: runs without a log are left out.
RebuildWhatThereIs ==
  /\ step = "runs" /\ left = {}
  /\ merged' = Rows({r \in BulkPlan : HasLog(r)}) /\ step' = "built"
  /\ Same /\ UNCHANGED <<silent, left, skipped, pcaps, logs, summary, bulkFaults>>

\* build_scan_dataset.py exits at the first run that has no log.
Rebuild ==
  /\ step = "runs" /\ left = {}
  /\ IF \A r \in BulkPlan : HasLog(r)
     THEN merged' = Rows(BulkPlan) /\ step' = "built"
     ELSE step' = "off" /\ UNCHANGED merged
  /\ Same /\ UNCHANGED <<silent, left, skipped, pcaps, logs, summary, bulkFaults>>

Summarized ==
  /\ step = "built"
  /\ summary' = {row.run : row \in merged} /\ step' = "off"
  /\ Same /\ UNCHANGED <<silent, left, skipped, pcaps, logs, merged, bulkFaults>>

BulkWork ==
  \/ Rebuild \/ Summarized
  \/ \E run \in Now :
       SkipRun(run) \/ Capture(run) \/ CaptureEnded(run) \/ Convert(run) \/ ConvertEnded(run)

BulkNext ==
  \/ BulkWork \/ BulkEnds
  \/ \E run \in Now : CaptureFailed(run) \/ ConvertedNothing(run)
  \/ \E skipping \in BOOLEAN : BulkStart(skipping)

BulkSpec == BulkInit /\ [][BulkNext]_bulkVars

-----------------------------------------------------------------------------
\* The dataset has every planned run.  A log that is old or cut short is one that
\* was skipped because it was there, or that of a run whose capture failed unseen
\* or was empty.
DatasetIsComplete ==
  merged # {} =>
    /\ {row.run : row \in merged} = BulkPlan
    /\ \A row \in merged : row.skipped \/ row.silent \/ (row.log.whole /\ row.log.fresh)

\* The two planners expect the same of a run, except of a slow scan that is
\* captured for a time of its own: only this script knows that the scan itself
\* may take longer.
PlannersAgree ==
  \A s \in Range(Scenarios) :
    LET expected == EstimatedSeconds(BulkArgsFor(bulkArgs, s), s)
        planned  == SequenceSeconds(bulkArgs, s)
    IN /\ planned <= expected
       /\ planned # expected => s \in Slow /\ UsesLongCapture(bulkArgs, s)

\* Every run has at least a window, in exactly one half of the estimate.
EstimateCountsAll ==
  \A test \in BOOLEAN :
    EstimatedWindows(bulkArgs, test) >= Cardinality(Half(bulkArgs, test))

\* What a command plans when it begins is what is collected.
BulkAsPlanned ==
  /\ step = "runs" /\ left = BulkPlan => PlannersAgree /\ EstimateCountsAll
  /\ DatasetIsComplete

\* Called again and again with --skip-existing, a collection that was begun is
\* completed, whatever fails or is killed on the way.
BulkCompletes == step = "runs" ~> summary = BulkPlan

-----------------------------------------------------------------------------
(* Why it holds.                                                           *)

Captured == [fresh : BOOLEAN, whole : BOOLEAN]
BulkFiles == [BulkPlan -> {NoFile} \cup Captured]
Good == [fresh |-> TRUE, whole |-> TRUE]

\* What the loop is done with is skipped, known to no one to be bad, or good; and
\* so is the capture that is converted.
BulkInv ==
  /\ bulkArgs \in BulkOptions /\ left \subseteq BulkPlan
  /\ pcaps \in BulkFiles /\ logs \in BulkFiles
  /\ step # "off" => \A r \in BulkPlan \ left : r \in skipped \cup silent \/ logs[r] = Good
  /\ step \in {"convert", "converting"} => \A r \in Now : r \in silent \/ pcaps[r] = Good
  /\ DatasetIsComplete
=============================================================================
