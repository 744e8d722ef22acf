------------------------------ MODULE Collector ------------------------------
(***************************************************************************)
(* scripts/collect_sequence_dataset.py: the long-running collection, its   *)
(* checkpoint file and its lock file.  Any of its commands may run while   *)
(* another one does; `run` and `resume` take the lock, `plan` and          *)
(* `finalize` do not.  A command may be killed between any two steps (a    *)
(* reboot, the timeout of the systemd unit); then its lock file stays.     *)
(***************************************************************************)
EXTENDS Naturals, FiniteSets

CONSTANTS Commands,      \* processes that may run a command
          NumRuns,       \* length of the plan; a run is its position in it
          TestRuns,      \* the runs of the test split
          Options,       \* how run and resume are called: [retry, finalize]
          SkipExisting,  \* the configuration's skip_existing
          MaxUnlocked,   \* bound: plan --write-state and finalize commands
          MaxFaults      \* bound: steps that fail, commands that are killed

Runs == 1..NumRuns

ASSUME CollectorAssumption ==
  /\ "nobody" \notin Commands
  /\ NumRuns \in Nat /\ TestRuns \subseteq Runs
  /\ Options \subseteq [retry : BOOLEAN, finalize : BOOLEAN]
  /\ SkipExisting \in BOOLEAN
  /\ MaxUnlocked \in Nat /\ MaxFaults \in Nat

VARIABLES file,      \* the state file
          lock,      \* who created the lock file, Nobody if it is not there
          conn,      \* each run's conn.log
          dataset,   \* the runs of the last dataset, each with its log and status
          proc,      \* the processes: pc, options, the state they hold, their run
          unlocked, faults   \* how much of the bounds is used

vars == <<file, lock, conn, dataset, proc, unlocked, faults>>

Nobody == "nobody"
Statuses == {"pending", "capturing", "pcap_done", "zeek_done", "skipped_existing", "failed"}
Terminal == {"zeek_done", "skipped_existing"}
State == [runs  : [Runs -> [status : Statuses, attempts : Nat]],
          final : {"pending", "running", "complete", "failed"}]
FreshState ==
  [runs |-> [i \in Runs |-> [status |-> "pending", attempts |-> 0]], final |-> "pending"]
Missing == [runs |-> << >>, final |-> "missing"]

Off == [pc |-> "off", locks |-> FALSE, retry |-> FALSE, finalize |-> FALSE,
        mem |-> FreshState, run |-> 0]

TypeOK ==
  /\ file \in State \cup {Missing}
  /\ lock \in Commands \cup {Nobody}
  /\ conn \in [Runs -> {"none", "partial", "full"}]
  /\ dataset \in SUBSET [run : Runs, log : {"partial", "full"}, status : Terminal]
  /\ proc \in [Commands ->
       [pc : {"off", "refused", "load", "prepare", "pick", "check", "capture", "zeek",
              "zeeking", "converted", "finalize", "build", "built", "exit"},
        locks : BOOLEAN, retry : BOOLEAN, finalize : BOOLEAN, mem : State, run : 0..NumRuns]]
  /\ unlocked \in Nat /\ faults \in Nat

Init ==
  /\ file = Missing
  /\ lock = Nobody
  /\ conn \in [Runs -> {"none", "full"}]   \* logs of an earlier collection
  /\ dataset = {}
  /\ proc = [p \in Commands |-> Off]
  /\ unlocked = 0 /\ faults = 0

-----------------------------------------------------------------------------
At(p, l) == proc[p].pc = l
GoTo(p, l) == proc' = [proc EXCEPT ![p].pc = l]
Fault == faults < MaxFaults /\ faults' = faults + 1

\* save_state: the file is replaced by the whole state that p holds.
SaveAndGo(p, state, l) ==
  /\ file' = state
  /\ proc' = [proc EXCEPT ![p].mem = state, ![p].pc = l]

Marked(p, status) ==
  [proc[p].mem EXCEPT !.runs[proc[p].run].status = status]

Finalized(p, status) == [proc[p].mem EXCEPT !.final = status]

-----------------------------------------------------------------------------
(* Starting a command, and its end.                                        *)

\* Mutant: an existing lock file is opened as well.
StartAnyway(p, o) ==
  /\ At(p, "off")
  /\ lock' = p
  /\ proc' = [proc EXCEPT ![p] = [Off EXCEPT !.pc = "load", !.locks = TRUE,
                                             !.retry = o.retry, !.finalize = o.finalize]]
  /\ UNCHANGED <<file, conn, dataset, unlocked, faults>>

\* run and resume: the lock file is created with O_EXCL.
StartLocked(p, o) ==
  /\ At(p, "off") /\ lock = Nobody
  /\ lock' = p
  /\ proc' = [proc EXCEPT ![p] = [Off EXCEPT !.pc = "load", !.locks = TRUE,
                                             !.retry = o.retry, !.finalize = o.finalize]]
  /\ UNCHANGED <<file, conn, dataset, unlocked, faults>>

\* "collector lock already exists": the command exits.
Refuse(p) ==
  /\ At(p, "off") /\ lock # Nobody
  /\ GoTo(p, "refused")
  /\ UNCHANGED <<file, lock, conn, dataset, unlocked, faults>>

RefusedExits(p) ==
  /\ At(p, "refused")
  /\ GoTo(p, "off")
  /\ UNCHANGED <<file, lock, conn, dataset, unlocked, faults>>

StartFinalize(p) ==
  /\ At(p, "off") /\ unlocked < MaxUnlocked
  /\ unlocked' = unlocked + 1
  /\ proc' = [proc EXCEPT ![p] = [Off EXCEPT !.pc = "load", !.finalize = TRUE]]
  /\ UNCHANGED <<file, lock, conn, dataset, faults>>

\* plan --write-state overwrites the checkpoint.
PlanWritesState ==
  /\ unlocked < MaxUnlocked
  /\ unlocked' = unlocked + 1
  /\ file' = FreshState
  /\ UNCHANGED <<lock, conn, dataset, proc, faults>>

\* acquire_lock.__exit__, on every way out but a kill.
Exit(p) ==
  /\ At(p, "exit")
  /\ lock' = IF proc[p].locks THEN Nobody ELSE lock
  /\ proc' = [proc EXCEPT ![p] = Off]
  /\ UNCHANGED <<file, conn, dataset, unlocked, faults>>

Kill(p) ==
  /\ ~At(p, "off")
  /\ Fault
  /\ proc' = [proc EXCEPT ![p] = Off]
  /\ UNCHANGED <<file, lock, conn, dataset, unlocked>>

\* An operator removes the lock of a command that is gone.
RemoveStaleLock ==
  /\ lock # Nobody /\ ~(proc[lock].locks)
  /\ lock' = Nobody
  /\ UNCHANGED <<file, conn, dataset, proc, unlocked, faults>>

-----------------------------------------------------------------------------
(* load_or_create_state, and run_collection for one run after the other.   *)

\* Mutant: every command begins with a fresh state.
LoadFresh(p) ==
  /\ At(p, "load")
  /\ SaveAndGo(p, FreshState, IF proc[p].locks THEN "prepare" ELSE "finalize")
  /\ UNCHANGED <<lock, conn, dataset, unlocked, faults>>

Load(p) ==
  /\ At(p, "load")
  /\ SaveAndGo(p, IF file = Missing THEN FreshState ELSE file,
               IF proc[p].locks THEN "prepare" ELSE "finalize")
  /\ UNCHANGED <<lock, conn, dataset, unlocked, faults>>

\* The free disk space and docker compose; both may end the command.
Prepare(p) ==
  /\ At(p, "prepare")
  /\ \/ GoTo(p, "pick") /\ UNCHANGED faults
     \/ GoTo(p, "exit") /\ Fault
  /\ UNCHANGED <<file, lock, conn, dataset, unlocked>>

\* Mutant: a run that a killed command left half done is never taken up again.
RemainingUntouched(p) ==
  {i \in Runs : /\ i > proc[p].run
                /\ proc[p].mem.runs[i].status \in {"pending", "failed"}
                /\ proc[p].mem.runs[i].status = "failed" => proc[p].retry}

\* The runs the loop has still to work on.
Remaining(p) ==
  {i \in Runs : /\ i > proc[p].run
                /\ proc[p].mem.runs[i].status \notin Terminal
                /\ proc[p].mem.runs[i].status = "failed" => proc[p].retry}

\* The first of them, in the order of the plan.
Pick(p) ==
  /\ At(p, "pick")
  /\ \E i \in Remaining(p) :
       /\ \A j \in Remaining(p) : i <= j
       /\ file' = [proc[p].mem EXCEPT !.runs[i] =
                     [status |-> "capturing", attempts |-> @.attempts + 1]]
       /\ proc' = [proc EXCEPT ![p].mem = file', ![p].run = i, ![p].pc = "check"]
  /\ UNCHANGED <<lock, conn, dataset, unlocked, faults>>

CollectionEnds(p) ==
  /\ At(p, "pick") /\ Remaining(p) = {}
  /\ GoTo(p, IF proc[p].finalize THEN "finalize" ELSE "exit")
  /\ UNCHANGED <<file, lock, conn, dataset, unlocked, faults>>

\* should_skip_existing: a conn.log counts, however it came to be.
Skips(p) == SkipExisting /\ conn[proc[p].run] # "none"

SkipExistingRun(p) ==
  /\ At(p, "check") /\ Skips(p)
  /\ SaveAndGo(p, Marked(p, "skipped_existing"), "pick")
  /\ UNCHANGED <<lock, conn, dataset, unlocked, faults>>

StartCapture(p) ==
  /\ At(p, "check") /\ ~Skips(p)
  /\ GoTo(p, "capture")
  /\ UNCHANGED <<file, lock, conn, dataset, unlocked, faults>>

\* Mutant: the run is marked done before it is converted.
CapturedIsDone(p) ==
  /\ At(p, "capture")
  /\ SaveAndGo(p, Marked(p, "zeek_done"), "zeek")
  /\ UNCHANGED <<lock, conn, dataset, unlocked, faults>>

Captured(p) ==
  /\ At(p, "capture")
  /\ SaveAndGo(p, Marked(p, "pcap_done"), "zeek")
  /\ UNCHANGED <<lock, conn, dataset, unlocked, faults>>

\* Zeek writes its logs into the place they are looked for.
ZeekStarts(p) ==
  /\ At(p, "zeek")
  /\ conn' = [conn EXCEPT ![proc[p].run] = "partial"]
  /\ GoTo(p, "zeeking")
  /\ UNCHANGED <<file, lock, dataset, unlocked, faults>>

ZeekEnds(p) ==
  /\ At(p, "zeeking")
  /\ conn' = [conn EXCEPT ![proc[p].run] = "full"]
  /\ GoTo(p, "converted")
  /\ UNCHANGED <<file, lock, dataset, unlocked, faults>>

Converted(p) ==
  /\ At(p, "converted")
  /\ SaveAndGo(p, Marked(p, "zeek_done"), "pick")
  /\ UNCHANGED <<lock, conn, dataset, unlocked, faults>>

\* A child process fails: the run is marked and the exception goes on.
StepFails(p) ==
  /\ proc[p].pc \in {"capture", "zeek", "zeeking"}
  /\ Fault
  /\ SaveAndGo(p, Marked(p, "failed"), "exit")
  /\ UNCHANGED <<lock, conn, dataset, unlocked>>

\* SystemExit (no camera container) is no Exception: the run stays "capturing".
CaptureExits(p) ==
  /\ At(p, "capture")
  /\ Fault
  /\ GoTo(p, "exit")
  /\ UNCHANGED <<file, lock, conn, dataset, unlocked>>

-----------------------------------------------------------------------------
(* finalize                                                                *)

FinalizeStarts(p) ==
  /\ At(p, "finalize")
  /\ SaveAndGo(p, Finalized(p, "running"), "build")
  /\ UNCHANGED <<lock, conn, dataset, unlocked, faults>>

SuccessfulRecords(p) ==
  {i \in Runs : proc[p].mem.runs[i].status \in Terminal /\ conn[i] # "none"}

\* Without a test run finalize exits and leaves its status "running".
Build(p) ==
  /\ At(p, "build")
  /\ IF SuccessfulRecords(p) \cap TestRuns = {}
     THEN GoTo(p, "exit") /\ UNCHANGED dataset
     ELSE /\ dataset' = {[run |-> i, log |-> conn[i], status |-> proc[p].mem.runs[i].status] :
                           i \in SuccessfulRecords(p)}
          /\ GoTo(p, "built")
  /\ UNCHANGED <<file, lock, conn, unlocked, faults>>

BuildFails(p) ==
  /\ proc[p].pc \in {"build", "built"}
  /\ Fault
  /\ SaveAndGo(p, Finalized(p, "failed"), "exit")
  /\ UNCHANGED <<lock, conn, dataset, unlocked>>

FinalizeEnds(p) ==
  /\ At(p, "built")
  /\ SaveAndGo(p, Finalized(p, "complete"), "exit")
  /\ UNCHANGED <<lock, conn, dataset, unlocked, faults>>

-----------------------------------------------------------------------------
Work(p) ==
  \/ Load(p) \/ Prepare(p) \/ Pick(p) \/ CollectionEnds(p) \/ SkipExistingRun(p)
  \/ StartCapture(p) \/ Captured(p) \/ ZeekStarts(p) \/ ZeekEnds(p) \/ Converted(p)
  \/ FinalizeStarts(p) \/ Build(p) \/ FinalizeEnds(p)
  \/ Exit(p) \/ RefusedExits(p)

Next ==
  \/ \E p \in Commands :
       \/ \E o \in Options : StartLocked(p, o)
       \/ Refuse(p) \/ StartFinalize(p) \/ Kill(p)
       \/ Work(p) \/ StepFails(p) \/ CaptureExits(p) \/ BuildFails(p)
  \/ PlanWritesState
  \/ RemoveStaleLock

Spec == Init /\ [][Next]_vars

(***************************************************************************)
(* Running commands go on, the systemd unit starts the collector again and *)
(* again, and somebody removes stale locks.  Others need not start.        *)
(***************************************************************************)
UnitOptions == [retry |-> TRUE, finalize |-> TRUE]

FairSpec ==
  /\ Spec
  /\ \A p \in Commands : WF_vars(Work(p))
  /\ SF_vars(\E p \in Commands : StartLocked(p, UnitOptions))
  /\ WF_vars(RemoveStaleLock)

-----------------------------------------------------------------------------
\* Two collectors never work on the same data, through kills and stale locks.
OneCollector == \A p, q \in Commands : proc[p].locks /\ proc[q].locks => p = q

\* What the checkpoint says is done has been converted to the end, and what it
\* says is skipped exists, even when commands that take no lock overwrite it.
\* A killed or failed conversion can only enter the dataset as an existing log.
DoneIsConverted ==
  /\ file # Missing => \A i \in Runs :
       /\ file.runs[i].status = "zeek_done" => conn[i] = "full"
       /\ file.runs[i].status = "skipped_existing" => conn[i] # "none"
  /\ \A d \in dataset : d.log = "partial" => d.status = "skipped_existing"

\* The checkpoint is to be trusted: it has its type, and claims no log that is
\* not there.
CheckpointTellsTruth == TypeOK /\ DoneIsConverted

\* The checkpoint keeps what was achieved across kills, restarts and retries,
\* as long as nobody runs a command that takes no lock.
CheckpointKeeps ==
  [][ file # Missing /\ unlocked' = 0 =>
        /\ file' # Missing
        /\ \A i \in Runs :
             /\ file.runs[i].status \in Terminal => file'.runs[i] = file.runs[i]
             /\ file'.runs[i].attempts >= file.runs[i].attempts ]_vars

\* The collection completes: at some time every run is done or skipped for
\* good, and the dataset is built from them again and again.
Completes ==
  /\ <>[](file # Missing /\ \A i \in Runs : file.runs[i].status \in Terminal)
  /\ []<>(file.final = "complete")

\* What the documentation says of resume: it may be called after a reboot or a
\* failed run.  It is refused only while another collector runs.
ResumeAfterReboot ==
  [][\A p \in Commands : Refuse(p) => \E q \in Commands : proc[q].locks]_vars
=============================================================================
