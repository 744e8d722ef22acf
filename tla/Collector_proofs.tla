--------------------------- MODULE Collector_proofs ---------------------------
(***************************************************************************)
(* Proofs about the sequence collector, for any number of commands, any    *)
(* plan and any number of faults: one collector at a time, a checkpoint    *)
(* that keeps what it has and claims only what is there.                   *)
(***************************************************************************)
EXTENDS Collector, TLAPS

Pcs == {"off", "refused", "load", "prepare", "pick", "check", "capture", "zeek",
        "zeeking", "converted", "finalize", "build", "built", "exit"}
Process == [pc : Pcs, locks : BOOLEAN, retry : BOOLEAN, finalize : BOOLEAN,
            mem : State, run : 0..NumRuns]
ProcsOK == proc \in [Commands -> Process]

\* Where only a command that took the lock can be, and where it works on a run.
Collecting == {"prepare", "pick", "check", "capture", "zeek", "zeeking", "converted"}
OnRun == {"check", "capture", "zeek", "zeeking", "converted"}

-----------------------------------------------------------------------------
(* States and processes.                                                   *)

\* A new plan is a state.
LEMMA FreshIsState == FreshState \in State
  BY DEF FreshState, State, Statuses

\* A process that has not started, or is gone.
LEMMA OffIs == Off \in Process /\ Off.pc = "off" /\ Off.locks = FALSE /\ Off.mem = FreshState
  <1>1. 0 \in 0..NumRuns
    BY CollectorAssumption
  <1>2. Off \in Process
    BY <1>1, FreshIsState DEF Off, Process, Pcs
  <1> QED
    BY <1>2 DEF Off

\* Marking a run changes its status and nothing else.
WithStatus(s, i, status) == [s EXCEPT !.runs[i].status = status]

\* Marking a run changes nothing else.
LEMMA WithStatusIs ==
  ASSUME NEW s \in State, NEW i \in Runs, NEW status \in Statuses
  PROVE  /\ WithStatus(s, i, status) \in State
         /\ WithStatus(s, i, status).runs[i].status = status
         /\ WithStatus(s, i, status).runs[i].attempts = s.runs[i].attempts
         /\ \A j \in Runs : j # i => WithStatus(s, i, status).runs[j] = s.runs[j]
  BY DEF WithStatus, State

\* Taking up a run counts an attempt.
WithAttempt(s, i) ==
  [s EXCEPT !.runs[i] = [status |-> "capturing", attempts |-> s.runs[i].attempts + 1]]

\* And so does beginning an attempt of it.
LEMMA WithAttemptIs ==
  ASSUME NEW s \in State, NEW i \in Runs
  PROVE  /\ WithAttempt(s, i) \in State
         /\ WithAttempt(s, i).runs[i].status = "capturing"
         /\ WithAttempt(s, i).runs[i].attempts = s.runs[i].attempts + 1
         /\ \A j \in Runs : j # i => WithAttempt(s, i).runs[j] = s.runs[j]
  BY DEF WithAttempt, State, Statuses

\* Marking the dataset leaves the runs alone.
LEMMA FinalizedIs ==
  ASSUME NEW s \in State, NEW final \in {"running", "complete", "failed"}, NEW t,
         t = [s EXCEPT !.final = final]
  PROVE  t \in State /\ t.runs = s.runs
  BY DEF State

\* What a step of a command changes of the processes.
LEMMA GoToIs ==
  ASSUME ProcsOK, NEW p \in Commands, NEW l \in Pcs, GoTo(p, l)
  PROVE  /\ ProcsOK'
         /\ proc'[p].pc = l /\ proc'[p].mem = proc[p].mem /\ proc'[p].run = proc[p].run
         /\ proc'[p].locks = proc[p].locks
         /\ \A q \in Commands : q # p => proc'[q] = proc[q]
  BY DEF GoTo, ProcsOK, Process

\* The same for a step that saves.
LEMMA SaveIs ==
  ASSUME ProcsOK, NEW p \in Commands, NEW s \in State, NEW l \in Pcs, SaveAndGo(p, s, l)
  PROVE  /\ ProcsOK' /\ file' = s
         /\ proc'[p].pc = l /\ proc'[p].mem = s /\ proc'[p].run = proc[p].run
         /\ proc'[p].locks = proc[p].locks
         /\ \A q \in Commands : q # p => proc'[q] = proc[q]
  BY DEF SaveAndGo, ProcsOK, Process

\* The memory of a command is a state.
LEMMA RunsAre == ASSUME NEW p \in Commands, ProcsOK PROVE proc[p].mem \in State /\ proc[p].run \in 0..NumRuns
  BY DEF ProcsOK, Process

-----------------------------------------------------------------------------
(* Who works: the lock, the types, and what a command holds.               *)

FileOK ==
  /\ file \in State \cup {Missing}
  /\ lock \in Commands \cup {Nobody}
  /\ unlocked \in Nat /\ faults \in Nat

\* A command that took the lock has it, and only such a command collects.  As
\* long as all have taken it, what the one that works holds is the file.
CommandInv(p) ==
  /\ proc[p].locks => lock = p
  /\ proc[p].pc \in Collecting => proc[p].locks
  /\ proc[p].pc \in OnRun =>
       /\ proc[p].run \in Runs
       /\ proc[p].mem.runs[proc[p].run].status \in {"capturing", "pcap_done"}
  /\ unlocked = 0 =>
       /\ proc[p].pc \notin {"off", "refused"} => proc[p].locks
       /\ proc[p].pc \notin {"off", "refused", "load"} => file = proc[p].mem

LockInv == FileOK /\ ProcsOK /\ \A p \in Commands : CommandInv(p)

\* Work of a command that saves nothing.
LEMMA GoingKeepsLock ==
  ASSUME LockInv, NEW p \in Commands, NEW l \in Pcs, GoTo(p, l),
         UNCHANGED <<file, lock, unlocked>>, faults' \in Nat,
         l \in Collecting => proc[p].locks,
         l \in OnRun => proc[p].pc \in OnRun,
         proc[p].pc \in {"off", "refused"} => l \in {"off", "refused"},
         proc[p].pc # "load"
  PROVE  LockInv'
  <1>1. /\ ProcsOK'
        /\ proc'[p].pc = l /\ proc'[p].mem = proc[p].mem /\ proc'[p].run = proc[p].run
        /\ proc'[p].locks = proc[p].locks
        /\ \A q \in Commands : q # p => proc'[q] = proc[q]
    BY GoToIs DEF LockInv
  <1>2. FileOK'
    BY DEF LockInv, FileOK
  <1>3. ASSUME NEW q \in Commands PROVE CommandInv(q)'
    <2>1. CASE q # p
      BY <1>1, <2>1 DEF LockInv, CommandInv
    <2>2. CASE q = p
      BY <1>1, <2>2 DEF LockInv, CommandInv
    <2> QED
      BY <2>1, <2>2
  <1> QED
    BY <1>1, <1>2, <1>3 DEF LockInv

\* Work of a command that saves the state it holds.
LEMMA SavingKeepsLock ==
  ASSUME LockInv, NEW p \in Commands, NEW s \in State, NEW l \in Pcs, SaveAndGo(p, s, l),
         UNCHANGED <<lock, unlocked>>, faults' \in Nat,
         proc[p].pc \notin {"off", "refused"},
         l \in Collecting => proc[p].locks,
         l \in OnRun => proc[p].run \in Runs /\ s.runs[proc[p].run].status \in {"capturing", "pcap_done"}
  PROVE  LockInv'
  <1>1. /\ ProcsOK' /\ file' = s
        /\ proc'[p].pc = l /\ proc'[p].mem = s /\ proc'[p].run = proc[p].run
        /\ proc'[p].locks = proc[p].locks
        /\ \A q \in Commands : q # p => proc'[q] = proc[q]
    BY SaveIs DEF LockInv
  <1>2. FileOK'
    BY <1>1 DEF LockInv, FileOK
  <1>3. ASSUME NEW q \in Commands PROVE CommandInv(q)'
    <2>1. CASE q # p
      <3>1. unlocked = 0 => ~proc[q].locks
        BY <2>1 DEF LockInv, CommandInv
      <3> QED
        BY <1>1, <2>1, <3>1 DEF LockInv, CommandInv
    <2>2. CASE q = p
      BY <1>1, <2>2 DEF LockInv, CommandInv
    <2> QED
      BY <2>1, <2>2
  <1> QED
    BY <1>1, <1>2, <1>3 DEF LockInv

\* Marking the run in hand while it is worked on.
LEMMA MarkingRun ==
  ASSUME LockInv, NEW p \in Commands, proc[p].pc \in OnRun, NEW status \in Statuses
  PROVE  /\ proc[p].run \in Runs /\ proc[p].mem \in State /\ Marked(p, status) \in State
         /\ Marked(p, status).runs[proc[p].run].status = status
         /\ Marked(p, status).runs[proc[p].run].attempts = proc[p].mem.runs[proc[p].run].attempts
         /\ \A j \in Runs : j # proc[p].run => Marked(p, status).runs[j] = proc[p].mem.runs[j]
  <1>1. proc[p].run \in Runs /\ proc[p].mem \in State
    BY RunsAre DEF LockInv, CommandInv
  <1>2. Marked(p, status) = WithStatus(proc[p].mem, proc[p].run, status)
    BY DEF Marked, WithStatus
  <1> QED
    BY <1>1, <1>2, WithStatusIs

\* At first there is no lock, and nobody works.
LEMMA LockInvInit ==
  ASSUME Init PROVE LockInv
  <1>1. FileOK
    BY DEF Init, FileOK
  <1>2. \A p \in Commands : proc[p] = Off
    BY OffIs DEF Init, ProcsOK
  <1>3. ProcsOK
    BY OffIs DEF Init, ProcsOK
  <1>4. ASSUME NEW p \in Commands PROVE CommandInv(p)
    BY <1>2, OffIs DEF CommandInv, Collecting, OnRun
  <1> QED
    BY <1>1, <1>3, <1>4 DEF LockInv

\* Commands that start, end, are killed or tidy up a stale lock.
LEMMA CommandsStartAndEnd ==
  ASSUME LockInv, NEW p \in Commands,
         (\E o \in Options : StartLocked(p, o)) \/ Refuse(p) \/ StartFinalize(p) \/ Kill(p)
           \/ Exit(p) \/ RefusedExits(p)
  PROVE  LockInv'
  <1> USE DEF LockInv, FileOK
  <1>1. Off \in Process /\ Off.pc = "off" /\ Off.locks = FALSE
    BY OffIs
  <1>2. ASSUME NEW o \in Options, StartLocked(p, o) PROVE LockInv'
    <2> DEFINE new == [Off EXCEPT !.pc = "load", !.locks = TRUE, !.retry = o.retry, !.finalize = o.finalize]
    <2>1. o.retry \in BOOLEAN /\ o.finalize \in BOOLEAN
      BY CollectorAssumption
    <2>2. new \in Process /\ new.pc = "load" /\ new.locks = TRUE
      BY <1>1, <2>1 DEF Process, Pcs
    <2>3. proc' = [proc EXCEPT ![p] = new] /\ lock = Nobody /\ lock' = p
          /\ UNCHANGED <<file, unlocked, faults>>
      BY <1>2 DEF StartLocked
    <2> HIDE DEF new
    <2>4. ProcsOK' /\ proc'[p] = new /\ \A q \in Commands : q # p => proc'[q] = proc[q]
      BY <2>2, <2>3 DEF ProcsOK
    <2>5. \A q \in Commands : ~proc[q].locks
      BY <2>3, CollectorAssumption DEF CommandInv, Nobody
    <2> QED
      BY <2>2, <2>3, <2>4, <2>5 DEF CommandInv, Collecting, OnRun
  <1>3. CASE Refuse(p)
    BY <1>3, GoingKeepsLock DEF Refuse, At, Pcs, Collecting, OnRun
  <1>4. CASE RefusedExits(p)
    BY <1>4, GoingKeepsLock DEF RefusedExits, At, Pcs, Collecting, OnRun
  <1>5. CASE StartFinalize(p)
    <2> DEFINE new == [Off EXCEPT !.pc = "load", !.finalize = TRUE]
    <2>1. new \in Process /\ new.pc = "load" /\ new.locks = FALSE
      BY <1>1 DEF Process, Pcs
    <2>2. proc' = [proc EXCEPT ![p] = new] /\ unlocked' = unlocked + 1
          /\ UNCHANGED <<file, lock, faults>>
      BY <1>5 DEF StartFinalize
    <2> HIDE DEF new
    <2>3. ProcsOK' /\ proc'[p] = new /\ \A q \in Commands : q # p => proc'[q] = proc[q]
      BY <2>1, <2>2 DEF ProcsOK
    <2> QED
      BY <2>1, <2>2, <2>3 DEF CommandInv, Collecting, OnRun
  <1>6. ASSUME proc' = [proc EXCEPT ![p] = Off], UNCHANGED <<file, unlocked>>, faults' \in Nat,
               lock' = lock \/ (proc[p].locks /\ lock' = Nobody)
        PROVE  LockInv'
    <2>1. ProcsOK' /\ proc'[p] = Off /\ \A q \in Commands : q # p => proc'[q] = proc[q]
      BY <1>1, <1>6 DEF ProcsOK
    <2>2. ASSUME NEW q \in Commands PROVE CommandInv(q)'
      <3>1. CASE q = p
        BY <1>1, <2>1, <3>1 DEF CommandInv, Collecting, OnRun
      <3>2. CASE q # p
        BY <1>6, <2>1, <3>2 DEF CommandInv
      <3> QED
        BY <3>1, <3>2
    <2> QED
      BY <1>6, <2>1, <2>2
  <1>7. CASE Kill(p)
    BY <1>6, <1>7 DEF Kill, Fault
  <1>8. CASE Exit(p)
    BY <1>6, <1>8 DEF Exit
  <1> QED
    BY <1>2, <1>3, <1>4, <1>5, <1>7, <1>8

\* What a command loads: a state, if there is one, else a fresh one.
Loaded == IF file = Missing THEN FreshState ELSE file

\* load_or_create_state gives a state.
LEMMA LoadedIsState == ASSUME FileOK PROVE Loaded \in State
  BY FreshIsState DEF FileOK, Loaded

\* The step that picks the next run.
LEMMA PickIs ==
  ASSUME ProcsOK, NEW p \in Commands, Pick(p)
  PROVE  /\ proc'[p].run \in Runs /\ proc'[p].mem \in State
         /\ proc[p].mem.runs[proc'[p].run].status \notin Terminal
         /\ proc'[p].mem.runs[proc'[p].run].status = "capturing"
         /\ proc'[p].mem.runs[proc'[p].run].attempts = proc[p].mem.runs[proc'[p].run].attempts + 1
         /\ \A j \in Runs : j # proc'[p].run => proc'[p].mem.runs[j] = proc[p].mem.runs[j]
         /\ file' = proc'[p].mem /\ ProcsOK'
         /\ proc'[p].pc = "check"
         /\ proc'[p].locks = proc[p].locks
         /\ \A q \in Commands : q # p => proc'[q] = proc[q]
         /\ UNCHANGED <<lock, conn, dataset, unlocked, faults>>
  <1>1. PICK i \in Remaining(p) :
          /\ file' = WithAttempt(proc[p].mem, i)
          /\ proc' = [proc EXCEPT ![p].mem = WithAttempt(proc[p].mem, i), ![p].run = i, ![p].pc = "check"]
    BY DEF Pick, WithAttempt
  <1>2. i \in Runs /\ proc[p].mem.runs[i].status \notin Terminal
    BY DEF Remaining
  <1>3. i \in 0..NumRuns
    BY <1>2, CollectorAssumption DEF Runs
  <1>4. proc[p].mem \in State
    BY RunsAre
  <1> DEFINE s == WithAttempt(proc[p].mem, i)
  <1>5. /\ s \in State
        /\ s.runs[i].status = "capturing"
        /\ s.runs[i].attempts = proc[p].mem.runs[i].attempts + 1
        /\ \A j \in Runs : j # i => s.runs[j] = proc[p].mem.runs[j]
    BY <1>2, <1>4, WithAttemptIs
  <1>6. /\ file' = s /\ proc' = [proc EXCEPT ![p].mem = s, ![p].run = i, ![p].pc = "check"]
        /\ UNCHANGED <<lock, conn, dataset, unlocked, faults>>
    BY <1>1 DEF Pick
  <1> HIDE DEF s
  <1>7. /\ ProcsOK'
        /\ proc'[p].pc = "check" /\ proc'[p].mem = s /\ proc'[p].run = i
        /\ proc'[p].locks = proc[p].locks
        /\ \A q \in Commands : q # p => proc'[q] = proc[q]
    <2>1. s \in State /\ proc' = [proc EXCEPT ![p].mem = s, ![p].run = i, ![p].pc = "check"]
      BY <1>5, <1>6
    <2> QED
      BY <1>3, <2>1 DEF ProcsOK, Process, Pcs
  <1> QED
    BY <1>2, <1>5, <1>6, <1>7

\* Every step of a command keeps the invariant of the lock,
LEMMA WorkKeepsLock ==
  ASSUME LockInv, NEW p \in Commands,
         Work(p) \/ StepFails(p) \/ CaptureExits(p) \/ BuildFails(p)
  PROVE  LockInv'
  <1> USE DEF At, Pcs, Collecting, OnRun
  <1>0. faults \in Nat /\ (Fault => faults' \in Nat)
    BY DEF LockInv, FileOK, Fault
  <1>1. CASE Load(p)
    <2>1. SaveAndGo(p, Loaded, IF proc[p].locks THEN "prepare" ELSE "finalize")
      BY <1>1 DEF Load, Loaded
    <2>2. Loaded \in State
      BY LoadedIsState DEF LockInv
    <2> QED
      BY <1>0, <1>1, <2>1, <2>2, SavingKeepsLock DEF Load
  <1>2. CASE Prepare(p)
    <2>1. proc[p].locks
      BY <1>2 DEF Prepare, LockInv, CommandInv
    <2>2. GoTo(p, "pick") \/ GoTo(p, "exit")
      BY <1>2 DEF Prepare
    <2>3. faults' \in Nat
      BY <1>0, <1>2 DEF Prepare
    <2> QED
      BY <1>2, <2>1, <2>2, <2>3, GoingKeepsLock DEF Prepare
  <1>3. CASE Pick(p)
    <2>1. proc[p].locks
      BY <1>3 DEF Pick, LockInv, CommandInv
    <2>2. /\ proc'[p].run \in Runs /\ proc'[p].mem \in State
          /\ proc'[p].mem.runs[proc'[p].run].status = "capturing"
          /\ file' = proc'[p].mem /\ ProcsOK'
          /\ proc'[p].pc = "check"
          /\ proc'[p].locks = proc[p].locks
          /\ \A q \in Commands : q # p => proc'[q] = proc[q]
          /\ UNCHANGED <<lock, unlocked, faults>>
      BY <1>3, PickIs DEF LockInv
    <2>3. FileOK'
      BY <2>2 DEF LockInv, FileOK
    <2>4. ASSUME NEW q \in Commands PROVE CommandInv(q)'
      <3>1. CASE q = p
        BY <2>1, <2>2, <3>1 DEF LockInv, CommandInv
      <3>2. CASE q # p
        BY <2>1, <2>2, <3>2 DEF LockInv, CommandInv
      <3> QED
        BY <3>1, <3>2
    <2> QED
      BY <2>2, <2>3, <2>4 DEF LockInv
  <1>4. CASE CollectionEnds(p)
    <2>1. proc[p].locks
      BY <1>4 DEF CollectionEnds, LockInv, CommandInv
    <2> QED
      BY <1>0, <1>4, <2>1, GoingKeepsLock DEF CollectionEnds
  <1>5. CASE StartCapture(p) \/ ZeekStarts(p) \/ ZeekEnds(p) \/ CaptureExits(p)
    <2>1. proc[p].locks
      BY <1>5 DEF StartCapture, ZeekStarts, ZeekEnds, CaptureExits, LockInv, CommandInv
    <2>2. /\ proc[p].pc \in OnRun
          /\ \E l \in {"capture", "zeeking", "converted", "exit"} : GoTo(p, l)
          /\ UNCHANGED <<file, lock, unlocked>>
      BY <1>5 DEF StartCapture, ZeekStarts, ZeekEnds, CaptureExits
    <2>3. faults' \in Nat
      BY <1>0, <1>5 DEF StartCapture, ZeekStarts, ZeekEnds, CaptureExits
    <2> QED
      BY <2>1, <2>2, <2>3, GoingKeepsLock
  <1>6. ASSUME NEW status \in Statuses, NEW l \in {"pick", "zeek", "exit"},
               proc[p].pc \in OnRun, SaveAndGo(p, Marked(p, status), l),
               l = "zeek" => status = "pcap_done", UNCHANGED <<lock, unlocked>>, faults' \in Nat
        PROVE  LockInv'
    <2>1. proc[p].locks
      BY <1>6 DEF LockInv, CommandInv
    <2>2. /\ proc[p].run \in Runs /\ Marked(p, status) \in State
          /\ Marked(p, status).runs[proc[p].run].status = status
      BY <1>6, MarkingRun
    <2> QED
      BY <1>6, <2>1, <2>2, SavingKeepsLock
  <1>7. CASE SkipExistingRun(p)
    BY <1>0, <1>6, <1>7 DEF SkipExistingRun, Statuses
  <1>8. CASE Captured(p)
    BY <1>0, <1>6, <1>8 DEF Captured, Statuses
  <1>9. CASE Converted(p)
    BY <1>0, <1>6, <1>9 DEF Converted, Statuses
  <1>10. CASE StepFails(p)
    BY <1>0, <1>6, <1>10 DEF StepFails, Statuses
  <1>11. ASSUME NEW final \in {"running", "complete", "failed"}, NEW l \in {"build", "exit"},
                proc[p].pc \in {"finalize", "build", "built"}, SaveAndGo(p, Finalized(p, final), l),
                UNCHANGED <<lock, unlocked>>, faults' \in Nat
         PROVE  LockInv'
    <2>1. Finalized(p, final) \in State
      BY RunsAre, FinalizedIs DEF Finalized, LockInv
    <2> QED
      BY <1>11, <2>1, SavingKeepsLock
  <1>12. CASE FinalizeStarts(p)
    BY <1>0, <1>11, <1>12 DEF FinalizeStarts
  <1>13. CASE FinalizeEnds(p)
    BY <1>0, <1>11, <1>13 DEF FinalizeEnds
  <1>14. CASE BuildFails(p)
    BY <1>0, <1>11, <1>14 DEF BuildFails
  <1>15. CASE Build(p)
    BY <1>0, <1>15, GoingKeepsLock DEF Build
  <1>16. CASE Exit(p) \/ RefusedExits(p)
    BY <1>16, CommandsStartAndEnd
  <1> QED
    BY <1>1, <1>2, <1>3, <1>4, <1>5, <1>7, <1>8, <1>9, <1>10, <1>12, <1>13, <1>14, <1>15, <1>16
    DEF Work

\* and so does every step of the system.
LEMMA LockInvNext ==
  ASSUME LockInv, [Next]_vars PROVE LockInv'
  <1>1. CASE PlanWritesState
    <2>1. unlocked' = unlocked + 1 /\ file' = FreshState /\ UNCHANGED <<lock, proc, faults>>
      BY <1>1 DEF PlanWritesState
    <2>2. FileOK' /\ ProcsOK'
      BY <2>1, FreshIsState DEF LockInv, FileOK, ProcsOK
    <2>3. unlocked' # 0
      BY <2>1 DEF LockInv, FileOK
    <2> QED
      BY <2>1, <2>2, <2>3 DEF LockInv, CommandInv
  <1>2. CASE RemoveStaleLock
    <2>1. lock # Nobody /\ ~proc[lock].locks /\ lock' = Nobody
          /\ UNCHANGED <<file, proc, unlocked, faults>>
      BY <1>2 DEF RemoveStaleLock
    <2>2. \A p \in Commands : ~proc[p].locks
      BY <2>1 DEF LockInv, CommandInv
    <2> QED
      BY <2>1, <2>2 DEF LockInv, FileOK, ProcsOK, CommandInv
  <1>3. CASE UNCHANGED vars
    BY <1>3 DEF vars, LockInv, FileOK, ProcsOK, CommandInv
  <1> QED
    BY <1>1, <1>2, <1>3, CommandsStartAndEnd, WorkKeepsLock DEF Next

\* Two collectors never work on the same data: the lock file is created
\* exclusively (acquire_lock), and a lock is removed only when its command is gone.
THEOREM CollectorIsAlone == Spec => []OneCollector
  <1>1. LockInv => OneCollector
    BY DEF LockInv, CommandInv, OneCollector
  <1> QED
    BY <1>1, LockInvInit, LockInvNext, PTL DEF Spec

-----------------------------------------------------------------------------
(* What the checkpoint keeps.                                              *)

Keeps(s, t) ==
  \A i \in Runs : /\ s.runs[i].status \in Terminal => t.runs[i] = s.runs[i]
                  /\ t.runs[i].attempts >= s.runs[i].attempts

\* An absent checkpoint is told from any state.
LEMMA MissingIsNoState == Missing \notin State
  BY DEF Missing, State

\* Saving what is there loses nothing.
LEMMA KeepsItself == ASSUME NEW s \in State PROVE Keeps(s, s)
  BY DEF Keeps, State

\* A command that works while all take the lock saves what it loaded, with the
\* run in hand marked; and that run was not yet done.
LEMMA WorkKeeps ==
  ASSUME LockInv, NEW p \in Commands, file \in State, unlocked = 0,
         Work(p) \/ StepFails(p) \/ CaptureExits(p) \/ BuildFails(p)
  PROVE  file' \in State /\ Keeps(file, file')
  <1> USE DEF At, OnRun
  <1>1. CASE UNCHANGED file
    BY <1>1, KeepsItself
  <1>2. CASE Load(p)
    BY <1>1, <1>2, MissingIsNoState DEF Load, SaveAndGo
  <1>3. CASE Pick(p)
    <2>1. file = proc[p].mem
      BY <1>3 DEF Pick, LockInv, CommandInv
    <2>2. /\ proc'[p].run \in Runs /\ file' \in State
          /\ file.runs[proc'[p].run].status \notin Terminal
          /\ file'.runs[proc'[p].run].attempts = file.runs[proc'[p].run].attempts + 1
          /\ \A j \in Runs : j # proc'[p].run => file'.runs[j] = file.runs[j]
      BY <1>3, <2>1, PickIs DEF LockInv
    <2>3. \A j \in Runs : file.runs[j].attempts \in Nat
      BY DEF State
    <2> QED
      BY <2>2, <2>3 DEF Keeps
  <1>4. ASSUME NEW status \in Statuses, NEW l, proc[p].pc \in OnRun,
               SaveAndGo(p, Marked(p, status), l)
        PROVE  file' \in State /\ Keeps(file, file')
    <2>1. file = proc[p].mem /\ file.runs[proc[p].run].status \in {"capturing", "pcap_done"}
      BY <1>4 DEF LockInv, CommandInv
    <2>2. file' = Marked(p, status)
      BY <1>4 DEF SaveAndGo
    <2>3. /\ proc[p].run \in Runs /\ file' \in State
          /\ file'.runs[proc[p].run].attempts = file.runs[proc[p].run].attempts
          /\ \A j \in Runs : j # proc[p].run => file'.runs[j] = file.runs[j]
      BY <1>4, <2>1, <2>2, MarkingRun
    <2>4. \A j \in Runs : file.runs[j].attempts \in Nat
      BY DEF State
    <2> QED
      BY <2>1, <2>3, <2>4 DEF Keeps, Terminal
  <1>5. CASE SkipExistingRun(p) \/ Captured(p) \/ Converted(p) \/ StepFails(p)
    BY <1>4, <1>5 DEF SkipExistingRun, Captured, Converted, StepFails, Statuses
  <1>6. ASSUME NEW final \in {"running", "complete", "failed"}, NEW l,
               proc[p].pc \in {"finalize", "build", "built"}, SaveAndGo(p, Finalized(p, final), l)
        PROVE  file' \in State /\ Keeps(file, file')
    <2>1. file = proc[p].mem /\ file' = Finalized(p, final)
      BY <1>6 DEF LockInv, CommandInv, SaveAndGo
    <2>2. file' \in State /\ file'.runs = file.runs
      BY <2>1, FinalizedIs DEF Finalized
    <2> QED
      BY <2>2, KeepsItself DEF Keeps
  <1>7. CASE FinalizeStarts(p) \/ FinalizeEnds(p) \/ BuildFails(p)
    BY <1>6, <1>7 DEF FinalizeStarts, FinalizeEnds, BuildFails
  <1>8. CASE \/ Prepare(p) \/ CollectionEnds(p) \/ StartCapture(p) \/ ZeekStarts(p) \/ ZeekEnds(p)
             \/ CaptureExits(p) \/ Build(p) \/ Exit(p) \/ RefusedExits(p)
    BY <1>1, <1>8
    DEF Prepare, CollectionEnds, StartCapture, ZeekStarts, ZeekEnds, CaptureExits, Build, Exit, RefusedExits
  <1> QED
    BY <1>2, <1>3, <1>5, <1>7, <1>8 DEF Work

\* The checkpoint keeps what was achieved and counts every attempt, across
\* kills, failures and restarts, while run and resume are all that is called:
\* load_or_create_state and save_state exchange whole files, and only the
\* command that has the lock does so.
THEOREM AchievementsLast == Spec => CheckpointKeeps
  <1>1. ASSUME LockInv, [Next]_vars
        PROVE  [file # Missing /\ unlocked' = 0 =>
                  /\ file' # Missing
                  /\ \A i \in Runs :
                       /\ file.runs[i].status \in Terminal => file'.runs[i] = file.runs[i]
                       /\ file'.runs[i].attempts >= file.runs[i].attempts]_vars
    <2> SUFFICES ASSUME Next, file # Missing, unlocked' = 0
                 PROVE  file' \in State /\ Keeps(file, file')
      BY <1>1, MissingIsNoState DEF Keeps
    <2>1. file \in State /\ unlocked \in Nat
      BY <1>1 DEF LockInv, FileOK
    <2>2. CASE UNCHANGED <<file, unlocked>>
      BY <2>1, <2>2, KeepsItself
    <2>3. ASSUME NEW p \in Commands, Work(p) \/ StepFails(p) \/ CaptureExits(p) \/ BuildFails(p)
          PROVE  unlocked' = unlocked
      BY <2>3 DEF Work, Load, Prepare, Pick, CollectionEnds, SkipExistingRun, StartCapture, Captured,
         ZeekStarts, ZeekEnds, Converted, FinalizeStarts, Build, FinalizeEnds, Exit, RefusedExits,
         StepFails, CaptureExits, BuildFails
    <2>4. ASSUME NEW p \in Commands, (\E o \in Options : StartLocked(p, o)) \/ Refuse(p) \/ Kill(p)
          PROVE  UNCHANGED <<file, unlocked>>
      BY <2>4 DEF StartLocked, Refuse, Kill
    <2>5. ASSUME NEW p \in Commands PROVE ~StartFinalize(p)
      BY <2>1 DEF StartFinalize
    <2>6. ~PlanWritesState
      BY <2>1 DEF PlanWritesState
    <2>7. CASE RemoveStaleLock
      BY <2>2, <2>7 DEF RemoveStaleLock
    <2> QED
      BY <1>1, <2>1, <2>2, <2>3, <2>4, <2>5, <2>6, <2>7, WorkKeeps DEF Next
  <1> QED
    BY <1>1, LockInvInit, LockInvNext, PTL DEF Spec, CheckpointKeeps

-----------------------------------------------------------------------------
(* What the checkpoint claims, if existing logs are skipped.               *)

Logs == [Runs -> {"none", "partial", "full"}]

\* A state that claims no log that is not there.
Honest(s, logs) ==
  \A i \in Runs : /\ s.runs[i].status = "zeek_done" => logs[i] = "full"
                  /\ s.runs[i].status = "skipped_existing" => logs[i] # "none"

\* A run that is worked on had no log, and gets one.
RunInHand(process, logs) ==
  /\ process.pc \in {"capture", "zeek"} => logs[process.run] = "none"
  /\ process.pc = "zeeking" => logs[process.run] = "partial"
  /\ process.pc = "converted" => logs[process.run] = "full"

FilesOK ==
  /\ conn \in Logs
  /\ dataset \in SUBSET [run : Runs, log : {"partial", "full"}, status : Terminal]
  /\ \A d \in dataset : d.log = "partial" => d.status = "skipped_existing"

TruthInv ==
  /\ FilesOK
  /\ file # Missing => Honest(file, conn)
  /\ \A p \in Commands : Honest(proc[p].mem, conn) /\ RunInHand(proc[p], conn)

\* Logs only become more complete, for a run that has none is the only one
\* that is captured.
Grow(logs, later) ==
  \A i \in Runs : /\ logs[i] = "full" => later[i] = "full"
                  /\ logs[i] # "none" => later[i] # "none"

\* Logs that only grow leave an honest state honest.
LEMMA HonestGrows ==
  ASSUME NEW s, NEW logs, NEW later, Honest(s, logs), Grow(logs, later) PROVE Honest(s, later)
  BY DEF Honest, Grow

\* A new plan claims nothing.
LEMMA FreshIsHonest == ASSUME NEW logs PROVE Honest(FreshState, logs)
  BY DEF Honest, FreshState

\* Only the command with the lock has a run in hand.
LEMMA OneRunInHand ==
  ASSUME LockInv, NEW p \in Commands, NEW q \in Commands, p # q,
         proc[p].pc \in OnRun, proc[q].pc \in OnRun
  PROVE  FALSE
  BY DEF LockInv, CommandInv, OnRun, Collecting

\* A step of a command that saves nothing.
LEMMA GoingKeepsTruth ==
  ASSUME LockInv, TruthInv, NEW p \in Commands, NEW l \in Pcs, GoTo(p, l), file' = file,
         FilesOK', Grow(conn, conn'), conn' = conn \/ proc[p].pc \in OnRun,
         \A i \in Runs : i # proc[p].run => conn'[i] = conn[i],
         l \in {"capture", "zeek"} => conn'[proc[p].run] = "none",
         l = "zeeking" => conn'[proc[p].run] = "partial",
         l = "converted" => conn'[proc[p].run] = "full"
  PROVE  TruthInv'
  <1>1. /\ proc'[p].pc = l /\ proc'[p].mem = proc[p].mem /\ proc'[p].run = proc[p].run
        /\ \A q \in Commands : q # p => proc'[q] = proc[q]
    BY GoToIs DEF LockInv
  <1>2. file' # Missing => Honest(file', conn')
    BY HonestGrows DEF TruthInv
  <1>3. ASSUME NEW q \in Commands PROVE Honest(proc'[q].mem, conn')
    BY <1>1, HonestGrows DEF TruthInv
  <1>4. ASSUME NEW q \in Commands PROVE RunInHand(proc'[q], conn')
    <2>1. CASE q = p
      BY <1>1, <2>1 DEF RunInHand
    <2>2. CASE q # p /\ conn' = conn
      BY <1>1, <2>2 DEF TruthInv
    <2>3. CASE q # p /\ conn' # conn
      <3>1. proc[q].pc \notin OnRun
        BY <2>3, OneRunInHand
      <3> QED
        BY <1>1, <2>3, <3>1 DEF RunInHand, OnRun
    <2> QED
      BY <2>1, <2>2, <2>3
  <1> QED
    BY <1>2, <1>3, <1>4 DEF TruthInv

\* A step that saves.
LEMMA SavingKeepsTruth ==
  ASSUME LockInv, TruthInv, NEW p \in Commands, NEW s \in State, NEW l \in Pcs,
         SaveAndGo(p, s, l), Honest(s, conn), UNCHANGED <<conn, dataset>>,
         l \notin {"capture", "zeeking", "converted"},
         l = "zeek" => conn[proc[p].run] = "none"
  PROVE  TruthInv'
  <1>1. /\ file' = s /\ proc'[p].pc = l /\ proc'[p].mem = s /\ proc'[p].run = proc[p].run
        /\ \A q \in Commands : q # p => proc'[q] = proc[q]
    BY SaveIs DEF LockInv
  <1>2. FilesOK'
    BY DEF TruthInv, FilesOK
  <1>3. ASSUME NEW q \in Commands PROVE Honest(proc'[q].mem, conn') /\ RunInHand(proc'[q], conn')
    <2>1. CASE q = p
      BY <1>1, <2>1 DEF RunInHand
    <2>2. CASE q # p
      BY <1>1, <2>2 DEF TruthInv
    <2> QED
      BY <2>1, <2>2
  <1> QED
    BY <1>1, <1>2, <1>3 DEF TruthInv

\* A step that saves the state with the run in hand marked.
LEMMA MarkingKeepsTruth ==
  ASSUME LockInv, TruthInv, NEW p \in Commands, NEW status \in Statuses, NEW l \in {"pick", "zeek", "exit"},
         proc[p].pc \in OnRun, SaveAndGo(p, Marked(p, status), l), UNCHANGED <<conn, dataset>>,
         status = "zeek_done" => conn[proc[p].run] = "full",
         status = "skipped_existing" => conn[proc[p].run] # "none",
         l = "zeek" => conn[proc[p].run] = "none"
  PROVE  TruthInv'
  <1>1. /\ proc[p].run \in Runs /\ Marked(p, status) \in State
        /\ Marked(p, status).runs[proc[p].run].status = status
        /\ \A j \in Runs : j # proc[p].run => Marked(p, status).runs[j] = proc[p].mem.runs[j]
    BY MarkingRun
  <1>2. Honest(Marked(p, status), conn)
    BY <1>1 DEF TruthInv, Honest
  <1> QED
    BY <1>1, <1>2, SavingKeepsTruth DEF Pcs

\* A step that saves the state with the dataset marked.
LEMMA FinalizingKeepsTruth ==
  ASSUME LockInv, TruthInv, NEW p \in Commands, NEW final \in {"running", "complete", "failed"},
         NEW l \in {"build", "exit"}, SaveAndGo(p, Finalized(p, final), l), UNCHANGED <<conn, dataset>>
  PROVE  TruthInv'
  <1>1. Finalized(p, final) \in State /\ Finalized(p, final).runs = proc[p].mem.runs
    BY RunsAre, FinalizedIs DEF Finalized, LockInv
  <1>2. Honest(Finalized(p, final), conn)
    BY <1>1 DEF TruthInv, Honest
  <1> QED
    BY <1>1, <1>2, SavingKeepsTruth DEF Pcs

\* At first nothing is claimed.
LEMMA TruthInvInit ==
  ASSUME Init PROVE TruthInv
  <1>1. FilesOK /\ file = Missing
    BY DEF Init, FilesOK, Logs
  <1>2. ASSUME NEW p \in Commands PROVE Honest(proc[p].mem, conn) /\ RunInHand(proc[p], conn)
    <2>1. proc[p] = Off
      BY DEF Init
    <2> QED
      BY <2>1, OffIs, FreshIsHonest DEF RunInHand
  <1> QED
    BY <1>1, <1>2 DEF TruthInv

\* A command that starts or ends holds a fresh state and no run.
LEMMA ReplacingKeepsTruth ==
  ASSUME LockInv, TruthInv, NEW p \in Commands, NEW new, new.mem = FreshState, new.pc \in {"off", "load"},
         proc' = [proc EXCEPT ![p] = new], UNCHANGED <<file, conn, dataset>>
  PROVE  TruthInv'
  <1>1. proc'[p] = new /\ \A q \in Commands : q # p => proc'[q] = proc[q]
    BY DEF LockInv, ProcsOK
  <1>2. ASSUME NEW q \in Commands PROVE Honest(proc'[q].mem, conn) /\ RunInHand(proc'[q], conn)
    BY <1>1, FreshIsHonest DEF TruthInv, RunInHand
  <1> QED
    BY <1>2 DEF TruthInv, FilesOK

\* Starting, ending and being killed claim nothing.
LEMMA StartingKeepsTruth ==
  ASSUME LockInv, TruthInv, NEW p \in Commands,
         (\E o \in Options : StartLocked(p, o)) \/ StartFinalize(p) \/ Kill(p) \/ Exit(p)
  PROVE  TruthInv'
  <1>1. ASSUME NEW o \in Options, StartLocked(p, o) PROVE TruthInv'
    <2> DEFINE new == [Off EXCEPT !.pc = "load", !.locks = TRUE, !.retry = o.retry, !.finalize = o.finalize]
    <2>1. new.mem = FreshState /\ new.pc = "load"
      BY DEF Off
    <2>2. proc' = [proc EXCEPT ![p] = new] /\ UNCHANGED <<file, conn, dataset>>
      BY <1>1 DEF StartLocked
    <2> HIDE DEF new
    <2> QED
      BY <2>1, <2>2, ReplacingKeepsTruth
  <1>2. CASE StartFinalize(p)
    <2> DEFINE new == [Off EXCEPT !.pc = "load", !.finalize = TRUE]
    <2>1. new.mem = FreshState /\ new.pc = "load"
      BY DEF Off
    <2>2. proc' = [proc EXCEPT ![p] = new] /\ UNCHANGED <<file, conn, dataset>>
      BY <1>2 DEF StartFinalize
    <2> HIDE DEF new
    <2> QED
      BY <2>1, <2>2, ReplacingKeepsTruth
  <1>3. CASE Kill(p) \/ Exit(p)
    <2>1. proc' = [proc EXCEPT ![p] = Off] /\ UNCHANGED <<file, conn, dataset>>
      BY <1>3 DEF Kill, Exit
    <2> QED
      BY <2>1, OffIs, ReplacingKeepsTruth
  <1> QED
    BY <1>1, <1>2, <1>3

\* Every step of a command keeps the truth,
LEMMA WorkKeepsTruth ==
  ASSUME SkipExisting, LockInv, TruthInv, NEW p \in Commands,
         Work(p) \/ StepFails(p) \/ CaptureExits(p) \/ BuildFails(p) \/ Refuse(p)
  PROVE  TruthInv'
  <1> USE DEF At, Pcs, OnRun
  <1>1. /\ conn \in Logs /\ FilesOK /\ Grow(conn, conn)
        /\ Honest(proc[p].mem, conn) /\ RunInHand(proc[p], conn)
        /\ proc[p].pc \in OnRun => proc[p].run \in Runs
    BY DEF TruthInv, FilesOK, Grow, LockInv, CommandInv
  <1>2. ASSUME NEW l \in Pcs, GoTo(p, l), UNCHANGED <<file, conn, dataset>>,
               l \notin {"capture", "zeek", "zeeking", "converted"}
        PROVE  TruthInv'
    <2>1. FilesOK' /\ Grow(conn, conn')
      BY <1>1, <1>2 DEF FilesOK, Grow
    <2> QED
      BY <1>2, <2>1, GoingKeepsTruth
  <1>3. CASE Load(p)
    <2>1. SaveAndGo(p, Loaded, IF proc[p].locks THEN "prepare" ELSE "finalize")
      BY <1>3 DEF Load, Loaded
    <2>2. Loaded \in State /\ Honest(Loaded, conn)
      BY LoadedIsState, FreshIsHonest DEF LockInv, TruthInv, Loaded
    <2> QED
      BY <1>3, <2>1, <2>2, SavingKeepsTruth DEF Load
  <1>4. CASE Prepare(p) \/ CollectionEnds(p) \/ CaptureExits(p) \/ RefusedExits(p) \/ Refuse(p)
    <2>1. /\ \E l \in {"pick", "exit", "finalize", "off", "refused"} : GoTo(p, l)
          /\ UNCHANGED <<file, conn, dataset>>
      BY <1>4 DEF Prepare, CollectionEnds, CaptureExits, RefusedExits, Refuse
    <2> QED
      BY <1>2, <2>1
  <1>5. CASE Pick(p)
    <2>1. /\ proc'[p].run \in Runs /\ proc'[p].mem \in State
          /\ proc'[p].mem.runs[proc'[p].run].status = "capturing"
          /\ \A j \in Runs : j # proc'[p].run => proc'[p].mem.runs[j] = proc[p].mem.runs[j]
          /\ file' = proc'[p].mem
          /\ proc'[p].pc = "check" 
          /\ \A q \in Commands : q # p => proc'[q] = proc[q]
          /\ UNCHANGED <<conn, dataset>>
      BY <1>5, PickIs DEF LockInv
    <2>2. Honest(proc'[p].mem, conn)
      BY <1>1, <2>1 DEF Honest
    <2>3. ASSUME NEW q \in Commands PROVE Honest(proc'[q].mem, conn) /\ RunInHand(proc'[q], conn)
      BY <2>1, <2>2 DEF TruthInv, RunInHand
    <2> QED
      BY <1>1, <2>1, <2>2, <2>3 DEF TruthInv, FilesOK
  <1>6. CASE SkipExistingRun(p)
    BY <1>6, MarkingKeepsTruth DEF SkipExistingRun, Skips, Statuses
  <1>7. CASE StartCapture(p)
    <2>1. conn[proc[p].run] = "none" /\ FilesOK' /\ Grow(conn, conn') /\ conn' = conn
      BY <1>1, <1>7 DEF StartCapture, Skips, FilesOK, Grow
    <2> QED
      BY <1>7, <2>1, GoingKeepsTruth DEF StartCapture
  <1>8. CASE Captured(p)
    BY <1>1, <1>8, MarkingKeepsTruth DEF Captured, RunInHand, Statuses
  <1>9. CASE ZeekStarts(p)
    <2>1. /\ proc[p].run \in Runs /\ conn[proc[p].run] = "none"
          /\ conn' = [conn EXCEPT ![proc[p].run] = "partial"] /\ dataset' = dataset
      BY <1>1, <1>9 DEF ZeekStarts, RunInHand
    <2>2. FilesOK' /\ Grow(conn, conn') /\ conn'[proc[p].run] = "partial"
          /\ \A i \in Runs : i # proc[p].run => conn'[i] = conn[i]
      BY <1>1, <2>1 DEF FilesOK, Grow, Logs
    <2> QED
      BY <1>9, <2>2, GoingKeepsTruth DEF ZeekStarts
  <1>10. CASE ZeekEnds(p)
    <2>1. /\ proc[p].run \in Runs
          /\ conn' = [conn EXCEPT ![proc[p].run] = "full"] /\ dataset' = dataset
      BY <1>1, <1>10 DEF ZeekEnds
    <2>2. FilesOK' /\ Grow(conn, conn') /\ conn'[proc[p].run] = "full"
          /\ \A i \in Runs : i # proc[p].run => conn'[i] = conn[i]
      BY <1>1, <2>1 DEF FilesOK, Grow, Logs
    <2> QED
      BY <1>10, <2>2, GoingKeepsTruth DEF ZeekEnds
  <1>11. CASE Converted(p)
    BY <1>1, <1>11, MarkingKeepsTruth DEF Converted, RunInHand, Statuses
  <1>12. CASE StepFails(p)
    BY <1>12, MarkingKeepsTruth DEF StepFails, Statuses
  <1>13. CASE FinalizeStarts(p) \/ FinalizeEnds(p) \/ BuildFails(p)
    BY <1>13, FinalizingKeepsTruth DEF FinalizeStarts, FinalizeEnds, BuildFails
  <1>14. CASE Build(p)
    <2>1. CASE dataset' = dataset
      BY <1>2, <1>14, <2>1 DEF Build
    <2>2. CASE dataset' # dataset
      <3>1. /\ dataset' = {[run |-> i, log |-> conn[i], status |-> proc[p].mem.runs[i].status] :
                             i \in SuccessfulRecords(p)}
            /\ GoTo(p, "built") /\ UNCHANGED <<file, conn>>
        BY <1>14, <2>2 DEF Build
      <3>2. ASSUME NEW i \in SuccessfulRecords(p)
            PROVE  /\ i \in Runs /\ conn[i] \in {"partial", "full"}
                   /\ proc[p].mem.runs[i].status \in Terminal
                   /\ conn[i] = "partial" => proc[p].mem.runs[i].status = "skipped_existing"
        BY <1>1 DEF SuccessfulRecords, Logs, Honest, Terminal
      <3>3. FilesOK'
        BY <1>1, <3>1, <3>2 DEF FilesOK
      <3> QED
        BY <1>1, <3>1, <3>3, GoingKeepsTruth
    <2> QED
      BY <2>1, <2>2
  <1>15. CASE Exit(p)
    BY <1>15, StartingKeepsTruth
  <1> QED
    BY <1>3, <1>4, <1>5, <1>6, <1>7, <1>8, <1>9, <1>10, <1>11, <1>12, <1>13, <1>14, <1>15 DEF Work

\* and so does every step of the system.
LEMMA TruthInvNext ==
  ASSUME SkipExisting, LockInv, TruthInv, [Next]_vars PROVE TruthInv'
  <1>1. CASE PlanWritesState
    <2>1. file' = FreshState /\ UNCHANGED <<conn, dataset, proc>>
      BY <1>1 DEF PlanWritesState
    <2> QED
      BY <2>1, FreshIsHonest DEF TruthInv, FilesOK
  <1>2. CASE RemoveStaleLock \/ UNCHANGED vars
    <2>1. UNCHANGED <<file, conn, dataset, proc>>
      BY <1>2 DEF RemoveStaleLock, vars
    <2> QED
      BY <2>1 DEF TruthInv, FilesOK
  <1> QED
    BY <1>1, <1>2, StartingKeepsTruth, WorkKeepsTruth DEF Next

\* If the configuration skips existing logs, the checkpoint, every copy of it
\* and the dataset claim no log that is not there, whatever is killed or fails
\* and whoever overwrites the checkpoint without the lock.
THEOREM CheckpointIsTrue == ASSUME SkipExisting PROVE Spec => []CheckpointTellsTruth
  <1>1. LockInv /\ TruthInv => CheckpointTellsTruth
    BY DEF LockInv, FileOK, ProcsOK, Process, Pcs, TruthInv, FilesOK, Logs, Honest,
       CheckpointTellsTruth, TypeOK, DoneIsConverted
  <1> QED
    BY <1>1, LockInvInit, LockInvNext, TruthInvInit, TruthInvNext, PTL DEF Spec
=============================================================================
