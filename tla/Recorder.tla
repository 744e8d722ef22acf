------------------------------ MODULE Recorder ------------------------------
(***************************************************************************)
(* services/nvr-console/app.py: RecorderSupervisor.  Its thread compares,  *)
(* in every turn, the cameras the database wants recorded with its table   *)
(* of ffmpeg processes, and stops, starts and restarts recorders.  stop()  *)
(* runs in another thread and edits the same table; only the single reads  *)
(* and writes of the table are under the lock.                             *)
(***************************************************************************)
EXTENDS Naturals, Sequences, FiniteSets

CONSTANTS Cameras,      \* the cameras in the database
          MaxChanges,   \* bound: changes of a recording mode
          MaxFaults     \* bound: recorders that exit, starts and calls that fail

ASSUME RecorderAssumption == MaxChanges \in Nat /\ MaxFaults \in Nat

VARIABLES wanted,      \* the database: enabled = 1 and recording_mode != 'disabled'
          table,       \* _processes: a process per camera, 0 for none
          info,        \* _state: what snapshot() shows of each camera
          recorders,   \* every ffmpeg ever started
          pc,          \* where _run_loop is
          desired,     \* cameras its turn has still to visit
          surplus,     \* cameras its turn has still to stop
          cam, proc,   \* the camera and the process it is at
          mainpc,      \* where stop() is
          mainTodo,    \* cameras stop() has still to stop
          mainCam, mainProc,
          changes, faults   \* how much of the bounds is used

loopVars == <<pc, desired, surplus, cam, proc>>
mainVars == <<mainpc, mainTodo, mainCam, mainProc>>
vars == <<wanted, table, info, recorders, loopVars, mainVars, changes, faults>>

NoCamera == "none"
Pids == 1..Len(recorders)
Alive(p) == p \in Pids /\ recorders[p].alive
Killed(p) == IF Alive(p) THEN [recorders EXCEPT ![p].alive = FALSE] ELSE recorders
stopping == mainpc # "running"

TypeOK ==
  /\ wanted \in SUBSET Cameras
  /\ table \in [Cameras -> Nat]
  /\ info \in [Cameras -> [status : {"none", "recording", "stopped", "error"}, pid : Nat]]
  /\ recorders \in Seq([camera : Cameras, alive : BOOLEAN, late : BOOLEAN])
  /\ pc \in {"top", "snapshot", "next", "terminate", "pop", "look", "clear", "start",
             "register", "exited", "dead"}
  /\ desired \in SUBSET Cameras /\ surplus \in SUBSET Cameras
  /\ cam \in Cameras \cup {NoCamera} /\ mainCam \in Cameras \cup {NoCamera}
  /\ proc \in Nat /\ mainProc \in Nat
  /\ mainpc \in {"running", "snapshot", "next", "terminate", "pop",
                 "returned", "abandoned", "raised"}
  /\ mainTodo \in SUBSET Cameras
  /\ changes \in Nat /\ faults \in Nat

Init ==
  /\ wanted \in SUBSET Cameras
  /\ table = [c \in Cameras |-> 0]
  /\ info = [c \in Cameras |-> [status |-> "none", pid |-> 0]]
  /\ recorders = << >>
  /\ pc = "top" /\ desired = {} /\ surplus = {} /\ cam = NoCamera /\ proc = 0
  /\ mainpc = "running" /\ mainTodo = {} /\ mainCam = NoCamera /\ mainProc = 0
  /\ changes = 0 /\ faults = 0

-----------------------------------------------------------------------------
Active == {c \in Cameras : table[c] # 0}

Fault == faults < MaxFaults /\ faults' = faults + 1

\* After a call that may raise (the database, the file system) the loop goes on
\* at l, or the exception ends the thread: nothing catches it.
Continues(l) ==
  \/ pc' = l /\ UNCHANGED faults
  \/ pc' = "dead" /\ Fault

-----------------------------------------------------------------------------
(* The supervisor's thread.                                                *)

LoopEnds ==
  /\ pc = "top" /\ stopping
  /\ pc' = "exited"
  /\ UNCHANGED <<wanted, table, info, recorders, desired, surplus, cam, proc, mainVars,
                 changes, faults>>

ListTargets ==
  /\ pc = "top" /\ ~stopping
  /\ desired' = wanted
  /\ Continues("snapshot")
  /\ UNCHANGED <<wanted, table, info, recorders, surplus, cam, proc, mainVars, changes>>

\* Mutant: cameras that are no longer wanted are not stopped.
ListNothing ==
  /\ pc = "snapshot"
  /\ surplus' = {}
  /\ pc' = "next"
  /\ UNCHANGED <<wanted, table, info, recorders, desired, cam, proc, mainVars, changes, faults>>

ListActive ==
  /\ pc = "snapshot"
  /\ surplus' = Active \ desired
  /\ pc' = "next"
  /\ UNCHANGED <<wanted, table, info, recorders, desired, cam, proc, mainVars, changes, faults>>

StopSurplus(c) ==
  /\ pc = "next" /\ c \in surplus
  /\ surplus' = surplus \ {c}
  /\ cam' = c /\ proc' = table[c]
  /\ pc' = "terminate"
  /\ UNCHANGED <<wanted, table, info, recorders, desired, mainVars, changes, faults>>

\* _stop_camera: terminate and wait, then pop under the lock, then audit.
Terminate ==
  /\ pc = "terminate"
  /\ recorders' = Killed(proc)
  /\ pc' = "pop"
  /\ UNCHANGED <<wanted, table, info, desired, surplus, cam, proc, mainVars, changes, faults>>

Popped(c) ==
  /\ table' = [table EXCEPT ![c] = 0]
  /\ info' = [info EXCEPT ![c] = [status |-> "stopped", pid |-> 0]]

Pop ==
  /\ pc = "pop"
  /\ Popped(cam)
  /\ Continues("next")
  /\ UNCHANGED <<wanted, recorders, desired, surplus, cam, proc, mainVars, changes>>

Visit(c) ==
  /\ pc = "next" /\ surplus = {} /\ c \in desired
  /\ desired' = desired \ {c}
  /\ cam' = c /\ proc' = table[c]
  /\ pc' = "look"
  /\ UNCHANGED <<wanted, table, info, recorders, surplus, mainVars, changes, faults>>

\* Mutant: a process in the table is restarted without asking whether it runs.
LookBlindly ==
  /\ pc = "look"
  /\ pc' = IF proc = 0 THEN "start" ELSE "clear"
  /\ UNCHANGED <<wanted, table, info, recorders, desired, surplus, cam, proc, mainVars,
                 changes, faults>>

Look ==
  /\ pc = "look"
  /\ pc' = CASE proc = 0 -> "start"
             [] proc # 0 /\ Alive(proc) -> "next"
             [] OTHER -> "clear"
  /\ UNCHANGED <<wanted, table, info, recorders, desired, surplus, cam, proc, mainVars,
                 changes, faults>>

\* The audit event comes first; if it raises, the dead process stays in the table.
Clear ==
  /\ pc = "clear"
  /\ Continues("start")
  /\ table' = IF pc' = "dead" THEN table ELSE [table EXCEPT ![cam] = 0]
  /\ UNCHANGED <<wanted, info, recorders, desired, surplus, cam, proc, mainVars, changes>>

Spawn ==
  /\ pc = "start"
  /\ recorders' = Append(recorders, [camera |-> cam, alive |-> TRUE, late |-> FALSE])
  /\ proc' = Len(recorders) + 1
  /\ pc' = "register"
  /\ UNCHANGED <<wanted, table, info, desired, surplus, cam, mainVars, changes, faults>>

\* Popen raises OSError, which is caught; mkdir raises, which is not.
StartFails ==
  /\ pc = "start"
  /\ Fault
  /\ \/ pc' = "next" /\ info' = [info EXCEPT ![cam] = [status |-> "error", pid |-> 0]]
     \/ pc' = "dead" /\ UNCHANGED info
  /\ UNCHANGED <<wanted, table, recorders, desired, surplus, cam, proc, mainVars, changes>>

\* `late` remembers that stop() had listed the table before.
Register ==
  /\ pc = "register"
  /\ table' = [table EXCEPT ![cam] = proc]
  /\ info' = [info EXCEPT ![cam] = [status |-> "recording", pid |-> proc]]
  /\ recorders' = [recorders EXCEPT ![proc].late = mainpc \notin {"running", "snapshot"}]
  /\ Continues("next")
  /\ UNCHANGED <<wanted, desired, surplus, cam, proc, mainVars, changes>>

TurnEnds ==
  /\ pc = "next" /\ surplus = {} /\ desired = {}
  /\ pc' = "top"
  /\ UNCHANGED <<wanted, table, info, recorders, desired, surplus, cam, proc, mainVars,
                 changes, faults>>

-----------------------------------------------------------------------------
(* stop(), in the main thread.                                             *)

StopBegins ==
  /\ mainpc = "running"
  /\ mainpc' = "snapshot"
  /\ UNCHANGED <<wanted, table, info, recorders, loopVars, mainTodo, mainCam, mainProc,
                 changes, faults>>

StopListsActive ==
  /\ mainpc = "snapshot"
  /\ mainTodo' = Active
  /\ mainpc' = "next"
  /\ UNCHANGED <<wanted, table, info, recorders, loopVars, mainCam, mainProc, changes, faults>>

StopCamera(c) ==
  /\ mainpc = "next" /\ c \in mainTodo
  /\ mainTodo' = mainTodo \ {c}
  /\ mainCam' = c /\ mainProc' = table[c]
  /\ mainpc' = "terminate"
  /\ UNCHANGED <<wanted, table, info, recorders, loopVars, changes, faults>>

\* Mutant: stop() pops without terminating.
StopForgets ==
  /\ mainpc = "terminate"
  /\ mainpc' = "pop"
  /\ UNCHANGED <<wanted, table, info, recorders, loopVars, mainTodo, mainCam, mainProc,
                 changes, faults>>

StopTerminates ==
  /\ mainpc = "terminate"
  /\ recorders' = Killed(mainProc)
  /\ mainpc' = "pop"
  /\ UNCHANGED <<wanted, table, info, loopVars, mainTodo, mainCam, mainProc, changes, faults>>

\* It pops whatever process the table names by now.
StopPops ==
  /\ mainpc = "pop"
  /\ Popped(mainCam)
  /\ \/ mainpc' = "next" /\ UNCHANGED faults
     \/ mainpc' = "raised" /\ Fault
  /\ UNCHANGED <<wanted, recorders, loopVars, mainTodo, mainCam, mainProc, changes>>

StopReturns ==
  /\ mainpc = "next" /\ mainTodo = {}
  /\ \/ pc \in {"exited", "dead"} /\ mainpc' = "returned" /\ UNCHANGED faults
     \/ pc \notin {"exited", "dead"} /\ mainpc' = "abandoned" /\ Fault
  /\ UNCHANGED <<wanted, table, info, recorders, loopVars, mainTodo, mainCam, mainProc, changes>>

-----------------------------------------------------------------------------
(* The settings page, and recorders that end by themselves.                *)

SetMode(c) ==
  /\ changes < MaxChanges
  /\ changes' = changes + 1
  /\ wanted' = IF c \in wanted THEN wanted \ {c} ELSE wanted \cup {c}
  /\ UNCHANGED <<table, info, recorders, loopVars, mainVars, faults>>

RecorderExits(p) ==
  /\ Alive(p)
  /\ Fault
  /\ recorders' = Killed(p)
  /\ UNCHANGED <<wanted, table, info, loopVars, mainVars, changes>>

Supervise ==
  \/ LoopEnds \/ ListTargets \/ ListActive \/ Terminate \/ Pop \/ Look \/ Clear
  \/ Spawn \/ StartFails \/ Register \/ TurnEnds
  \/ \E c \in Cameras : StopSurplus(c) \/ Visit(c)

StopGoesOn ==
  \/ StopListsActive \/ StopTerminates \/ StopPops \/ StopReturns
  \/ \E c \in Cameras : StopCamera(c)

Next ==
  \/ Supervise \/ StopBegins \/ StopGoesOn
  \/ \E c \in Cameras : SetMode(c)
  \/ \E p \in Pids : RecorderExits(p)

Spec == Init /\ [][Next]_vars

\* Both threads are scheduled.
FairSpec == Spec /\ WF_vars(Supervise) /\ WF_vars(StopGoesOn)

-----------------------------------------------------------------------------
\* Two recorders of one camera would write segments with the same names: there
\* is never more than one, also while stop() and the loop edit the table.
OneRecorder ==
  \A p, q \in Pids :
    Alive(p) /\ Alive(q) /\ recorders[p].camera = recorders[q].camera => p = q

\* snapshot() and the table agree; the page says "recording" without an entry
\* only while the loop restarts that camera, or if it died doing so.
InfoMatchesTable ==
  \A c \in Cameras :
    /\ table[c] # 0 => info[c] = [status |-> "recording", pid |-> table[c]]
    /\ info[c].status = "recording" /\ table[c] = 0 =>
         (pc \in {"start", "register"} /\ cam = c) \/ pc = "dead"

\* Until stop() is called no live recorder escapes the table.
NoneEscapes ==
  \A p \in Pids : Alive(p) /\ ~stopping =>
    table[recorders[p].camera] = p \/ (pc = "register" /\ proc = p)

\* The table is to be trusted: it has its type, the page shows what it says, no
\* recorder runs outside of it, and no camera has two.
TableTellsTruth == TypeOK /\ OneRecorder /\ InfoMatchesTable /\ NoneEscapes

\* When stop() returns, it has ended every recorder that the table held when it
\* listed it.  What may be left was registered later, by the turn that was under
\* way: the loop looks at the stop event only between turns.
LeftoversAreLate ==
  mainpc = "returned" => \A p \in Pids : Alive(p) => recorders[p].late

\* When modes and recorders stop changing, exactly the wanted cameras are
\* recorded, unless an exception has ended the thread.
Follows ==
  \A c \in Cameras :
    <>[](\/ stopping \/ pc = "dead"
         \/ /\ c \in wanted => Alive(table[c])
            /\ c \notin wanted => \A p \in Pids : Alive(p) => recorders[p].camera # c)
=============================================================================
