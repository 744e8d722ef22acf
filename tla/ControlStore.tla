---------------------------- MODULE ControlStore ----------------------------
(***************************************************************************)
(* services/control-server/app.py: the in-memory ControlStore.  Handlers   *)
(* run on a thread pool, so a creation is two steps: the id is drawn from  *)
(* the counter before the lock is taken, and the task joins its camera's   *)
(* deque under the lock.  `filed` counts the appends ever made and gives   *)
(* each task its `seq`, a name the program does not have and the           *)
(* properties need: ids start again at 1 when the server restarts.         *)
(***************************************************************************)
EXTENDS Naturals, Sequences, CameraState

CONSTANTS Cameras,    \* camera ids the tasks are addressed to
          Commands,   \* the commands operators send
          ResultCap   \* maxlen of the results deque (100 in the source)

ASSUME StoreAssumption ==
  /\ Commands \subseteq Command
  /\ ResultCap \in Nat \ {0}

VARIABLES nextId,     \* _task_counter
          filing,     \* creations that hold an id and wait for the lock
          pending,    \* _pending_tasks: a deque per camera
          results,    \* _recent_results
          filed       \* tasks appended so far, over all restarts

storeVars == <<nextId, filing, pending, results, filed>>

Task     == [seq : Nat, id : Nat, cmd : Commands]
NoTask   == [seq |-> 0, id |-> 0, cmd |-> [name |-> "none", arg |-> "unset"]]
Filing   == [id : Nat, camera : Cameras, cmd : Commands]
Result   == [camera : Cameras, seq : Nat, id : Nat, ok : BOOLEAN]

StoreTypeOK ==
  /\ nextId \in Nat
  /\ filing \in SUBSET Filing
  /\ pending \in [Cameras -> Seq(Task)]
  /\ results \in Seq(Result)
  /\ filed \in Nat

InitStore ==
  /\ nextId = 1
  /\ filing = {}
  /\ pending = [c \in Cameras |-> << >>]
  /\ results = << >>
  /\ filed = 0

\* enqueue_task, first half: next(self._task_counter), outside the lock.
DrawId(c, cmd) ==
  /\ nextId' = nextId + 1
  /\ filing' = filing \cup {[id |-> nextId, camera |-> c, cmd |-> cmd]}
  /\ UNCHANGED <<pending, results, filed>>

\* enqueue_task, second half: the append under the lock.
Enqueue(r) ==
  /\ filing' = filing \ {r}
  /\ filed' = filed + 1
  /\ pending' = [pending EXCEPT ![r.camera] =
                   Append(@, [seq |-> filed + 1, id |-> r.id, cmd |-> r.cmd])]
  /\ UNCHANGED <<nextId, results>>

\* next_task: what the handler returns, and what it leaves in the deque.
NextTask(c)  == IF pending[c] = << >> THEN NoTask ELSE Head(pending[c])

\* Mutants: the task stays in the deque; the whole deque is handed out.
PeekTask(c)  == UNCHANGED <<nextId, filing, pending, results, filed>>
DrainTasks(c) ==
  /\ pending' = [pending EXCEPT ![c] = << >>]
  /\ UNCHANGED <<nextId, filing, results, filed>>

PopTask(c)   ==
  /\ pending' = IF pending[c] = << >> THEN pending
                ELSE [pending EXCEPT ![c] = Tail(@)]
  /\ UNCHANGED <<nextId, filing, results, filed>>

\* save_result: deque(maxlen) drops its oldest record.
SaveResult(r) ==
  /\ results' = Append(IF Len(results) < ResultCap THEN results ELSE Tail(results), r)
  /\ UNCHANGED <<nextId, filing, pending, filed>>

\* The store lives in the process: a restart empties it and its counter.
ResetStore ==
  /\ nextId' = 1
  /\ filing' = {}
  /\ pending' = [c \in Cameras |-> << >>]
  /\ results' = << >>
  /\ UNCHANGED filed
=============================================================================
