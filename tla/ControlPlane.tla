---------------------------- MODULE ControlPlane ----------------------------
(***************************************************************************)
(* The control server, the task pollers of its cameras                     *)
(* (services/camera-app/poller.py) and the HTTP exchanges between them.    *)
(*                                                                         *)
(* A poller is one thread: GET /task, execute, POST /result, sleep.  The   *)
(* client gives up on a request after request_timeout_seconds, but the     *)
(* server's handler may still run later; nothing is ever retried.  The     *)
(* server and the camera processes may restart at any time and keep        *)
(* nothing.                                                                *)
(***************************************************************************)
EXTENDS ControlStore, FiniteSets, Functions

CONSTANTS MaxTasks,     \* bound: tasks filed or being filed
          MaxFaults,    \* bound: requests that fail, joins that time out, crashes
          MaxRestarts   \* bound: server restarts and camera stops

ASSUME BoundsAssumption == MaxTasks \in Nat /\ MaxFaults \in Nat /\ MaxRestarts \in Nat

VARIABLES pc,         \* where each poller thread is
          poller,     \* state.py's entry for each poller
          controls,   \* state.py's controls of each camera
          held,       \* the task in the poller's local variables
          get,        \* the GET /task the poller waits for
          stale,      \* GETs the client gave up on and the server still has
          posts,      \* POST /result bodies not yet handled
          acked,      \* the server answered the poller's current POST
          stopping,   \* _stop_event
          stopped,    \* how TaskPoller.stop returned, "no" before it did
          executed,   \* history: what each camera executed, in order
          saved,      \* history: the results the server saved, in order
          wiped,      \* history: the queued tasks that server restarts lost
          faults, restarts   \* how much of the budgets is used

cameraVars  == <<pc, poller, controls, held, stopping, stopped>>
netVars     == <<get, stale, posts, acked>>
historyVars == <<executed, saved, wiped>>
vars == <<storeVars, cameraVars, netVars, historyVars, faults, restarts>>

NoGet       == [st |-> "none", task |-> NoTask]
Sent        == [st |-> "sent", task |-> NoTask]
Broken      == [st |-> "broken", task |-> NoTask]
Answered(t) == [st |-> "answered", task |-> t]

\* Mutant: a result that says "completed" whatever happened.
ClaimedResultOf(c) ==
  [camera |-> c, seq |-> held[c].seq, id |-> held[c].id, ok |-> TRUE]

\* The body of the POST for the task a poller holds.
ResultOf(c) ==
  [camera |-> c, seq |-> held[c].seq, id |-> held[c].id, ok |-> Accepts(held[c].cmd)]

TypeOK ==
  /\ StoreTypeOK
  /\ pc \in [Cameras -> {"loop", "polling", "received", "executed", "posting", "exited"}]
  /\ poller \in [Cameras -> Poller]
  /\ controls \in [Cameras -> Controls]
  /\ held \in [Cameras -> Task \cup {NoTask}]
  /\ get \in [Cameras -> [st   : {"none", "sent", "broken", "answered"},
                          task : Task \cup {NoTask}]]
  /\ stale \in [Cameras -> Nat]
  /\ posts \in SUBSET Result
  /\ acked \in [Cameras -> BOOLEAN]
  /\ stopping \in [Cameras -> BOOLEAN]
  /\ stopped \in [Cameras -> {"no", "joined", "abandoned"}]
  /\ executed \in [Cameras -> Seq([seq : Nat, ok : BOOLEAN])]
  /\ saved \in Seq(Nat)
  /\ wiped \in SUBSET Nat /\ faults \in Nat /\ restarts \in Nat

Init ==
  /\ InitStore
  /\ pc = [c \in Cameras |-> "loop"]
  /\ poller = [c \in Cameras |-> InitPoller]
  /\ controls = [c \in Cameras |-> InitControls]
  /\ held = [c \in Cameras |-> NoTask]
  /\ get = [c \in Cameras |-> NoGet]
  /\ stale = [c \in Cameras |-> 0]
  /\ posts = {}
  /\ acked = [c \in Cameras |-> FALSE]
  /\ stopping = [c \in Cameras |-> FALSE]
  /\ stopped = [c \in Cameras |-> "no"]
  /\ executed = [c \in Cameras |-> << >>]
  /\ saved = << >> /\ wiped = {} /\ faults = 0 /\ restarts = 0

-----------------------------------------------------------------------------
(* Operators creating tasks: POST /tasks.                                  *)

Submit(c, cmd) ==
  /\ filed + Cardinality(filing) < MaxTasks
  /\ DrawId(c, cmd)
  /\ UNCHANGED <<cameraVars, netVars, historyVars, faults, restarts>>

FileTask(r) ==
  /\ r \in filing
  /\ Enqueue(r)
  /\ UNCHANGED <<cameraVars, netVars, historyVars, faults, restarts>>

-----------------------------------------------------------------------------
(* The server's handlers of the cameras' requests.                         *)

ServeGet(c) ==
  /\ get[c].st = "sent"
  /\ get' = [get EXCEPT ![c] = Answered(NextTask(c))]
  /\ PopTask(c)
  /\ UNCHANGED <<cameraVars, stale, posts, acked, historyVars, faults, restarts>>

\* The handler of a request nobody waits for pops a task all the same.
ServeStaleGet(c) ==
  /\ stale[c] > 0
  /\ stale' = [stale EXCEPT ![c] = @ - 1]
  /\ PopTask(c)
  /\ UNCHANGED <<cameraVars, get, posts, acked, historyVars, faults, restarts>>

ServePost(r) ==
  /\ r \in posts
  /\ posts' = posts \ {r}
  /\ SaveResult(r)
  /\ saved' = Append(saved, r.seq)
  /\ acked' = [acked EXCEPT ![r.camera] =
                 @ \/ (pc[r.camera] = "posting" /\ ResultOf(r.camera) = r)]
  /\ UNCHANGED <<cameraVars, get, stale, executed, wiped, faults, restarts>>

-----------------------------------------------------------------------------
(* One turn of TaskPoller._run_loop.                                       *)

GoTo(c, l) == pc' = [pc EXCEPT ![c] = l]

\* Mutant: a poller that gives up after a failure.
PollUnlessFailed(c) ==
  /\ pc[c] = "loop" /\ ~stopping[c] /\ poller[c].failures = 0
  /\ poller' = [poller EXCEPT ![c] = MarkPolling(@)]
  /\ get' = [get EXCEPT ![c] = Sent]
  /\ GoTo(c, "polling")
  /\ UNCHANGED <<storeVars, controls, held, stopping, stopped, stale, posts, acked,
                 historyVars, faults, restarts>>

Poll(c) ==
  /\ pc[c] = "loop" /\ ~stopping[c]
  /\ poller' = [poller EXCEPT ![c] = MarkPolling(@)]
  /\ get' = [get EXCEPT ![c] = Sent]
  /\ GoTo(c, "polling")
  /\ UNCHANGED <<storeVars, controls, held, stopping, stopped, stale, posts, acked,
                 historyVars, faults, restarts>>

PollEmpty(c) ==
  /\ pc[c] = "polling" /\ get[c] = Answered(NoTask)
  /\ poller' = [poller EXCEPT ![c] = MarkPollIdle(@)]
  /\ get' = [get EXCEPT ![c] = NoGet]
  /\ GoTo(c, "loop")
  /\ UNCHANGED <<storeVars, controls, held, stopping, stopped, stale, posts, acked,
                 historyVars, faults, restarts>>

\* Mutant: a task is reported when it is received.
PollTaskReported(c) ==
  /\ pc[c] = "polling" /\ get[c].st = "answered" /\ get[c].task # NoTask
  /\ poller' = [poller EXCEPT ![c] = MarkTaskReceived(@)]
  /\ held' = [held EXCEPT ![c] = get[c].task]
  /\ posts' = posts \cup {[camera |-> c, seq |-> get[c].task.seq, id |-> get[c].task.id,
                           ok |-> Accepts(get[c].task.cmd)]}
  /\ get' = [get EXCEPT ![c] = NoGet]
  /\ GoTo(c, "received")
  /\ UNCHANGED <<storeVars, controls, stopping, stopped, stale, acked,
                 historyVars, faults, restarts>>

PollTask(c) ==
  /\ pc[c] = "polling" /\ get[c].st = "answered" /\ get[c].task # NoTask
  /\ poller' = [poller EXCEPT ![c] = MarkTaskReceived(@)]
  /\ held' = [held EXCEPT ![c] = get[c].task]
  /\ get' = [get EXCEPT ![c] = NoGet]
  /\ GoTo(c, "received")
  /\ UNCHANGED <<storeVars, controls, stopping, stopped, stale, posts, acked,
                 historyVars, faults, restarts>>

\* What becomes of a GET whose client went away: if the server has not
\* handled it yet, it may still do so.
Forsake(c) ==
  \/ get[c].st = "sent" /\ stale' = [stale EXCEPT ![c] = @ + 1]
  \/ UNCHANGED stale

\* A failure costs the budget unless the server's restart caused it.
Fault(broken) ==
  /\ broken \/ faults < MaxFaults
  /\ faults' = IF broken THEN faults ELSE faults + 1

\* HTTP error, connection error, timeout, or a body that does not parse.
PollFails(c) ==
  /\ pc[c] = "polling"
  /\ Fault(get[c].st = "broken")
  /\ Forsake(c)
  /\ poller' = [poller EXCEPT ![c] = MarkPollFailed(@)]
  /\ get' = [get EXCEPT ![c] = NoGet]
  /\ GoTo(c, "loop")
  /\ UNCHANGED <<storeVars, controls, held, stopping, stopped, posts, acked,
                 historyVars, restarts>>

Execute(c) ==
  /\ pc[c] = "received"
  /\ controls' = [controls EXCEPT ![c] = ApplySafeCommand(@, held[c].cmd)]
  /\ executed' = [executed EXCEPT ![c] =
                    Append(@, [seq |-> held[c].seq, ok |-> Accepts(held[c].cmd)])]
  /\ GoTo(c, "executed")
  /\ UNCHANGED <<storeVars, poller, held, stopping, stopped, netVars, saved, wiped,
                 faults, restarts>>

\* Mutant: the result is never sent.
FinishSilently(c) ==
  /\ pc[c] = "executed"
  /\ poller' = [poller EXCEPT ![c] = MarkTaskFinished(@, Accepts(held[c].cmd))]
  /\ acked' = [acked EXCEPT ![c] = FALSE]
  /\ GoTo(c, "posting")
  /\ UNCHANGED <<storeVars, controls, held, stopping, stopped, get, stale, posts,
                 historyVars, faults, restarts>>

Finish(c) ==
  /\ pc[c] = "executed"
  /\ poller' = [poller EXCEPT ![c] = MarkTaskFinished(@, Accepts(held[c].cmd))]
  /\ posts' = posts \cup {ResultOf(c)}
  /\ acked' = [acked EXCEPT ![c] = FALSE]
  /\ GoTo(c, "posting")
  /\ UNCHANGED <<storeVars, controls, held, stopping, stopped, get, stale,
                 historyVars, faults, restarts>>

\* _post_result returned: the task leaves the poller's variables.
Posted(c) ==
  /\ pc[c] = "posting"
  /\ held' = [held EXCEPT ![c] = NoTask]
  /\ GoTo(c, "loop")
  /\ UNCHANGED <<storeVars, controls, stopping, stopped, get, stale, acked,
                 historyVars, restarts>>

PostOk(c) ==
  /\ acked[c]
  /\ poller' = [poller EXCEPT ![c] = MarkResultReported(@)]
  /\ Posted(c)
  /\ UNCHANGED <<posts, faults>>

\* Mutant: a failed POST is sent again, whether or not the server has it.
PostRetried(c) ==
  /\ pc[c] = "posting"
  /\ Fault(~acked[c] /\ ResultOf(c) \notin posts)
  /\ posts' = posts \cup {ResultOf(c)}
  /\ poller' = [poller EXCEPT ![c] = MarkPollFailed(@)]
  /\ UNCHANGED <<storeVars, pc, controls, held, stopping, stopped, get, stale, acked,
                 historyVars, restarts>>

\* The body is lost, or the server will still handle it.  No retry.
PostFails(c) ==
  /\ Fault(~acked[c] /\ ResultOf(c) \notin posts)
  /\ posts' \in {posts, posts \ {ResultOf(c)}}
  /\ poller' = [poller EXCEPT ![c] = MarkPollFailed(@)]
  /\ Posted(c)

\* Mutant: the loop leaves with the task it has just received.
LoopExitsEarly(c) ==
  /\ pc[c] \in {"loop", "received"} /\ stopping[c]
  /\ GoTo(c, "exited")
  /\ UNCHANGED <<storeVars, poller, controls, held, stopping, stopped, netVars,
                 historyVars, faults, restarts>>

LoopExits(c) ==
  /\ pc[c] = "loop" /\ stopping[c]
  /\ GoTo(c, "exited")
  /\ UNCHANGED <<storeVars, poller, controls, held, stopping, stopped, netVars,
                 historyVars, faults, restarts>>

-----------------------------------------------------------------------------
(* Stopping the poller, and restarts.                                      *)

\* The lifespan handler calls TaskPoller.stop, which sets the event ...
Stop(c) ==
  /\ ~stopping[c] /\ restarts < MaxRestarts
  /\ stopping' = [stopping EXCEPT ![c] = TRUE]
  /\ restarts' = restarts + 1
  /\ UNCHANGED <<storeVars, pc, poller, controls, held, stopped, netVars,
                 historyVars, faults>>

\* ... and returns when the thread has ended or join's timeout has passed.
StopReturns(c) ==
  /\ stopping[c] /\ stopped[c] = "no"
  /\ \/ pc[c] = "exited" /\ stopped' = [stopped EXCEPT ![c] = "joined"]
                         /\ UNCHANGED faults
     \/ pc[c] # "exited" /\ stopped' = [stopped EXCEPT ![c] = "abandoned"]
                         /\ Fault(FALSE)
  /\ poller' = [poller EXCEPT ![c] = MarkPollerStopped(@)]
  /\ UNCHANGED <<storeVars, pc, controls, held, stopping, netVars, historyVars, restarts>>

\* A new camera process: everything CameraState held is gone.
Reboot(c) ==
  /\ Forsake(c)
  /\ poller' = [poller EXCEPT ![c] = InitPoller]
  /\ controls' = [controls EXCEPT ![c] = InitControls]
  /\ held' = [held EXCEPT ![c] = NoTask]
  /\ get' = [get EXCEPT ![c] = NoGet]
  /\ stopping' = [stopping EXCEPT ![c] = FALSE]
  /\ stopped' = [stopped EXCEPT ![c] = "no"]
  /\ acked' = [acked EXCEPT ![c] = FALSE]
  /\ GoTo(c, "loop")
  /\ UNCHANGED <<storeVars, posts, historyVars, restarts>>

RebootAfterStop(c) == stopped[c] # "no" /\ Reboot(c) /\ UNCHANGED faults

Crash(c) == Fault(FALSE) /\ Reboot(c)

QueuedTasks == UNION {{pending[c][i].seq : i \in DOMAIN pending[c]} : c \in Cameras}

RestartServer ==
  /\ restarts < MaxRestarts
  /\ restarts' = restarts + 1
  /\ ResetStore
  /\ wiped' = wiped \cup QueuedTasks
  /\ get' = [c \in Cameras |-> IF get[c].st = "sent" THEN Broken ELSE get[c]]
  /\ stale' = [c \in Cameras |-> 0]
  /\ posts' = {}
  /\ UNCHANGED <<cameraVars, acked, executed, saved, faults>>

-----------------------------------------------------------------------------
PollerStep(c) ==
  \/ Poll(c) \/ PollEmpty(c) \/ PollTask(c) \/ Execute(c) \/ Finish(c) \/ PostOk(c)
  \/ LoopExits(c)

Serve(c) == ServeGet(c) \/ ServeStaleGet(c) \/ \E r \in posts : r.camera = c /\ ServePost(r)

Next ==
  \/ \E c \in Cameras :
       \/ \E cmd \in Commands : Submit(c, cmd)
       \/ ServeGet(c) \/ ServeStaleGet(c)
       \/ Poll(c) \/ PollEmpty(c) \/ PollTask(c) \/ PollFails(c)
       \/ Execute(c) \/ Finish(c) \/ PostOk(c) \/ PostFails(c)
       \/ LoopExits(c) \/ Stop(c) \/ StopReturns(c) \/ RebootAfterStop(c) \/ Crash(c)
  \/ \E r \in filing : FileTask(r)
  \/ \E r \in posts : ServePost(r)
  \/ RestartServer

Spec == Init /\ [][Next]_vars

(***************************************************************************)
(* Threads are scheduled: a poller's loop, the server's handlers and a     *)
(* stop that was begun go on.  A request to a restarted server fails.      *)
(* Nobody has to create tasks, and faults and restarts never have to       *)
(* happen.                                                                 *)
(***************************************************************************)
Fairness ==
  /\ \A c \in Cameras :
       /\ WF_vars(PollerStep(c))
       /\ WF_vars(Serve(c))
       /\ WF_vars(get[c].st = "broken" /\ PollFails(c))
       /\ WF_vars(ResultOf(c) \notin posts /\ ~acked[c] /\ PostFails(c))
       /\ WF_vars(pc[c] = "exited" /\ StopReturns(c))
       /\ WF_vars(RebootAfterStop(c))
  /\ WF_vars(\E r \in filing : FileTask(r))

FairSpec == Spec /\ Fairness

-----------------------------------------------------------------------------
(* Where the tasks are.                                                    *)

\* The tasks on their way to execution at camera c: in the deque, in the answer
\* to a GET, in the poller's hands.
Waiting(c) ==
  {pending[c][i].seq : i \in DOMAIN pending[c]}
    \cup (IF get[c].task # NoTask THEN {get[c].task.seq} ELSE {})
    \cup (IF pc[c] = "received" THEN {held[c].seq} ELSE {})

Executed(c) == {executed[c][i].seq : i \in DOMAIN executed[c]}

\* At most once, first in first out: whatever is lost on the way, and however
\* late an abandoned request is handled, a camera executes the tasks filed for
\* it in the order the store queued them, and none of them twice.
ExecutedInFilingOrder ==
  \A c \in Cameras : \A i, j \in DOMAIN executed[c] :
    i < j => executed[c][i].seq < executed[c][j].seq

\* A result in the server's list, or on its way there, comes from an execution
\* by the camera it names and tells that execution's outcome; in particular no
\* reported result belongs to a task that a crash prevented from executing.
ResultsTruthful ==
  \A r \in Range(results) \cup posts :
    [seq |-> r.seq, ok |-> r.ok] \in Range(executed[r.camera])

\* The tasks that were lost on their way to execution, but not to a restart of
\* the server, and the abandoned GETs that may yet lose one more each.
Lost == (1..filed) \ (wiped \cup UNION {Executed(c) \cup Waiting(c) : c \in Cameras})

Abandoned == UNION {{c} \X (1..stale[c]) : c \in Cameras}

\* Apart from what a server restart wipes, every failed request or crash costs
\* at most one task, and a stop that the poller's thread answers costs none.
LossBound == Cardinality(Lost) + Cardinality(Abandoned) <= faults

\* If stop() returned because the thread ended, the thread finished the
\* exchange it was in, and nothing overwrites the status "stopped" any more.
JoinedStopIsClean ==
  \A c \in Cameras : stopped[c] = "joined" =>
    /\ poller[c].status = "stopped"
    /\ held[c] = NoTask /\ get[c] = NoGet

\* Why the order holds: a task between the queue and its execution is newer
\* than everything the camera executed and older than everything it queues.
Between(c, t) ==
  /\ \A i \in DOMAIN executed[c] : executed[c][i].seq < t.seq
  /\ \A j \in DOMAIN pending[c] : t.seq < pending[c][j].seq
  /\ t.seq <= filed

Ordered(c) ==
  /\ \A i, j \in DOMAIN executed[c] : i < j => executed[c][i].seq < executed[c][j].seq
  /\ \A i, j \in DOMAIN pending[c] : i < j => pending[c][i].seq < pending[c][j].seq
  /\ \A i \in DOMAIN executed[c] : executed[c][i].seq <= filed
  /\ \A j \in DOMAIN pending[c] : pending[c][j].seq <= filed
  /\ \A i \in DOMAIN executed[c], j \in DOMAIN pending[c] :
       executed[c][i].seq < pending[c][j].seq
  /\ get[c].task # NoTask => Between(c, get[c].task)
  /\ pc[c] = "received" => get[c] = NoGet /\ Between(c, held[c])

OrderInv == \A c \in Cameras : Ordered(c)

\* Why results are truthful: the poller posts only what it has executed.
TruthInv ==
  /\ ResultsTruthful
  /\ \A c \in Cameras : pc[c] \in {"executed", "posting"} =>
       [seq |-> held[c].seq, ok |-> Accepts(held[c].cmd)] \in Range(executed[c])

\* A poller holds a task only between its receipt and its report, has a request
\* open only while it polls and a task in it only once it is answered; a stop
\* joins only a loop that has ended.
IdleOK(c) ==
  /\ pc[c] \in {"loop", "polling", "exited"} => held[c] = NoTask
  /\ pc[c] # "polling" => get[c] = NoGet
  /\ get[c].st # "answered" => get[c].task = NoTask
  /\ stopped[c] = "joined" => pc[c] = "exited" /\ poller[c].status = "stopped"

IdleInv == \A c \in Cameras : IdleOK(c)

\* Why a result is saved once: a task has one camera, which posts its result once.
Apart ==
  \A c, d \in Cameras : c # d =>
    (Executed(c) \cup Waiting(c)) \cap (Executed(d) \cup Waiting(d)) = {}

SavedOnce ==
  /\ Range(saved) \subseteq UNION {Executed(c) : c \in Cameras}
  /\ \A r \in posts : r.seq \notin Range(saved)
  /\ \A r, s \in posts : r.seq = s.seq => r = s
  /\ \A c \in Cameras : pc[c] = "executed" =>
       held[c].seq \notin Range(saved) /\ \A r \in posts : r.seq # held[c].seq

ReportInv == Apart /\ SavedOnce

\* Why losses are bounded: a stop that was not answered has paid for the task
\* that the end of its process may lose.
Doomed == {c \in Cameras : stopped[c] = "abandoned"}

LossInv ==
  /\ IsFiniteSet(Lost) /\ IsFiniteSet(Abandoned) /\ IsFiniteSet(Doomed)
  /\ Cardinality(Lost) + Cardinality(Abandoned) + Cardinality(Doomed) <= faults

\* What is inductive: the state has its type, the numbers of the tasks ascend on
\* their way from the deque to the history, a poller that reports has executed,
\* and every loss has been paid for.
ControlInv == TypeOK /\ OrderInv /\ TruthInv /\ IdleInv /\ ReportInv /\ LossInv

\* The control plane implements the abstract task service.
Delivery == INSTANCE TaskDelivery WITH
  queue     <- [c \in Cameras |-> Waiting(c)],
  performed <- [c \in Cameras |-> [i \in DOMAIN executed[c] |-> executed[c][i].seq]],
  reported  <- saved

DeliversTasks == Delivery!Spec

\* With no faults and no restarts, the result of every filed task is saved.
EveryTaskReported ==
  \A t \in 1..MaxTasks :
    filed >= t ~> (\E i \in DOMAIN saved : saved[i] = t) \/ faults + restarts > 0

\* Faults and restarts strand no task: each one is executed or lost, and does
\* not stay in a queue, a response or a poller for ever.
NoTaskStranded ==
  \A c \in Cameras, t \in 1..MaxTasks : t \in Waiting(c) ~> t \notin Waiting(c)
=============================================================================
