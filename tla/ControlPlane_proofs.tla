------------------------ MODULE ControlPlane_proofs ------------------------
(***************************************************************************)
(* Proofs about ControlPlane for any set of cameras, any commands, and any *)
(* bounds: type correctness, in-order at-most-once execution, and the      *)
(* truthfulness of results.                                                *)
(***************************************************************************)
EXTENDS ControlPlane, SequenceTheorems, FiniteSetTheorems, TLAPS

(* The operators of CameraState keep the types of their records.           *)

\* Every mark_* operation of the poller's entry yields a well-typed entry.
LEMMA PollerMarks ==
  ASSUME NEW p \in Poller, NEW ok \in BOOLEAN
  PROVE  /\ MarkPolling(p) \in Poller /\ MarkPollIdle(p) \in Poller
         /\ MarkTaskReceived(p) \in Poller /\ MarkTaskFinished(p, ok) \in Poller
         /\ MarkResultReported(p) \in Poller /\ MarkPollFailed(p) \in Poller
         /\ MarkPollerStopped(p) \in Poller
  <1>1. MarkPolling(p) \in Poller /\ MarkPollIdle(p) \in Poller
    BY DEF Poller, MarkPolling, MarkPollIdle
  <1>2. MarkTaskReceived(p) \in Poller /\ MarkTaskFinished(p, ok) \in Poller
    BY DEF Poller, MarkTaskReceived, MarkTaskFinished
  <1>3. MarkResultReported(p) \in Poller /\ MarkPollerStopped(p) \in Poller
    BY DEF Poller, MarkResultReported, MarkPollerStopped
  <1>4. MarkPollFailed(p) \in Poller
    <2>1. p.failures + 1 \in Nat
      BY DEF Poller
    <2> QED
      BY <2>1, Zenon DEF Poller, MarkPollFailed
  <1> QED
    BY <1>1, <1>2, <1>3, <1>4

LEMMA ChangedControls ==
  ASSUME NEW k \in Controls
  PROVE  /\ \A q \in QualityLevels : WithQuality(k, q) \in Controls
         /\ \A on \in BOOLEAN : WithOverlay(k, on) \in Controls
  <1>1. k.revision + 1 \in Nat
    BY DEF Controls
  <1>2. ASSUME NEW q \in QualityLevels PROVE WithQuality(k, q) \in Controls
    <2>1. [k EXCEPT !.quality = q, !.revision = @ + 1, !.reason = "quality"] \in Controls
      BY <1>1, Zenon DEF Controls, Reason
    <2> QED
      BY <2>1 DEF WithQuality
  <1>3. ASSUME NEW on \in BOOLEAN PROVE WithOverlay(k, on) \in Controls
    <2>1. [k EXCEPT !.overlay = on, !.revision = @ + 1, !.reason = "overlay"] \in Controls
      BY <1>1, Zenon DEF Controls, Reason
    <2> QED
      BY <2>1 DEF WithOverlay
  <1> QED
    BY <1>2, <1>3

\* apply_safe_command turns controls into controls, whatever the command.
LEMMA AppliedControls ==
  ASSUME NEW k \in Controls, NEW cmd,
         cmd.name = "set_quality" /\ Accepts(cmd) => cmd.arg \in QualityLevels
  PROVE  ApplySafeCommand(k, cmd) \in Controls
  <1>1. CASE Accepts(cmd) /\ cmd.name = "set_quality"
    <2>1. ApplySafeCommand(k, cmd) = WithQuality(k, cmd.arg)
      BY <1>1 DEF ApplySafeCommand
    <2> QED
      BY <1>1, <2>1, ChangedControls
  <1>2. CASE Accepts(cmd) /\ cmd.name = "toggle_overlay"
    <2> DEFINE on == IF cmd.arg = "unset" THEN ~k.overlay ELSE cmd.arg = "on"
    <2>1. on \in BOOLEAN
      BY DEF Controls
    <2>2. ApplySafeCommand(k, cmd) = WithOverlay(k, on)
      BY <1>2 DEF ApplySafeCommand
    <2> QED
      BY <2>1, <2>2, ChangedControls
  <1>3. CASE ~Accepts(cmd) \/ cmd.name \notin {"set_quality", "toggle_overlay"}
    BY <1>3 DEF ApplySafeCommand
  <1> QED
    BY <1>1, <1>2, <1>3

\* A well-formed set_quality that is accepted names a known level.
LEMMA AcceptedQuality ==
  ASSUME NEW cmd \in Command, cmd.name = "set_quality", Accepts(cmd)
  PROVE  cmd.arg \in QualityLevels
  BY DEF Command, Accepts

-----------------------------------------------------------------------------
(* The initial state, and the types.                                       *)

LEMMA InitTypeOK == Init => TypeOK
  BY BoundsAssumption
  DEF Init, TypeOK, StoreTypeOK, InitStore, InitPoller, Poller, InitControls, Controls,
      Reason, QualityLevels, NoTask, NoGet, Filing, Result

USE DEF TypeOK, StoreTypeOK, cameraVars, netVars, historyVars, storeVars

-----------------------------------------------------------------------------
(* Every action keeps the types; the actions are grouped by the process    *)
(* that takes them.                                                        *)

LEMMA ResultOfType ==
  ASSUME TypeOK, NEW c \in Cameras
  PROVE  ResultOf(c) \in Result
  <1>1. held[c].seq \in Nat /\ held[c].id \in Nat
    BY DEF Task, NoTask
  <1>2. Accepts(held[c].cmd) \in BOOLEAN
    BY DEF Accepts
  <1> QED
    BY <1>1, <1>2, Zenon DEF ResultOf, Result

LEMMA ForsakeType ==
  ASSUME TypeOK, NEW c \in Cameras, Forsake(c)
  PROVE  stale' \in [Cameras -> Nat]
  <1>1. stale[c] + 1 \in Nat
    OBVIOUS
  <1> QED
    BY <1>1, Zenon DEF Forsake

LEMMA FaultType ==
  ASSUME TypeOK, NEW broken, Fault(broken)
  PROVE  faults' \in Nat
  BY DEF Fault

LEMMA PopTaskType ==
  ASSUME TypeOK, NEW c \in Cameras, PopTask(c)
  PROVE  StoreTypeOK' /\ NextTask(c) \in Task \cup {NoTask}
  BY HeadTailProperties DEF PopTask, NextTask

LEMMA ServerTypeOK ==
  ASSUME TypeOK, NEW c \in Cameras,
         \/ \E cmd \in Commands : Submit(c, cmd)
         \/ \E r \in filing : FileTask(r)
         \/ ServeGet(c) \/ ServeStaleGet(c)
         \/ \E r \in posts : ServePost(r)
  PROVE  TypeOK'
  <1>1. ASSUME NEW cmd \in Commands, Submit(c, cmd) PROVE TypeOK'
    BY <1>1 DEF Submit, DrawId, Filing
  <1>2. ASSUME NEW r \in filing, FileTask(r) PROVE TypeOK'
    <2>1. [seq |-> filed + 1, id |-> r.id, cmd |-> r.cmd] \in Task
      BY DEF Filing, Task
    <2>2. pending' \in [Cameras -> Seq(Task)]
      BY <1>2, <2>1, AppendProperties DEF FileTask, Enqueue, Filing
    <2>3. filing' \in SUBSET Filing /\ filed' \in Nat
      BY <1>2 DEF FileTask, Enqueue
    <2>4. UNCHANGED <<nextId, results, cameraVars, netVars, historyVars, faults, restarts>>
      BY <1>2, Zenon DEF FileTask, Enqueue
    <2> QED
      BY <2>2, <2>3, <2>4
  <1>3. CASE ServeGet(c)
    <2>1. StoreTypeOK' /\ NextTask(c) \in Task \cup {NoTask}
      BY <1>3, PopTaskType DEF ServeGet
    <2> QED
      BY <1>3, <2>1 DEF ServeGet, Answered
  <1>4. CASE ServeStaleGet(c)
    <2>1. StoreTypeOK'
      BY <1>4, PopTaskType DEF ServeStaleGet
    <2>2. stale[c] - 1 \in Nat
      BY <1>4 DEF ServeStaleGet
    <2>3. stale' \in [Cameras -> Nat]
      BY <1>4, <2>2, Zenon DEF ServeStaleGet
    <2> QED
      BY <1>4, <2>1, <2>3 DEF ServeStaleGet
  <1>5. ASSUME NEW r \in posts, ServePost(r) PROVE TypeOK'
    <2>1. r \in Result
      OBVIOUS
    <2>2. results' \in Seq(Result)
      <3>1. results = << >> \/ Tail(results) \in Seq(Result)
        BY HeadTailProperties
      <3>2. ~(Len(results) < ResultCap) => results # << >>
        BY StoreAssumption
      <3>3. (IF Len(results) < ResultCap THEN results ELSE Tail(results)) \in Seq(Result)
        BY <3>1, <3>2
      <3> QED
        BY <1>5, <2>1, <3>3, AppendProperties DEF ServePost, SaveResult
    <2>3. saved' \in Seq(Nat)
      BY <1>5, <2>1, AppendProperties DEF ServePost, Result
    <2>4. acked' \in [Cameras -> BOOLEAN]
      BY <1>5, <2>1 DEF ServePost, Result
    <2> QED
      BY <1>5, <2>2, <2>3, <2>4 DEF ServePost, SaveResult
  <1> QED
    BY <1>1, <1>2, <1>3, <1>4, <1>5

LEMMA RestartTypeOK ==
  ASSUME TypeOK, RestartServer
  PROVE  TypeOK'
  <1>1. ASSUME NEW c \in Cameras, NEW i \in DOMAIN pending[c]
        PROVE  pending[c][i].seq \in Nat
    <2>1. pending[c] \in Seq(Task) /\ i \in 1..Len(pending[c])
      OBVIOUS
    <2>2. pending[c][i] \in Task
      BY <2>1, ElementOfSeq
    <2> QED
      BY <2>2 DEF Task
  <1>2. QueuedTasks \in SUBSET Nat
    BY <1>1 DEF QueuedTasks
  <1>3. get' \in [Cameras -> [st   : {"none", "sent", "broken", "answered"},
                              task : Task \cup {NoTask}]]
    BY DEF RestartServer, Broken
  <1>4. pending' \in [Cameras -> Seq(Task)] /\ results' \in Seq(Result)
    BY DEF RestartServer, ResetStore
  <1> QED
    BY <1>2, <1>3, <1>4 DEF RestartServer, ResetStore

LEMMA PollTypeOK ==
  ASSUME TypeOK, NEW c \in Cameras,
         Poll(c) \/ PollEmpty(c) \/ PollTask(c) \/ PollFails(c) \/ LoopExits(c)
  PROVE  TypeOK'
  <1> USE DEF GoTo, NoGet, Sent
  <1>1. CASE Poll(c)
    BY <1>1, PollerMarks DEF Poll
  <1>2. CASE PollEmpty(c)
    BY <1>2, PollerMarks DEF PollEmpty
  <1>3. CASE PollTask(c)
    <2>1. get[c].task \in Task \cup {NoTask}
      OBVIOUS
    <2> QED
      BY <1>3, <2>1, PollerMarks DEF PollTask
  <1>4. CASE PollFails(c)
    <2>1. faults' \in Nat /\ stale' \in [Cameras -> Nat]
      BY <1>4, FaultType, ForsakeType DEF PollFails
    <2> QED
      BY <1>4, <2>1, PollerMarks DEF PollFails
  <1>5. CASE LoopExits(c)
    BY <1>5 DEF LoopExits
  <1> QED
    BY <1>1, <1>2, <1>3, <1>4, <1>5

LEMMA TaskTypeOK ==
  ASSUME TypeOK, NEW c \in Cameras,
         Execute(c) \/ Finish(c) \/ PostOk(c) \/ PostFails(c)
  PROVE  TypeOK'
  <1> USE DEF GoTo
  <1>1. CASE Execute(c)
    <2>1. Accepts(held[c].cmd) /\ held[c].cmd.name = "set_quality"
             => held[c].cmd.arg \in QualityLevels
      BY AcceptedQuality, StoreAssumption DEF Task, NoTask
    <2>2. controls' \in [Cameras -> Controls]
      BY <1>1, <2>1, AppliedControls DEF Execute
    <2>3. [seq |-> held[c].seq, ok |-> Accepts(held[c].cmd)] \in [seq : Nat, ok : BOOLEAN]
      BY DEF Task, NoTask, Accepts
    <2>4. executed' \in [Cameras -> Seq([seq : Nat, ok : BOOLEAN])]
      BY <1>1, <2>3, AppendProperties DEF Execute
    <2> QED
      BY <1>1, <2>2, <2>4 DEF Execute
  <1>2. CASE Finish(c)
    <2>1. Accepts(held[c].cmd) \in BOOLEAN
      BY DEF Accepts
    <2>2. poller' \in [Cameras -> Poller]
      BY <1>2, <2>1, PollerMarks DEF Finish
    <2> QED
      BY <1>2, <2>2, ResultOfType DEF Finish
  <1>3. CASE PostOk(c)
    BY <1>3, PollerMarks DEF PostOk, Posted
  <1>4. CASE PostFails(c)
    <2>1. faults' \in Nat
      BY <1>4, FaultType DEF PostFails
    <2> QED
      BY <1>4, <2>1, PollerMarks DEF PostFails, Posted
  <1> QED
    BY <1>1, <1>2, <1>3, <1>4

LEMMA LifecycleTypeOK ==
  ASSUME TypeOK, NEW c \in Cameras,
         Stop(c) \/ StopReturns(c) \/ RebootAfterStop(c) \/ Crash(c)
  PROVE  TypeOK'
  <1>1. CASE Stop(c)
    BY <1>1 DEF Stop
  <1>2. CASE StopReturns(c)
    <2>1. faults' \in Nat
      BY <1>2, FaultType DEF StopReturns
    <2> QED
      BY <1>2, <2>1, PollerMarks DEF StopReturns
  <1>3. ASSUME Reboot(c), faults' \in Nat PROVE TypeOK'
    <2>1. InitPoller \in Poller /\ InitControls \in Controls
      BY DEF InitPoller, Poller, InitControls, Controls, QualityLevels, Reason
    <2>2. stale' \in [Cameras -> Nat]
      BY <1>3, ForsakeType DEF Reboot
    <2> QED
      BY <1>3, <2>1, <2>2 DEF Reboot, GoTo, NoGet
  <1> QED
    BY <1>1, <1>2, <1>3, FaultType DEF RebootAfterStop, Crash

LEMMA NextTypeOK == TypeOK /\ [Next]_vars => TypeOK'
  <1> SUFFICES ASSUME TypeOK, [Next]_vars PROVE TypeOK'
    OBVIOUS
  <1>1. CASE UNCHANGED vars
    BY <1>1 DEF vars
  <1>2. ASSUME NEW r \in filing, FileTask(r) PROVE TypeOK'
    BY <1>2, ServerTypeOK DEF Filing
  <1>3. ASSUME NEW r \in posts, ServePost(r) PROVE TypeOK'
    BY <1>3, ServerTypeOK DEF Result
  <1> QED
    BY <1>1, <1>2, <1>3, ServerTypeOK, RestartTypeOK, PollTypeOK, TaskTypeOK,
       LifecycleTypeOK DEF Next

\* The variables keep their types.
THEOREM TypeCorrect == Spec => []TypeOK
  BY InitTypeOK, NextTypeOK, PTL DEF Spec

-----------------------------------------------------------------------------
(* In-order execution.  OrderInv speaks of one camera at a time; an action *)
(* disturbs it only for the camera it belongs to.                          *)

HIDE DEF TypeOK, StoreTypeOK, cameraVars, netVars, historyVars, storeVars

LEMMA AppendCases ==
  ASSUME NEW S, NEW s \in Seq(S), NEW e \in S
  PROVE  \A i \in DOMAIN Append(s, e) :
           \/ i \in DOMAIN s /\ i <= Len(s) /\ Append(s, e)[i] = s[i]
           \/ i = Len(s) + 1 /\ Append(s, e)[i] = e
  <1>1. /\ Append(s, e) \in Seq(S) /\ Len(Append(s, e)) = Len(s) + 1
        /\ \A i \in 1..Len(s) : Append(s, e)[i] = s[i]
        /\ Append(s, e)[Len(s) + 1] = e
    BY AppendProperties
  <1>2. Len(s) \in Nat /\ DOMAIN s = 1..Len(s)
    BY LenProperties
  <1>3. DOMAIN Append(s, e) = 1..(Len(s) + 1)
    BY <1>1, LenProperties
  <1>4. \A i \in 1..(Len(s) + 1) : i \in 1..Len(s) \/ i = Len(s) + 1
    BY <1>2
  <1> QED
    BY <1>1, <1>2, <1>3, <1>4

LEMMA TailCases ==
  ASSUME NEW S, NEW s \in Seq(S), s # << >>
  PROVE  /\ 1 \in DOMAIN s /\ Head(s) = s[1]
         /\ \A i \in DOMAIN Tail(s) : i \in Nat /\ i + 1 \in DOMAIN s /\ Tail(s)[i] = s[i + 1]
  <1>1. /\ Tail(s) \in Seq(S) /\ Len(Tail(s)) = Len(s) - 1
        /\ \A i \in 1..Len(Tail(s)) : Tail(s)[i] = s[i + 1]
    BY HeadTailProperties
  <1>2. Len(s) \in Nat /\ Len(s) > 0 /\ DOMAIN s = 1..Len(s)
    BY LenProperties, EmptySeq
  <1>3. DOMAIN Tail(s) = 1..(Len(s) - 1)
    BY <1>1, LenProperties
  <1>4. \A i \in 1..(Len(s) - 1) : i \in Nat /\ i + 1 \in 1..Len(s)
    BY <1>2
  <1> QED
    BY <1>1, <1>2, <1>3, <1>4

\* The parts of TypeOK that the arguments about order need.
LEMMA SeqRanges ==
  ASSUME TypeOK, NEW c \in Cameras
  PROVE  /\ \A i \in DOMAIN executed[c] : i \in Nat /\ executed[c][i].seq \in Nat
         /\ \A i \in DOMAIN pending[c] : i \in Nat /\ pending[c][i].seq \in Nat
         /\ executed[c] \in Seq([seq : Nat, ok : BOOLEAN]) /\ pending[c] \in Seq(Task)
         /\ held[c].seq \in Nat /\ get[c].task.seq \in Nat /\ filed \in Nat
  <1>1. executed[c] \in Seq([seq : Nat, ok : BOOLEAN]) /\ pending[c] \in Seq(Task)
    BY DEF TypeOK, StoreTypeOK
  <1>2. ASSUME NEW i \in DOMAIN pending[c] PROVE i \in Nat /\ pending[c][i].seq \in Nat
    <2>1. i \in 1..Len(pending[c]) /\ Len(pending[c]) \in Nat
      BY <1>1, LenProperties
    <2>2. pending[c][i] \in Task
      BY <1>1, <2>1, ElementOfSeq
    <2> QED
      BY <2>1, <2>2 DEF Task
  <1>3. ASSUME NEW i \in DOMAIN executed[c] PROVE i \in Nat /\ executed[c][i].seq \in Nat
    <2>1. i \in 1..Len(executed[c]) /\ Len(executed[c]) \in Nat
      BY <1>1, LenProperties
    <2>2. executed[c][i] \in [seq : Nat, ok : BOOLEAN]
      BY <1>1, <2>1, ElementOfSeq
    <2> QED
      BY <2>1, <2>2
  <1>4. held[c].seq \in Nat /\ get[c].task.seq \in Nat /\ filed \in Nat
    <2>1. held[c] \in Task \cup {NoTask} /\ get[c].task \in Task \cup {NoTask}
      BY DEF TypeOK
    <2> QED
      BY <2>1 DEF Task, NoTask, TypeOK, StoreTypeOK
  <1> QED
    BY <1>1, <1>2, <1>3, <1>4

\* What does not touch a camera's tasks does not disturb their order.
LEMMA OrderFrame ==
  ASSUME TypeOK, NEW d \in Cameras, Ordered(d), filed' \in Nat, filed' >= filed,
         executed'[d] = executed[d], pending'[d] = pending[d],
         get'[d].task \in {get[d].task, NoTask},
         pc'[d] = "received" => pc[d] = "received" /\ get'[d] = get[d] /\ held'[d] = held[d]
  PROVE  Ordered(d)'
  <1>1. ASSUME NEW t, t.seq \in Nat, Between(d, t)
        PROVE  /\ \A i \in DOMAIN executed'[d] : executed'[d][i].seq < t.seq
               /\ \A j \in DOMAIN pending'[d] : t.seq < pending'[d][j].seq
               /\ t.seq <= filed'
    BY <1>1, SeqRanges DEF Between
  <1>2. (get[d].task # NoTask => Between(d, get[d].task))'
    BY <1>1, SeqRanges DEF Ordered, Between
  <1>3. (pc[d] = "received" => get[d] = NoGet /\ Between(d, held[d]))'
    BY <1>1, SeqRanges DEF Ordered, Between
  <1>4. /\ \A i \in DOMAIN executed'[d] : executed'[d][i].seq <= filed'
        /\ \A j \in DOMAIN pending'[d] : pending'[d][j].seq <= filed'
    BY SeqRanges DEF Ordered
  <1> QED
    BY <1>2, <1>3, <1>4 DEF Ordered

LEMMA EnqueueOrdered ==
  ASSUME TypeOK, NEW c \in Cameras, Ordered(c), NEW t \in Task, t.seq = filed + 1,
         filed' = filed + 1, pending'[c] = Append(pending[c], t),
         UNCHANGED <<executed, get, pc, held>>
  PROVE  Ordered(c)'
  <1>1. \A i \in DOMAIN pending'[c] :
          \/ i \in DOMAIN pending[c] /\ i <= Len(pending[c]) /\ pending'[c][i] = pending[c][i]
          \/ i = Len(pending[c]) + 1 /\ pending'[c][i] = t
    BY AppendCases, SeqRanges
  <1>2. ASSUME NEW s \in Nat, s <= filed, \A j \in DOMAIN pending[c] : s < pending[c][j].seq
        PROVE  s <= filed' /\ (\A j \in DOMAIN pending'[c] : s < pending'[c][j].seq)
    BY <1>1, <1>2, SeqRanges
  <1>3. \A i, j \in DOMAIN pending'[c] : i < j => pending'[c][i].seq < pending'[c][j].seq
    BY <1>1, SeqRanges, LenProperties DEF Ordered
  <1>4. /\ \A j \in DOMAIN pending'[c] : pending'[c][j].seq <= filed'
        /\ \A i \in DOMAIN executed'[c] : executed'[c][i].seq <= filed'
    BY <1>1, SeqRanges DEF Ordered
  <1>5. \A i \in DOMAIN executed'[c], j \in DOMAIN pending'[c] :
          executed'[c][i].seq < pending'[c][j].seq
    BY <1>2, SeqRanges DEF Ordered
  <1>6. /\ (get[c].task # NoTask => Between(c, get[c].task))'
        /\ (pc[c] = "received" => get[c] = NoGet /\ Between(c, held[c]))'
    BY <1>2, SeqRanges DEF Ordered, Between
  <1> QED
    BY <1>3, <1>4, <1>5, <1>6 DEF Ordered

\* Popping a deque: the head goes to `get`, or is lost.
LEMMA PopOrdered ==
  ASSUME TypeOK, NEW c \in Cameras, Ordered(c), PopTask(c),
         UNCHANGED <<executed, pc, held, filed>>,
         \/ get'[c] = get[c]
         \/ get[c].st = "sent" /\ get'[c] = Answered(NextTask(c))
  PROVE  Ordered(c)'
  <1>1. CASE pending[c] = << >>
    <2>1. pending' = pending /\ NextTask(c) = NoTask
      BY <1>1 DEF PopTask, NextTask
    <2>2. CASE get'[c] = get[c]
      BY <2>1, <2>2, OrderFrame, SeqRanges
    <2>3. CASE get[c].st = "sent" /\ get'[c] = Answered(NextTask(c))
      <3>1. get'[c].task = NoTask
        BY <2>1, <2>3 DEF Answered
      <3>2. pc[c] # "received"
        BY <2>3 DEF Ordered, NoGet
      <3> QED
        BY <2>1, <3>1, <3>2, OrderFrame, SeqRanges
    <2> QED
      BY <2>2, <2>3
  <1>2. CASE pending[c] # << >>
    <2>1. pending'[c] = Tail(pending[c]) /\ NextTask(c) = pending[c][1]
      BY <1>2, TailCases, SeqRanges DEF PopTask, NextTask, TypeOK, StoreTypeOK
    <2>2. /\ 1 \in DOMAIN pending[c]
          /\ \A i \in DOMAIN pending'[c] :
               /\ i \in Nat /\ i + 1 \in DOMAIN pending[c] /\ 1 < i + 1
               /\ pending'[c][i] = pending[c][i + 1]
      <3>1. /\ 1 \in DOMAIN pending[c]
            /\ \A i \in DOMAIN pending'[c] :
                 i \in Nat /\ i + 1 \in DOMAIN pending[c] /\ pending'[c][i] = pending[c][i + 1]
        BY <1>2, <2>1, TailCases, SeqRanges
      <3>2. \A i \in DOMAIN pending'[c] : i >= 1
        BY <1>2, <2>1, HeadTailProperties, LenProperties, SeqRanges
      <3> QED
        BY <3>1, <3>2
    <2>3. /\ \A i, j \in DOMAIN pending'[c] : i < j => pending'[c][i].seq < pending'[c][j].seq
          /\ \A j \in DOMAIN pending'[c] : pending'[c][j].seq <= filed'
          /\ \A i \in DOMAIN executed'[c], j \in DOMAIN pending'[c] :
               executed'[c][i].seq < pending'[c][j].seq
      BY <2>2 DEF Ordered
    <2>4. ASSUME NEW s \in Nat, \A j \in DOMAIN pending[c] : s < pending[c][j].seq
          PROVE  \A j \in DOMAIN pending'[c] : s < pending'[c][j].seq
      BY <2>2, <2>4
    <2>5. (get[c].task # NoTask => Between(c, get[c].task))'
      <3>1. CASE get'[c] = get[c]
        BY <2>4, <3>1, SeqRanges DEF Ordered, Between
      <3>2. CASE get'[c] = Answered(NextTask(c))
        <4>1. get'[c].task = pending[c][1]
          BY <2>1, <3>2 DEF Answered
        <4>2. \A j \in DOMAIN pending'[c] : pending[c][1].seq < pending'[c][j].seq
          BY <2>2 DEF Ordered
        <4>3. /\ \A i \in DOMAIN executed[c] : executed[c][i].seq < pending[c][1].seq
              /\ pending[c][1].seq <= filed
          BY <2>2 DEF Ordered
        <4> QED
          BY <4>1, <4>2, <4>3 DEF Between
      <3> QED
        BY <3>1, <3>2
    <2>6. (pc[c] = "received" => get[c] = NoGet /\ Between(c, held[c]))'
      <3>1. pc[c] = "received" => get'[c] = get[c]
        BY DEF Ordered, NoGet
      <3> QED
        BY <2>4, <3>1, SeqRanges DEF Ordered, Between
    <2> QED
      BY <2>3, <2>5, <2>6 DEF Ordered
  <1> QED
    BY <1>1, <1>2

LEMMA ReceiveOrdered ==
  ASSUME TypeOK, NEW c \in Cameras, Ordered(c), PollTask(c)
  PROVE  Ordered(c)'
  <1>1. /\ UNCHANGED <<executed, pending, filed>>
        /\ get'[c] = NoGet /\ held'[c] = get[c].task
    BY DEF PollTask, storeVars, historyVars, TypeOK
  <1>2. Between(c, held[c])'
    BY <1>1, SeqRanges DEF Ordered, Between, PollTask
  <1>3. get'[c].task = NoTask
    BY <1>1 DEF NoGet
  <1> QED
    BY <1>1, <1>2, <1>3 DEF Ordered

LEMMA ExecuteOrdered ==
  ASSUME TypeOK, NEW c \in Cameras, Ordered(c), Execute(c)
  PROVE  Ordered(c)'
  <1> DEFINE e == [seq |-> held[c].seq, ok |-> Accepts(held[c].cmd)]
  <1>1. /\ UNCHANGED <<pending, filed, get, held>>
        /\ executed'[c] = Append(executed[c], e) /\ pc'[c] = "executed"
    BY DEF Execute, GoTo, storeVars, netVars, TypeOK
  <1>2. Between(c, held[c]) /\ get[c].task = NoTask
    BY DEF Ordered, Execute, NoGet
  <1>3. e \in [seq : Nat, ok : BOOLEAN] /\ e.seq = held[c].seq
    BY SeqRanges DEF Accepts
  <1> HIDE DEF e
  <1>4. \A i \in DOMAIN executed'[c] :
          \/ i \in DOMAIN executed[c] /\ i <= Len(executed[c]) /\ executed'[c][i] = executed[c][i]
          \/ i = Len(executed[c]) + 1 /\ executed'[c][i] = e
    BY <1>1, <1>3, AppendCases, SeqRanges
  <1>5. \A i, j \in DOMAIN executed'[c] : i < j => executed'[c][i].seq < executed'[c][j].seq
    BY <1>2, <1>3, <1>4, SeqRanges, LenProperties DEF Ordered, Between
  <1>6. /\ \A i \in DOMAIN executed'[c] : executed'[c][i].seq <= filed'
        /\ \A i \in DOMAIN executed'[c], j \in DOMAIN pending'[c] :
             executed'[c][i].seq < pending'[c][j].seq
    BY <1>1, <1>2, <1>3, <1>4, SeqRanges DEF Ordered, Between
  <1> QED
    BY <1>1, <1>2, <1>5, <1>6 DEF Ordered

LEMMA InitOrderInv == Init => OrderInv
  BY DEF Init, InitStore, OrderInv, Ordered, NoGet

LEMMA NextOrderInv == TypeOK /\ OrderInv /\ [Next]_vars => OrderInv'
  <1> SUFFICES ASSUME TypeOK, OrderInv, [Next]_vars, NEW d \in Cameras
               PROVE  Ordered(d)'
    BY DEF OrderInv
  <1> USE DEF cameraVars, netVars, historyVars, storeVars
  <1>1. Ordered(d) /\ filed \in Nat
    BY SeqRanges DEF OrderInv
  <1>2. CASE UNCHANGED vars
    BY <1>1, <1>2, OrderFrame DEF vars
  <1>3. ASSUME NEW c \in Cameras, NEW cmd \in Commands, Submit(c, cmd) PROVE Ordered(d)'
    BY <1>1, <1>3, OrderFrame DEF Submit, DrawId
  <1>4. ASSUME NEW r \in filing, FileTask(r) PROVE Ordered(d)'
    <2> DEFINE t == [seq |-> filed + 1, id |-> r.id, cmd |-> r.cmd]
    <2>1. r.camera \in Cameras /\ t \in Task /\ t.seq = filed + 1
      BY <1>1 DEF TypeOK, StoreTypeOK, Filing, Task
    <2>2. /\ pending' = [pending EXCEPT ![r.camera] = Append(@, t)]
          /\ filed' = filed + 1 /\ UNCHANGED <<executed, get, pc, held>>
      BY <1>4 DEF FileTask, Enqueue
    <2> HIDE DEF t
    <2>3. CASE d = r.camera
      <3>1. pending'[d] = Append(pending[d], t)
        BY <2>2, <2>3 DEF TypeOK, StoreTypeOK
      <3> QED
        BY <1>1, <2>1, <2>2, <3>1, EnqueueOrdered
    <2>4. CASE d # r.camera
      BY <1>1, <2>2, <2>4, OrderFrame DEF TypeOK, StoreTypeOK
    <2> QED
      BY <2>3, <2>4
  <1>5. ASSUME NEW c \in Cameras, ServeGet(c) \/ ServeStaleGet(c) PROVE Ordered(d)'
    <2>1. UNCHANGED <<executed, pc, held, filed>> /\ PopTask(c)
      BY <1>5 DEF ServeGet, ServeStaleGet, PopTask
    <2>2. CASE d = c
      <3>1. get'[d] = get[d] \/ (get[d].st = "sent" /\ get'[d] = Answered(NextTask(d)))
        BY <1>5, <2>2 DEF ServeGet, ServeStaleGet, TypeOK
      <3> QED
        BY <1>1, <2>1, <2>2, <3>1, PopOrdered
    <2>3. CASE d # c
      <3>1. pending'[d] = pending[d] /\ get'[d] = get[d]
        BY <1>5, <2>1, <2>3 DEF ServeGet, ServeStaleGet, PopTask, TypeOK, StoreTypeOK
      <3> QED
        BY <1>1, <2>1, <3>1, OrderFrame
    <2> QED
      BY <2>2, <2>3
  <1>6. ASSUME NEW r \in posts, ServePost(r) PROVE Ordered(d)'
    BY <1>1, <1>6, OrderFrame DEF ServePost, SaveResult
  <1>7. CASE RestartServer
    <2>1. /\ pending'[d] = << >> /\ UNCHANGED <<executed, pc, held, filed>>
          /\ get'[d] = IF get[d].st = "sent" THEN Broken ELSE get[d]
      BY <1>7 DEF RestartServer, ResetStore
    <2>2. get'[d].task = NoTask \/ get'[d] = get[d]
      BY <2>1 DEF Broken
    <2>3. pc[d] = "received" => get'[d] = get[d]
      BY <1>1, <2>1 DEF Ordered, NoGet
    <2> QED
      BY <1>1, <2>1, <2>2, <2>3 DEF Ordered, Between
  <1>8. ASSUME NEW c \in Cameras, Poll(c) \/ PollEmpty(c) \/ PollFails(c) PROVE Ordered(d)'
    <2>1. UNCHANGED <<executed, pending, filed>>
      BY <1>8 DEF Poll, PollEmpty, PollFails
    <2>2. get' \in {[get EXCEPT ![c] = Sent], [get EXCEPT ![c] = NoGet]}
      BY <1>8 DEF Poll, PollEmpty, PollFails
    <2>3. get'[d].task \in {get[d].task, NoTask}
      <3>1. get'[d] \in {get[d], Sent, NoGet}
        BY <2>2 DEF TypeOK
      <3>2. Sent.task = NoTask /\ NoGet.task = NoTask
        BY DEF Sent, NoGet
      <3> QED
        BY <3>1, <3>2
    <2>4. pc'[d] = "received" => pc[d] = "received" /\ get'[d] = get[d] /\ held'[d] = held[d]
      BY <1>8 DEF Poll, PollEmpty, PollFails, GoTo, TypeOK
    <2> QED
      BY <1>1, <2>1, <2>3, <2>4, OrderFrame
  <1>9. ASSUME NEW c \in Cameras, PollTask(c) PROVE Ordered(d)'
    <2>1. CASE d = c
      BY <1>1, <1>9, <2>1, ReceiveOrdered
    <2>2. CASE d # c
      BY <1>1, <1>9, <2>2, OrderFrame DEF PollTask, GoTo, TypeOK
    <2> QED
      BY <2>1, <2>2
  <1>10. ASSUME NEW c \in Cameras, Execute(c) PROVE Ordered(d)'
    <2>1. CASE d = c
      BY <1>1, <1>10, <2>1, ExecuteOrdered
    <2>2. CASE d # c
      BY <1>1, <1>10, <2>2, OrderFrame DEF Execute, GoTo, TypeOK
    <2> QED
      BY <2>1, <2>2
  <1>11. ASSUME NEW c \in Cameras, Finish(c) \/ PostOk(c) \/ PostFails(c) \/ LoopExits(c)
         PROVE Ordered(d)'
    <2>1. UNCHANGED <<executed, pending, filed, get>>
      BY <1>11 DEF Finish, PostOk, PostFails, Posted, LoopExits
    <2>2. pc'[d] = "received" => pc[d] = "received" /\ held'[d] = held[d]
      BY <1>11 DEF Finish, PostOk, PostFails, Posted, LoopExits, GoTo, TypeOK
    <2> QED
      BY <1>1, <2>1, <2>2, OrderFrame
  <1>12. ASSUME NEW c \in Cameras, Stop(c) \/ StopReturns(c) PROVE Ordered(d)'
    <2>1. UNCHANGED <<executed, pending, filed, get, pc, held>>
      BY <1>12 DEF Stop, StopReturns
    <2> QED
      BY <1>1, <2>1, OrderFrame
  <1>13. ASSUME NEW c \in Cameras, RebootAfterStop(c) \/ Crash(c) PROVE Ordered(d)'
    <2>1. Reboot(c)
      BY <1>13 DEF RebootAfterStop, Crash
    <2>2. /\ UNCHANGED <<executed, pending, filed>> /\ get'[d].task \in {get[d].task, NoTask}
          /\ pc'[d] = "received" => pc[d] = "received" /\ get'[d] = get[d] /\ held'[d] = held[d]
      BY <2>1 DEF Reboot, NoGet, GoTo, TypeOK
    <2> QED
      BY <1>1, <2>2, OrderFrame
  <1> QED
    BY <1>2, <1>3, <1>4, <1>5, <1>6, <1>7, <1>8, <1>9, <1>10, <1>11, <1>12, <1>13 DEF Next

\* A camera executes the tasks filed for it in the order they were queued,
\* none of them twice, whatever is lost, late or restarted.
THEOREM InOrderExecution == Spec => []ExecutedInFilingOrder
  <1>1. OrderInv => ExecutedInFilingOrder
    BY DEF OrderInv, Ordered, ExecutedInFilingOrder
  <1> QED
    BY <1>1, InitOrderInv, NextOrderInv, TypeCorrect, PTL DEF Spec

-----------------------------------------------------------------------------
(* Truthful results.                                                       *)

LEMMA RangeAppend ==
  ASSUME NEW S, NEW s \in Seq(S), NEW e \in S
  PROVE  Range(Append(s, e)) = Range(s) \cup {e}
  <1>1. /\ Len(Append(s, e)) = Len(s) + 1 /\ Append(s, e) \in Seq(S)
        /\ \A i \in 1..Len(s) : Append(s, e)[i] = s[i]
        /\ Append(s, e)[Len(s) + 1] = e
    BY AppendProperties
  <1>2. Len(s) \in Nat /\ DOMAIN s = 1..Len(s) /\ DOMAIN Append(s, e) = 1..(Len(s) + 1)
    BY <1>1, LenProperties
  <1>3. 1..(Len(s) + 1) = 1..Len(s) \cup {Len(s) + 1}
    BY <1>2
  <1> QED
    BY <1>1, <1>2, <1>3 DEF Range

LEMMA RangeTail ==
  ASSUME NEW S, NEW s \in Seq(S), s # << >>
  PROVE  Range(Tail(s)) \subseteq Range(s)
  BY TailCases DEF Range

\* `executed` only grows, so what was executed stays executed.
LEMMA TruthFrame ==
  ASSUME TypeOK, TruthInv,
         \A d \in Cameras : Range(executed[d]) \subseteq Range(executed'[d]),
         Range(results') \cup posts' \subseteq Range(results) \cup posts,
         \A d \in Cameras : pc'[d] \in {"executed", "posting"} =>
           pc[d] \in {"executed", "posting"} /\ held'[d] = held[d]
  PROVE  TruthInv'
  <1>1. ASSUME NEW r \in Range(results) \cup posts PROVE r.camera \in Cameras
    <2>1. r \in Result
      BY ElementOfSeq, LenProperties DEF TypeOK, StoreTypeOK, Range
    <2> QED
      BY <2>1 DEF Result
  <1>2. ResultsTruthful'
    BY <1>1 DEF TruthInv, ResultsTruthful
  <1> QED
    BY <1>2 DEF TruthInv

LEMMA InitTruthInv == Init => TruthInv
  BY DEF Init, InitStore, TruthInv, ResultsTruthful, Range

LEMMA NextTruthInv == TypeOK /\ TruthInv /\ [Next]_vars => TruthInv'
  <1> SUFFICES ASSUME TypeOK, TruthInv, [Next]_vars PROVE TruthInv'
    OBVIOUS
  <1> USE DEF cameraVars, netVars, historyVars, storeVars
  <1>1. CASE UNCHANGED <<executed, results, posts, pc, held>>
    BY <1>1, TruthFrame
  <1>2. ASSUME NEW c \in Cameras, Poll(c) \/ PollEmpty(c) \/ PollTask(c) \/ PollFails(c)
                                    \/ LoopExits(c) \/ PostOk(c) \/ PostFails(c)
        PROVE  TruthInv'
    <2>1. executed' = executed /\ results' = results /\ posts' \subseteq posts
      BY <1>2 DEF Poll, PollEmpty, PollTask, PollFails, LoopExits, PostOk, PostFails, Posted
    <2>2. \A d \in Cameras : pc'[d] \in {"executed", "posting"} =>
            pc[d] \in {"executed", "posting"} /\ held'[d] = held[d]
      BY <1>2 DEF Poll, PollEmpty, PollTask, PollFails, LoopExits, PostOk, PostFails, Posted,
                  GoTo, TypeOK
    <2> QED
      BY <2>1, <2>2, TruthFrame
  <1>3. ASSUME NEW r \in posts, ServePost(r) PROVE TruthInv'
    <2> DEFINE kept == IF Len(results) < ResultCap THEN results ELSE Tail(results)
    <2>1. results \in Seq(Result) /\ r \in Result
      BY DEF TypeOK, StoreTypeOK
    <2>2. ~(Len(results) < ResultCap) => results # << >>
      BY StoreAssumption
    <2>3. kept \in Seq(Result) /\ Range(kept) \subseteq Range(results)
      BY <2>1, <2>2, HeadTailProperties, RangeTail
    <2>4. results' = Append(kept, r)
      BY <1>3 DEF ServePost, SaveResult
    <2> HIDE DEF kept
    <2>5. Range(results') \subseteq Range(results) \cup {r}
      BY <2>1, <2>3, <2>4, RangeAppend
    <2>6. posts' \subseteq posts /\ UNCHANGED <<executed, pc, held>>
      BY <1>3 DEF ServePost
    <2> QED
      BY <2>5, <2>6, TruthFrame
  <1>4. CASE RestartServer
    BY <1>4, TruthFrame DEF RestartServer, ResetStore, Range
  <1>5. ASSUME NEW c \in Cameras, Execute(c) PROVE TruthInv'
    <2> DEFINE e == [seq |-> held[c].seq, ok |-> Accepts(held[c].cmd)]
    <2>1. e \in [seq : Nat, ok : BOOLEAN]
      BY SeqRanges DEF Accepts
    <2>2. /\ executed' = [executed EXCEPT ![c] = Append(@, e)]
          /\ UNCHANGED <<results, posts, held>> /\ pc' = [pc EXCEPT ![c] = "executed"]
      BY <1>5 DEF Execute, GoTo
    <2>3. \A d \in Cameras : Range(executed'[d]) =
            IF d = c THEN Range(executed[d]) \cup {e} ELSE Range(executed[d])
      <3> HIDE DEF e
      <3>1. /\ executed'[c] = Append(executed[c], e)
            /\ \A d \in Cameras : d # c => executed'[d] = executed[d]
        BY <2>2 DEF TypeOK
      <3>2. Range(Append(executed[c], e)) = Range(executed[c]) \cup {e}
        <4> DEFINE S == [seq : Nat, ok : BOOLEAN]
        <4>1. executed[c] \in Seq(S) /\ e \in S
          BY <2>1, SeqRanges
        <4> HIDE DEF S
        <4> QED
          BY <4>1, RangeAppend
      <3> QED
        BY <3>1, <3>2
    <2>4. ASSUME NEW r \in Range(results) \cup posts
          PROVE  [seq |-> r.seq, ok |-> r.ok] \in Range(executed'[r.camera])
      <3>1. r \in Result
        BY ElementOfSeq, LenProperties DEF TypeOK, StoreTypeOK, Range
      <3> QED
        BY <2>3, <3>1 DEF Result, TruthInv, ResultsTruthful
    <2>5. ASSUME NEW d \in Cameras, pc'[d] \in {"executed", "posting"}
          PROVE  [seq |-> held[d].seq, ok |-> Accepts(held[d].cmd)] \in Range(executed'[d])
      BY <2>2, <2>3, <2>5 DEF TruthInv, TypeOK
    <2> QED
      BY <2>2, <2>4, <2>5 DEF TruthInv, ResultsTruthful
  <1>6. ASSUME NEW c \in Cameras, Finish(c) PROVE TruthInv'
    <2>1. /\ posts' = posts \cup {ResultOf(c)} /\ UNCHANGED <<executed, results, held>>
          /\ pc[c] = "executed" /\ pc' = [pc EXCEPT ![c] = "posting"]
      BY <1>6 DEF Finish, GoTo
    <2>2. [seq |-> ResultOf(c).seq, ok |-> ResultOf(c).ok] \in Range(executed[ResultOf(c).camera])
      BY <2>1 DEF TruthInv, ResultOf
    <2>3. ResultsTruthful'
      BY <2>1, <2>2 DEF TruthInv, ResultsTruthful
    <2> QED
      BY <2>1, <2>3 DEF TruthInv, TypeOK
  <1>7. ASSUME NEW c \in Cameras, RebootAfterStop(c) \/ Crash(c) PROVE TruthInv'
    <2>1. Reboot(c)
      BY <1>7 DEF RebootAfterStop, Crash
    <2> QED
      BY <2>1, TruthFrame DEF Reboot, GoTo, TypeOK
  <1>8. ASSUME NEW c \in Cameras,
               (\E cmd \in Commands : Submit(c, cmd)) \/ ServeGet(c) \/ ServeStaleGet(c)
                 \/ Stop(c) \/ StopReturns(c)
        PROVE  TruthInv'
    <2>1. UNCHANGED <<executed, results, posts, pc, held>>
      BY <1>8 DEF Submit, DrawId, ServeGet, ServeStaleGet, PopTask, Stop, StopReturns
    <2> QED
      BY <1>1, <2>1
  <1>9. ASSUME NEW r \in filing, FileTask(r) PROVE TruthInv'
    BY <1>1, <1>9 DEF FileTask, Enqueue
  <1>10. CASE UNCHANGED vars
    BY <1>1, <1>10 DEF vars
  <1> QED
    BY <1>2, <1>3, <1>4, <1>5, <1>6, <1>7, <1>8, <1>9, <1>10 DEF Next

\* Every result the server lists, or may still receive, tells the outcome of
\* an execution by the camera it names.
THEOREM TruthfulResults == Spec => []ResultsTruthful
  <1>1. TruthInv => ResultsTruthful
    BY DEF TruthInv
  <1> QED
    BY <1>1, InitTruthInv, NextTruthInv, TypeCorrect, PTL DEF Spec

-----------------------------------------------------------------------------
(* Idle pollers, and a stop that joined.                                   *)

\* At first every poller is idle.
LEMMA InitIdleInv == Init => IdleInv
  BY DEF Init, IdleInv, IdleOK, NoGet

\* And it stays so, whatever the server and the other pollers do.
LEMMA NextIdleInv == TypeOK /\ IdleInv /\ [Next]_vars => IdleInv'
  <1> SUFFICES ASSUME TypeOK, IdleInv, [Next]_vars, NEW d \in Cameras
               PROVE  IdleOK(d)'
    BY DEF IdleInv
  <1> USE DEF cameraVars, netVars, historyVars, storeVars
  <1>0. IdleOK(d) /\ d \in DOMAIN pc /\ d \in DOMAIN get /\ d \in DOMAIN held
        /\ d \in DOMAIN poller /\ d \in DOMAIN stopped
    BY DEF IdleInv, TypeOK
  <1>1. CASE UNCHANGED <<pc, held, get, stopped, poller>>
    BY <1>0, <1>1 DEF IdleOK
  <1>2. ASSUME NEW c \in Cameras,
               Poll(c) \/ PollEmpty(c) \/ PollTask(c) \/ PollFails(c) \/ LoopExits(c)
        PROVE  IdleOK(d)'
    BY <1>0, <1>2
    DEF Poll, PollEmpty, PollTask, PollFails, LoopExits, GoTo, IdleOK, TypeOK, Sent, NoGet
  <1>3. ASSUME NEW c \in Cameras, Execute(c) \/ Finish(c) \/ PostOk(c) \/ PostFails(c)
        PROVE  IdleOK(d)'
    BY <1>0, <1>3 DEF Execute, Finish, PostOk, PostFails, Posted, GoTo, IdleOK, TypeOK
  <1>4. ASSUME NEW c \in Cameras, ServeGet(c) PROVE IdleOK(d)'
    <2>1. /\ UNCHANGED <<pc, held, stopped, poller>>
          /\ get'[d] = get[d] \/ (get[d].st = "sent" /\ get'[d] = Answered(NextTask(c)))
      BY <1>0, <1>4 DEF ServeGet, TypeOK
    <2> QED
      BY <1>0, <2>1 DEF IdleOK, NoGet, Answered
  <1>5. CASE RestartServer
    <2>1. /\ UNCHANGED <<pc, held, stopped, poller>>
          /\ get'[d] = IF get[d].st = "sent" THEN Broken ELSE get[d]
      BY <1>5 DEF RestartServer
    <2> QED
      BY <1>0, <2>1 DEF IdleOK, NoGet, Broken
  <1>6. ASSUME NEW c \in Cameras, StopReturns(c) PROVE IdleOK(d)'
    <2>1. UNCHANGED <<pc, held, get>>
      BY <1>6 DEF StopReturns
    <2>2. CASE d = c
      <3>1. poller'[d] = MarkPollerStopped(poller[d]) /\ poller[d] \in Poller
        BY <1>0, <1>6, <2>2 DEF StopReturns, TypeOK
      <3>2. poller'[d].status = "stopped"
        BY <3>1 DEF MarkPollerStopped, Poller
      <3>3. stopped'[d] = "joined" => pc[d] = "exited"
        BY <1>0, <1>6, <2>2 DEF StopReturns, TypeOK
      <3> QED
        BY <1>0, <2>1, <3>2, <3>3 DEF IdleOK
    <2>3. CASE d # c
      BY <1>0, <1>6, <2>1, <2>3 DEF StopReturns, IdleOK, TypeOK
    <2> QED
      BY <2>2, <2>3
  <1>7. ASSUME NEW c \in Cameras, RebootAfterStop(c) \/ Crash(c) PROVE IdleOK(d)'
    <2>1. Reboot(c)
      BY <1>7 DEF RebootAfterStop, Crash
    <2> QED
      BY <1>0, <2>1 DEF Reboot, GoTo, IdleOK, TypeOK, NoGet
  <1>8. ASSUME NEW c \in Cameras,
               (\E cmd \in Commands : Submit(c, cmd)) \/ ServeStaleGet(c) \/ Stop(c)
        PROVE  IdleOK(d)'
    <2>1. UNCHANGED <<pc, held, get, stopped, poller>>
      BY <1>8 DEF Submit, DrawId, ServeStaleGet, Stop
    <2> QED
      BY <1>1, <2>1
  <1>9. ASSUME (\E r \in filing : FileTask(r)) \/ (\E r \in posts : ServePost(r)) \/ UNCHANGED vars
        PROVE  IdleOK(d)'
    <2>1. UNCHANGED <<pc, held, get, stopped, poller>>
      BY <1>9 DEF FileTask, Enqueue, ServePost, vars
    <2> QED
      BY <1>1, <2>1
  <1> QED
    BY <1>2, <1>3, <1>4, <1>5, <1>6, <1>7, <1>8, <1>9 DEF Next

\* When TaskPoller.stop has joined its thread, the exchange it was in is finished
\* and nothing overwrites the status "stopped" until the process ends.
THEOREM JoinedStopsAreClean == Spec => []JoinedStopIsClean
  <1>1. IdleInv => JoinedStopIsClean
    BY DEF IdleInv, IdleOK, JoinedStopIsClean
  <1> QED
    BY <1>1, InitIdleInv, NextIdleInv, TypeCorrect, PTL DEF Spec

-----------------------------------------------------------------------------
(* Where a step moves the tasks on their way to execution.                 *)

LEMMA TailSeqs ==
  ASSUME NEW S, NEW s \in Seq(S), s # << >>
  PROVE  {s[i].seq : i \in DOMAIN s}
           = {Tail(s)[i].seq : i \in DOMAIN Tail(s)} \cup {Head(s).seq}
  <1>1. /\ Tail(s) \in Seq(S) /\ Len(Tail(s)) = Len(s) - 1 /\ Len(s) \in Nat /\ Len(s) > 0
        /\ \A i \in 1..Len(Tail(s)) : Tail(s)[i] = s[i + 1]
        /\ DOMAIN s = 1..Len(s)
    BY HeadTailProperties, LenProperties, EmptySeq
  <1>2. DOMAIN Tail(s) = 1..(Len(s) - 1)
    BY <1>1, LenProperties
  <1>3. \A i \in 1..Len(s) : i = 1 \/ (i - 1 \in 1..(Len(s) - 1) /\ s[i] = Tail(s)[i - 1])
    BY <1>1
  <1>4. \A i \in 1..(Len(s) - 1) : i + 1 \in 1..Len(s) /\ Tail(s)[i] = s[i + 1]
    BY <1>1
  <1>5. 1 \in 1..Len(s) /\ Head(s) = s[1]
    BY <1>1, TailCases
  <1>6. ASSUME NEW i \in DOMAIN s
        PROVE  s[i].seq \in {Tail(s)[j].seq : j \in DOMAIN Tail(s)} \cup {Head(s).seq}
    BY <1>1, <1>2, <1>3, <1>5
  <1>7. ASSUME NEW i \in DOMAIN Tail(s) PROVE Tail(s)[i].seq \in {s[j].seq : j \in DOMAIN s}
    <2>1. i + 1 \in DOMAIN s /\ Tail(s)[i] = s[i + 1]
      BY <1>1, <1>2, <1>4
    <2> QED
      BY <2>1
  <1>8. Head(s).seq \in {s[j].seq : j \in DOMAIN s}
    BY <1>1, <1>5
  <1> QED
    BY <1>6, <1>7, <1>8, Zenon

LEMMA AppendSeqs ==
  ASSUME NEW S, NEW s \in Seq(S), NEW e \in S
  PROVE  {Append(s, e)[i].seq : i \in DOMAIN Append(s, e)}
           = {s[i].seq : i \in DOMAIN s} \cup {e.seq}
  <1>1. /\ Append(s, e) \in Seq(S) /\ Len(Append(s, e)) = Len(s) + 1
        /\ \A i \in 1..Len(s) : Append(s, e)[i] = s[i]
        /\ Append(s, e)[Len(s) + 1] = e
        /\ Len(s) \in Nat /\ DOMAIN s = 1..Len(s)
    BY AppendProperties, LenProperties
  <1>2. DOMAIN Append(s, e) = 1..(Len(s) + 1)
    BY <1>1, LenProperties
  <1>3. /\ \A i \in 1..(Len(s) + 1) : i \in 1..Len(s) \/ i = Len(s) + 1
        /\ \A i \in 1..Len(s) : i \in 1..(Len(s) + 1)
        /\ Len(s) + 1 \in 1..(Len(s) + 1)
    BY <1>1
  <1> QED
    BY <1>1, <1>2, <1>3

LEMMA WaitingRange ==
  ASSUME TypeOK, NEW c \in Cameras
  PROVE  /\ Waiting(c) \subseteq Nat /\ Executed(c) \subseteq Nat
         /\ OrderInv => \A s \in Waiting(c) \cup Executed(c) : s <= filed
  <1>1. Waiting(c) \subseteq Nat /\ Executed(c) \subseteq Nat
    BY SeqRanges DEF Waiting, Executed
  <1>2. ASSUME OrderInv, NEW s \in Waiting(c) \cup Executed(c) PROVE s <= filed
    BY <1>2 DEF Waiting, Executed, OrderInv, Ordered, Between
  <1> QED
    BY <1>1, <1>2

\* What touches neither the deque of a camera, nor a task on its way to it.
LEMMA WaitingSame ==
  ASSUME NEW d, pending'[d] = pending[d], get'[d].task = get[d].task,
         (pc'[d] = "received") <=> (pc[d] = "received"),
         pc[d] = "received" => held'[d] = held[d]
  PROVE  Waiting(d)' = Waiting(d)
  BY DEF Waiting

LEMMA ServeGetKeeps ==
  ASSUME TypeOK, IdleInv, NEW c \in Cameras, ServeGet(c), NEW d \in Cameras
  PROVE  Waiting(d)' = Waiting(d)
  <1>1. /\ UNCHANGED <<pc, held>> /\ get' = [get EXCEPT ![c] = Answered(NextTask(c))]
        /\ pending' = IF pending[c] = << >> THEN pending ELSE [pending EXCEPT ![c] = Tail(@)]
        /\ get[c].task = NoTask
    BY DEF ServeGet, PopTask, cameraVars, IdleInv, IdleOK
  <1>2. c \in DOMAIN get /\ c \in DOMAIN pending /\ pending[c] \in Seq(Task)
    BY DEF TypeOK, StoreTypeOK
  <1>3. CASE d # c
    BY <1>1, <1>2, <1>3, WaitingSame
  <1>4. CASE d = c /\ pending[c] = << >>
    <2>1. pending'[d] = pending[d] /\ get'[d].task = get[d].task
      BY <1>1, <1>2, <1>4 DEF NextTask, Answered
    <2> QED
      BY <1>1, <2>1, WaitingSame
  <1>5. CASE d = c /\ pending[c] # << >>
    <2>1. pending'[c] = Tail(pending[c]) /\ get'[c].task = Head(pending[c])
      BY <1>1, <1>2, <1>5 DEF NextTask, Answered
    <2>2. Head(pending[c]) \in Task
      BY <1>2, <1>5, HeadTailProperties
    <2>3. Head(pending[c]) # NoTask
      BY <2>2, StoreAssumption DEF Task, NoTask, Command
    <2> DEFINE old == {pending[c][i].seq : i \in DOMAIN pending[c]}
               new == {pending'[c][i].seq : i \in DOMAIN pending'[c]}
               hand == IF pc[c] = "received" THEN {held[c].seq} ELSE {}
    <2>4. old = new \cup {Head(pending[c]).seq}
      <3>1. pending[c] \in Seq(Task) /\ pending[c] # << >>
        BY <1>2, <1>5
      <3>2. {pending[c][i].seq : i \in DOMAIN pending[c]}
              = {Tail(pending[c])[i].seq : i \in DOMAIN Tail(pending[c])} \cup {Head(pending[c]).seq}
        BY <3>1, TailSeqs
      <3> QED
        BY <2>1, <3>2
    <2>5. Waiting(c) = old \cup hand
      BY <1>1 DEF Waiting
    <2>6. Waiting(c)' = new \cup {Head(pending[c]).seq} \cup hand
      BY <1>1, <2>1, <2>3 DEF Waiting
    <2> HIDE DEF old, new, hand
    <2> QED
      BY <1>5, <2>4, <2>5, <2>6
  <1> QED
    BY <1>3, <1>4, <1>5

\* A pop for nobody loses the head, if there is one.
LEMMA ServeStaleGetLoses ==
  ASSUME TypeOK, NEW c \in Cameras, ServeStaleGet(c)
  PROVE  \E x : \A d \in Cameras :
           Waiting(d)' \subseteq Waiting(d) /\ Waiting(d) \subseteq Waiting(d)' \cup {x}
  <1>1. /\ UNCHANGED <<pc, held, get>>
        /\ pending' = IF pending[c] = << >> THEN pending ELSE [pending EXCEPT ![c] = Tail(@)]
    BY DEF ServeStaleGet, PopTask, cameraVars
  <1>2. c \in DOMAIN pending /\ pending[c] \in Seq(Task)
    BY DEF TypeOK, StoreTypeOK
  <1>3. CASE pending[c] = << >>
    BY <1>1, <1>3, WaitingSame
  <1>4. CASE pending[c] # << >>
    <2>1. pending'[c] = Tail(pending[c]) /\ \A d \in Cameras : d # c => pending'[d] = pending[d]
      BY <1>1, <1>2, <1>4
    <2>2. {pending[c][i].seq : i \in DOMAIN pending[c]}
            = {pending'[c][i].seq : i \in DOMAIN pending'[c]} \cup {Head(pending[c]).seq}
      BY <1>2, <1>4, <2>1, TailSeqs
    <2>3. /\ Waiting(c)' \subseteq Waiting(c)
          /\ Waiting(c) \subseteq Waiting(c)' \cup {Head(pending[c]).seq}
      BY <1>1, <2>2 DEF Waiting
    <2>4. \A d \in Cameras : d # c => Waiting(d)' = Waiting(d)
      BY <1>1, <2>1, WaitingSame
    <2> QED
      BY <2>3, <2>4
  <1> QED
    BY <1>3, <1>4

LEMMA FileTaskAdds ==
  ASSUME TypeOK, NEW r \in filing, FileTask(r)
  PROVE  /\ r.camera \in Cameras
         /\ \A d \in Cameras :
              Waiting(d)' = IF d = r.camera THEN Waiting(d) \cup {filed + 1} ELSE Waiting(d)
  <1> DEFINE t == [seq |-> filed + 1, id |-> r.id, cmd |-> r.cmd]
  <1>1. /\ UNCHANGED <<pc, held, get>>
        /\ pending' = [pending EXCEPT ![r.camera] = Append(@, t)]
    BY DEF FileTask, Enqueue, cameraVars, netVars
  <1>2. r.camera \in Cameras /\ t \in Task /\ t.seq = filed + 1
    BY DEF TypeOK, StoreTypeOK, Filing, Task
  <1> HIDE DEF t
  <1>3. r.camera \in DOMAIN pending /\ pending[r.camera] \in Seq(Task)
    BY <1>2 DEF TypeOK, StoreTypeOK
  <1>4. {pending'[r.camera][i].seq : i \in DOMAIN pending'[r.camera]}
          = {pending[r.camera][i].seq : i \in DOMAIN pending[r.camera]} \cup {filed + 1}
    BY <1>1, <1>2, <1>3, AppendSeqs
  <1>5. Waiting(r.camera)' = Waiting(r.camera) \cup {filed + 1}
    BY <1>1, <1>4 DEF Waiting
  <1>6. \A d \in Cameras : d # r.camera => Waiting(d)' = Waiting(d)
    BY <1>1, <1>3, WaitingSame
  <1> QED
    BY <1>2, <1>5, <1>6

\* The answer becomes the task in hand.
LEMMA PollTaskKeeps ==
  ASSUME TypeOK, NEW c \in Cameras, PollTask(c), NEW d \in Cameras
  PROVE  Waiting(d)' = Waiting(d)
  <1>1. /\ pending' = pending /\ get' = [get EXCEPT ![c] = NoGet] /\ pc[c] = "polling"
        /\ held' = [held EXCEPT ![c] = get[c].task] /\ pc' = [pc EXCEPT ![c] = "received"]
        /\ get[c].task # NoTask
    BY DEF PollTask, GoTo, storeVars
  <1>2. c \in DOMAIN get /\ c \in DOMAIN held /\ c \in DOMAIN pc
    BY DEF TypeOK
  <1>3. CASE d # c
    BY <1>1, <1>2, <1>3, WaitingSame
  <1>4. CASE d = c
    BY <1>1, <1>2, <1>4 DEF Waiting, NoGet
  <1> QED
    BY <1>3, <1>4

\* Execution takes the oldest of the tasks that wait.
LEMMA ExecuteTakes ==
  ASSUME TypeOK, OrderInv, NEW c \in Cameras, Execute(c)
  PROVE  /\ held[c].seq \in Waiting(c) /\ held[c].seq \notin Executed(c)
         /\ \A u \in Waiting(c) : held[c].seq <= u
         /\ \A d \in Cameras :
              /\ Waiting(d)' = IF d = c THEN Waiting(c) \ {held[c].seq} ELSE Waiting(d)
              /\ Executed(d)' = IF d = c THEN Executed(c) \cup {held[c].seq} ELSE Executed(d)
  <1> DEFINE e == [seq |-> held[c].seq, ok |-> Accepts(held[c].cmd)]
             S == [seq : Nat, ok : BOOLEAN]
  <1>1. /\ UNCHANGED <<pending, get, held>> /\ pc[c] = "received"
        /\ executed' = [executed EXCEPT ![c] = Append(@, e)] /\ pc' = [pc EXCEPT ![c] = "executed"]
    BY DEF Execute, GoTo, storeVars, netVars
  <1>2. e \in S /\ e.seq = held[c].seq /\ executed[c] \in Seq(S)
    BY SeqRanges DEF Accepts
  <1> HIDE DEF e, S
  <1>3. c \in DOMAIN pc /\ c \in DOMAIN executed
    BY DEF TypeOK
  <1>4. get[c] = NoGet /\ Between(c, held[c])
    BY <1>1 DEF OrderInv, Ordered
  <1>5. Waiting(c) = {pending[c][i].seq : i \in DOMAIN pending[c]} \cup {held[c].seq}
    BY <1>1, <1>4 DEF Waiting, NoGet
  <1>6. Waiting(c)' = {pending[c][i].seq : i \in DOMAIN pending[c]}
    BY <1>1, <1>3, <1>4 DEF Waiting, NoGet
  <1>7. \A i \in DOMAIN pending[c] : pending[c][i].seq > held[c].seq /\ pending[c][i].seq \in Nat
    BY <1>4, SeqRanges DEF Between
  <1>8. held[c].seq \notin Executed(c) /\ held[c].seq \in Nat
    BY <1>4, SeqRanges DEF Between, Executed
  <1>9. Executed(c)' = Executed(c) \cup {held[c].seq}
    <2>1. executed'[c] = Append(executed[c], e)
      BY <1>1, <1>3
    <2> QED
      BY <1>2, <2>1, AppendSeqs DEF Executed
  <1>10. \A d \in Cameras : d # c => Waiting(d)' = Waiting(d) /\ Executed(d)' = Executed(d)
    BY <1>1, <1>3, WaitingSame DEF Executed
  <1>11. Waiting(c)' = Waiting(c) \ {held[c].seq}
    BY <1>5, <1>6, <1>7, <1>8
  <1>12. held[c].seq \in Waiting(c) /\ \A u \in Waiting(c) : held[c].seq <= u
    BY <1>5, <1>7, <1>8
  <1> QED
    BY <1>8, <1>9, <1>10, <1>11, <1>12

\* A request or a process that ends loses at most the one task it carries.
LEMMA DropLoses ==
  ASSUME TypeOK, OrderInv, NEW c \in Cameras, PollFails(c) \/ Reboot(c)
  PROVE  /\ \E x : \A d \in Cameras :
              Waiting(d)' \subseteq Waiting(d) /\ Waiting(d) \subseteq Waiting(d)' \cup {x}
         /\ get[c].task = NoTask /\ pc[c] # "received" =>
              \A d \in Cameras : Waiting(d)' = Waiting(d)
  <1>1. /\ pending' = pending /\ get' = [get EXCEPT ![c] = NoGet] /\ pc' = [pc EXCEPT ![c] = "loop"]
        /\ \A d \in Cameras : d # c => held'[d] = held[d]
        /\ Reboot(c) \/ pc[c] = "polling"
    BY DEF PollFails, Reboot, GoTo, storeVars, TypeOK
  <1>2. c \in DOMAIN get /\ c \in DOMAIN pc
    BY DEF TypeOK
  <1>3. \A d \in Cameras : d # c => Waiting(d)' = Waiting(d)
    BY <1>1, <1>2, WaitingSame
  <1>4. Waiting(c)' = {pending[c][i].seq : i \in DOMAIN pending[c]}
    BY <1>1, <1>2 DEF Waiting, NoGet
  <1>5. pc[c] = "received" => get[c].task = NoTask
    BY DEF OrderInv, Ordered, NoGet
  <1>6. Waiting(c)' \subseteq Waiting(c) /\ \E x : Waiting(c) \subseteq Waiting(c)' \cup {x}
    <2>1. CASE pc[c] = "received"
      BY <1>4, <1>5, <2>1 DEF Waiting
    <2>2. CASE pc[c] # "received"
      BY <1>4, <2>2 DEF Waiting
    <2> QED
      BY <2>1, <2>2
  <1>7. get[c].task = NoTask /\ pc[c] # "received" => Waiting(c)' = Waiting(c)
    BY <1>4 DEF Waiting
  <1> QED
    BY <1>3, <1>6, <1>7

\* A server that restarts empties the deques, and takes note of it.
LEMMA RestartEmpties ==
  ASSUME TypeOK, IdleInv, RestartServer, NEW d \in Cameras
  PROVE  /\ UNCHANGED <<filed, executed>>
         /\ Waiting(d)' \subseteq Waiting(d) /\ Waiting(d) \subseteq Waiting(d)' \cup wiped'
  <1>1. /\ UNCHANGED <<filed, executed, pc, held>> /\ pending' = [c \in Cameras |-> << >>]
        /\ get' = [c \in Cameras |-> IF get[c].st = "sent" THEN Broken ELSE get[c]]
        /\ wiped' = wiped \cup QueuedTasks
    BY DEF RestartServer, ResetStore, cameraVars
  <1>2. pending'[d] = << >> /\ get'[d] = IF get[d].st = "sent" THEN Broken ELSE get[d]
    BY <1>1
  <1>3. {pending[d][i].seq : i \in DOMAIN pending[d]} \subseteq wiped'
    BY <1>1 DEF QueuedTasks
  <1>4. {pending'[d][i].seq : i \in DOMAIN pending'[d]} = {}
    BY <1>2
  <1>5. get'[d].task = NoTask \/ get'[d] = get[d]
    BY <1>2 DEF Broken
  <1>6. get'[d].task = NoTask => get[d].task = NoTask
    BY <1>2 DEF Broken, IdleInv, IdleOK
  <1> QED
    BY <1>1, <1>3, <1>4, <1>5, <1>6 DEF Waiting

\* The remaining steps move no task.
LEMMA OtherStepsKeep ==
  ASSUME TypeOK, IdleInv,
         \/ \E c \in Cameras :
              \/ \E cmd \in Commands : Submit(c, cmd)
              \/ Poll(c) \/ PollEmpty(c) \/ Finish(c) \/ PostOk(c) \/ PostFails(c)
              \/ LoopExits(c) \/ Stop(c) \/ StopReturns(c)
         \/ \E r \in posts : ServePost(r)
         \/ UNCHANGED vars
  PROVE  UNCHANGED <<filed, executed>> /\ \A d \in Cameras : Waiting(d)' = Waiting(d)
  <1> USE DEF cameraVars, netVars, historyVars, storeVars
  <1>1. CASE UNCHANGED <<pending, get, pc, held, filed, executed>>
    BY <1>1, WaitingSame
  <1>2. ASSUME NEW c \in Cameras, (\E cmd \in Commands : Submit(c, cmd)) \/ Stop(c) \/ StopReturns(c)
        PROVE  UNCHANGED <<pending, get, pc, held, filed, executed>>
    BY <1>2 DEF Submit, DrawId, Stop, StopReturns
  <1>3. ASSUME NEW r \in posts, ServePost(r)
        PROVE  UNCHANGED <<pending, get, pc, held, filed, executed>>
    BY <1>3 DEF ServePost, SaveResult
  <1>4. ASSUME NEW c \in Cameras, Poll(c) \/ PollEmpty(c), NEW d \in Cameras
        PROVE  UNCHANGED <<filed, executed>> /\ Waiting(d)' = Waiting(d)
    <2>1. /\ UNCHANGED <<filed, executed, pending, held>>
          /\ get' \in {[get EXCEPT ![c] = Sent], [get EXCEPT ![c] = NoGet]}
          /\ get[c] = NoGet \/ get[c] = Answered(NoTask)
      BY <1>4 DEF Poll, PollEmpty, IdleInv, IdleOK
    <2>3. get'[d].task = get[d].task
      <3>1. get'[d] = get[d] \/ (d = c /\ get'[d] \in {Sent, NoGet})
        BY <2>1 DEF TypeOK
      <3> QED
        BY <2>1, <3>1 DEF Sent, NoGet, Answered
    <2>2. (pc'[d] = "received") <=> (pc[d] = "received")
      BY <1>4 DEF Poll, PollEmpty, TypeOK, GoTo
    <2> QED
      BY <2>1, <2>2, <2>3, WaitingSame
  <1>5. ASSUME NEW c \in Cameras, Finish(c) \/ PostOk(c) \/ PostFails(c) \/ LoopExits(c),
               NEW d \in Cameras
        PROVE  UNCHANGED <<filed, executed>> /\ Waiting(d)' = Waiting(d)
    <2>1. UNCHANGED <<filed, executed, pending, get>>
      BY <1>5 DEF Finish, PostOk, PostFails, Posted, LoopExits
    <2>2. /\ (pc'[d] = "received") <=> (pc[d] = "received")
          /\ pc[d] = "received" => held'[d] = held[d]
      BY <1>5 DEF Finish, PostOk, PostFails, Posted, LoopExits, GoTo, TypeOK
    <2> QED
      BY <2>1, <2>2, WaitingSame
  <1>6. CASE UNCHANGED vars
    BY <1>1, <1>6 DEF vars
  <1> QED
    BY <1>1, <1>2, <1>3, <1>4, <1>5, <1>6

LEMMA TaskFlow ==
  ASSUME TypeOK, OrderInv, IdleInv, [Next]_vars
  PROVE  \/ \E r \in filing : FileTask(r)
         \/ \E c \in Cameras : Execute(c)
         \/ UNCHANGED <<filed, executed>> /\ \A d \in Cameras : Waiting(d)' \subseteq Waiting(d)
  <1>1. ASSUME NEW c \in Cameras, ServeGet(c) \/ ServeStaleGet(c) \/ PollTask(c) \/ PollFails(c)
                                     \/ RebootAfterStop(c) \/ Crash(c)
        PROVE  UNCHANGED <<filed, executed>>
    BY <1>1 DEF ServeGet, ServeStaleGet, PopTask, PollTask, PollFails, RebootAfterStop, Crash,
                Reboot, storeVars, historyVars
  <1>2. ASSUME NEW c \in Cameras, ServeGet(c) \/ ServeStaleGet(c) \/ PollTask(c) \/ PollFails(c)
                                     \/ RebootAfterStop(c) \/ Crash(c)
        PROVE  \A d \in Cameras : Waiting(d)' \subseteq Waiting(d)
    BY <1>2, ServeGetKeeps, ServeStaleGetLoses, PollTaskKeeps, DropLoses DEF RebootAfterStop, Crash
  <1>3. CASE RestartServer
    <2>1. UNCHANGED <<filed, executed>>
      BY <1>3 DEF RestartServer, ResetStore
    <2> QED
      BY <1>3, <2>1, RestartEmpties
  <1> QED
    BY <1>1, <1>2, <1>3, OtherStepsKeep DEF Next

-----------------------------------------------------------------------------
(* A result is saved once.                                                 *)

LEMMA PostedIsExecuted ==
  ASSUME TypeOK, TruthInv
  PROVE  /\ \A r \in posts : r.camera \in Cameras /\ r.seq \in Executed(r.camera)
         /\ \A c \in Cameras : pc[c] = "executed" => held[c].seq \in Executed(c)
  <1>1. ASSUME NEW r \in posts PROVE r.camera \in Cameras /\ r.seq \in Executed(r.camera)
    <2>1. r.camera \in Cameras
      BY DEF TypeOK, Result
    <2>2. [seq |-> r.seq, ok |-> r.ok] \in Range(executed[r.camera])
      BY DEF TruthInv, ResultsTruthful
    <2>3. PICK i \in DOMAIN executed[r.camera] :
            executed[r.camera][i] = [seq |-> r.seq, ok |-> r.ok]
      BY <2>2 DEF Range
    <2>4. executed[r.camera][i].seq = r.seq
      BY <2>3
    <2> QED
      BY <2>1, <2>4 DEF Executed
  <1>2. ASSUME NEW c \in Cameras, pc[c] = "executed" PROVE held[c].seq \in Executed(c)
    <2>1. PICK i \in DOMAIN executed[c] :
            executed[c][i] = [seq |-> held[c].seq, ok |-> Accepts(held[c].cmd)]
      BY <1>2 DEF TruthInv, Range
    <2>2. executed[c][i].seq = held[c].seq
      BY <2>1
    <2> QED
      BY <2>2 DEF Executed
  <1> QED
    BY <1>1, <1>2

LEMMA NextApart == TypeOK /\ OrderInv /\ IdleInv /\ Apart /\ [Next]_vars => Apart'
  <1> SUFFICES ASSUME TypeOK, OrderInv, IdleInv, Apart, [Next]_vars PROVE Apart'
    OBVIOUS
  <1>1. CASE UNCHANGED <<filed, executed>> /\ \A d \in Cameras : Waiting(d)' \subseteq Waiting(d)
    <2>1. \A d \in Cameras : Executed(d)' = Executed(d)
      BY <1>1 DEF Executed
    <2> QED
      BY <1>1, <2>1 DEF Apart
  <1>2. ASSUME NEW c \in Cameras, Execute(c) PROVE Apart'
    <2>1. \A d \in Cameras : Executed(d)' \cup Waiting(d)' = Executed(d) \cup Waiting(d)
      BY <1>2, ExecuteTakes
    <2> QED
      BY <2>1 DEF Apart
  <1>3. ASSUME NEW r \in filing, FileTask(r) PROVE Apart'
    <2>1. /\ r.camera \in Cameras
          /\ \A d \in Cameras : Executed(d)' = Executed(d)
          /\ \A d \in Cameras :
               Waiting(d)' = IF d = r.camera THEN Waiting(d) \cup {filed + 1} ELSE Waiting(d)
      BY <1>3, FileTaskAdds DEF FileTask, historyVars, Executed
    <2>2. \A d \in Cameras : filed + 1 \notin Executed(d) \cup Waiting(d)
      BY WaitingRange, SeqRanges
    <2> QED
      BY <2>1, <2>2 DEF Apart
  <1> QED
    BY <1>1, <1>2, <1>3, TaskFlow

LEMMA SavedFrame ==
  ASSUME SavedOnce, saved' = saved, posts' \subseteq posts,
         \A d \in Cameras : Executed(d) \subseteq Executed(d)',
         \A d \in Cameras : pc'[d] = "executed" => pc[d] = "executed" /\ held'[d] = held[d]
  PROVE  SavedOnce'
  BY DEF SavedOnce

LEMMA NextSavedOnce ==
  TypeOK /\ OrderInv /\ TruthInv /\ Apart /\ SavedOnce /\ [Next]_vars => SavedOnce'
  <1> SUFFICES ASSUME TypeOK, OrderInv, TruthInv, Apart, SavedOnce, [Next]_vars PROVE SavedOnce'
    OBVIOUS
  <1> USE DEF cameraVars, netVars, historyVars, storeVars
  <1>0. pc \in [Cameras -> {"loop", "polling", "received", "executed", "posting", "exited"}]
        /\ saved \in Seq(Nat)
    BY DEF TypeOK
  <1>1. CASE UNCHANGED <<saved, posts, executed, pc, held>>
    BY <1>1, SavedFrame DEF Executed
  <1>2. ASSUME NEW c \in Cameras, Execute(c) PROVE SavedOnce'
    <2>1. UNCHANGED <<saved, posts, held>> /\ pc' = [pc EXCEPT ![c] = "executed"]
      BY <1>2 DEF Execute, GoTo
    <2>2. /\ \A d \in Cameras : Executed(d) \subseteq Executed(d)'
          /\ held[c].seq \in Waiting(c) /\ held[c].seq \notin Executed(c)
      BY <1>2, ExecuteTakes
    <2>3. \A d \in Cameras : held[c].seq \notin Executed(d)
      BY <2>2 DEF Apart
    <2>4. held[c].seq \notin Range(saved) /\ \A r \in posts : r.seq # held[c].seq
      BY <2>3, PostedIsExecuted DEF SavedOnce
    <2> QED
      BY <1>0, <2>1, <2>2, <2>4 DEF SavedOnce
  <1>3. ASSUME NEW c \in Cameras, Finish(c) PROVE SavedOnce'
    <2>1. /\ UNCHANGED <<saved, executed, held>> /\ posts' = posts \cup {ResultOf(c)}
          /\ pc[c] = "executed" /\ pc' = [pc EXCEPT ![c] = "posting"]
      BY <1>3 DEF Finish, GoTo
    <2>2. ResultOf(c).seq = held[c].seq
      BY DEF ResultOf
    <2>3. \A d \in Cameras : Executed(d)' = Executed(d)
      BY <2>1 DEF Executed
    <2>4. \A d \in Cameras : pc'[d] = "executed" => d # c /\ pc[d] = "executed"
      BY <1>0, <2>1
    <2>5. \A d \in Cameras : d # c /\ pc[d] = "executed" => held[d].seq # held[c].seq
      BY <2>1, PostedIsExecuted DEF Apart
    <2> QED
      BY <2>1, <2>2, <2>3, <2>4, <2>5 DEF SavedOnce
  <1>4. ASSUME NEW r \in posts, ServePost(r) PROVE SavedOnce'
    <2>1. /\ UNCHANGED <<executed, held, pc>> /\ posts' = posts \ {r}
          /\ saved' = Append(saved, r.seq)
      BY <1>4 DEF ServePost
    <2>2. r.camera \in Cameras /\ r.seq \in Executed(r.camera) /\ r.seq \in Nat
      BY PostedIsExecuted DEF TypeOK, Result
    <2>3. Range(saved') = Range(saved) \cup {r.seq}
      <3>1. saved \in Seq(Nat) /\ r.seq \in Nat
        BY <2>2 DEF TypeOK
      <3>2. Range(Append(saved, r.seq)) = Range(saved) \cup {r.seq}
        BY <3>1, RangeAppend
      <3> QED
        BY <2>1, <3>2
    <2>4. \A d \in Cameras : Executed(d)' = Executed(d)
      BY <2>1 DEF Executed
    <2> QED
      BY <2>1, <2>2, <2>3, <2>4 DEF SavedOnce
  <1>5. ASSUME NEW c \in Cameras, Poll(c) \/ PollEmpty(c) \/ PollTask(c) \/ PollFails(c)
                                     \/ LoopExits(c) \/ PostOk(c) \/ PostFails(c)
        PROVE  SavedOnce'
    <2>1. UNCHANGED <<executed, saved>> /\ posts' \subseteq posts
      BY <1>5 DEF Poll, PollEmpty, PollTask, PollFails, LoopExits, PostOk, PostFails, Posted
    <2>2. \A d \in Cameras : pc'[d] = "executed" => pc[d] = "executed" /\ held'[d] = held[d]
      BY <1>5 DEF Poll, PollEmpty, PollTask, PollFails, LoopExits, PostOk, PostFails, Posted,
                  GoTo, TypeOK
    <2> QED
      BY <2>1, <2>2, SavedFrame DEF Executed
  <1>6. CASE RestartServer
    BY <1>6, SavedFrame DEF RestartServer, Executed
  <1>7. ASSUME NEW c \in Cameras, RebootAfterStop(c) \/ Crash(c) PROVE SavedOnce'
    <2>1. Reboot(c)
      BY <1>7 DEF RebootAfterStop, Crash
    <2>2. UNCHANGED <<executed, saved, posts>>
      BY <2>1 DEF Reboot
    <2>3. \A d \in Cameras : pc'[d] = "executed" => pc[d] = "executed" /\ held'[d] = held[d]
      BY <2>1 DEF Reboot, GoTo, TypeOK
    <2> QED
      BY <2>2, <2>3, SavedFrame DEF Executed
  <1>8. ASSUME NEW c \in Cameras,
               (\E cmd \in Commands : Submit(c, cmd)) \/ ServeGet(c) \/ ServeStaleGet(c)
                 \/ Stop(c) \/ StopReturns(c)
        PROVE  SavedOnce'
    <2>1. UNCHANGED <<saved, posts, executed, pc, held>>
      BY <1>8 DEF Submit, DrawId, ServeGet, ServeStaleGet, PopTask, Stop, StopReturns
    <2> QED
      BY <1>1, <2>1
  <1>9. ASSUME NEW r \in filing, FileTask(r) PROVE SavedOnce'
    BY <1>1, <1>9 DEF FileTask, Enqueue
  <1>10. CASE UNCHANGED vars
    BY <1>1, <1>10 DEF vars
  <1> QED
    BY <1>2, <1>3, <1>4, <1>5, <1>6, <1>7, <1>8, <1>9, <1>10 DEF Next

LEMMA InitReportInv == Init => ReportInv
  BY DEF Init, InitStore, ReportInv, Apart, SavedOnce, Executed, Waiting, Range, NoGet

-----------------------------------------------------------------------------
(* The refinement of the abstract task service.                            *)

LEMMA AppendMap ==
  ASSUME NEW S, NEW s \in Seq(S), NEW e \in S
  PROVE  [i \in DOMAIN Append(s, e) |-> Append(s, e)[i].seq]
           = Append([i \in DOMAIN s |-> s[i].seq], e.seq)
  <1> DEFINE f == [i \in DOMAIN s |-> s[i].seq]
             T == {s[i].seq : i \in DOMAIN s} \cup {e.seq}
  <1>1. /\ Append(s, e) \in Seq(S) /\ Len(Append(s, e)) = Len(s) + 1
        /\ \A i \in 1..Len(s) : Append(s, e)[i] = s[i]
        /\ Append(s, e)[Len(s) + 1] = e
        /\ Len(s) \in Nat /\ DOMAIN s = 1..Len(s)
    BY AppendProperties, LenProperties
  <1>2. DOMAIN Append(s, e) = 1..(Len(s) + 1)
    BY <1>1, LenProperties
  <1>3. f \in [1..Len(s) -> T]
    BY <1>1
  <1>4. f \in Seq(T) /\ Len(f) = Len(s)
    BY <1>1, <1>3, IsASeq, LenProperties
  <1>5. e.seq \in T /\ \A i \in 1..Len(s) : f[i] = s[i].seq
    BY <1>1
  <1> HIDE DEF f, T
  <1>6. /\ Append(f, e.seq) \in Seq(T) /\ Len(Append(f, e.seq)) = Len(s) + 1
        /\ \A i \in 1..Len(s) : Append(f, e.seq)[i] = s[i].seq
        /\ Append(f, e.seq)[Len(s) + 1] = e.seq
    BY <1>4, <1>5, AppendProperties
  <1>7. Append(f, e.seq) \in [1..(Len(s) + 1) -> T]
    BY <1>6, LenProperties
  <1>8. \A i \in 1..(Len(s) + 1) : i \in 1..Len(s) \/ i = Len(s) + 1
    BY <1>1
  <1>9. \A i \in 1..(Len(s) + 1) : Append(s, e)[i].seq = Append(f, e.seq)[i]
    BY <1>1, <1>6, <1>8
  <1>10. [i \in 1..(Len(s) + 1) |-> Append(s, e)[i].seq] = Append(f, e.seq)
    BY <1>7, <1>9
  <1> QED
    BY <1>2, <1>10 DEF f

LEMMA InitDelivery == Init => Delivery!Init
  <1> SUFFICES ASSUME Init PROVE Delivery!Init
    OBVIOUS
  <1>1. \A c \in Cameras : Waiting(c) = {} /\ executed[c] = << >>
    BY DEF Init, InitStore, Waiting, NoGet
  <1>2. \A c \in Cameras : [i \in DOMAIN executed[c] |-> executed[c][i].seq] = << >>
    BY <1>1
  <1> QED
    BY <1>1, <1>2 DEF Init, InitStore, Delivery!Init

\* A step that neither files nor executes a task nor saves a result may lose tasks.
LEMMA LoseStep ==
  ASSUME TypeOK, UNCHANGED <<filed, executed, saved>>,
         \A d \in Cameras : Waiting(d)' \subseteq Waiting(d)
  PROVE  Delivery!Lose
  <1>1. \A d \in Cameras : Waiting(d)' \subseteq Nat
    BY WaitingRange
  <1> QED
    BY <1>1 DEF Delivery!Lose

LEMMA FileStep ==
  ASSUME TypeOK, NEW r \in filing, FileTask(r)
  PROVE  \E c \in Cameras : Delivery!File(c)
  <1> DEFINE q == [c \in Cameras |-> Waiting(c)]
  <1>1. filed' = filed + 1 /\ UNCHANGED <<executed, saved>>
    BY DEF FileTask, Enqueue, historyVars
  <1>2. /\ r.camera \in Cameras
        /\ \A d \in Cameras :
             Waiting(d)' = IF d = r.camera THEN Waiting(d) \cup {filed + 1} ELSE Waiting(d)
    BY FileTaskAdds
  <1>3. q' = [q EXCEPT ![r.camera] = @ \cup {filed + 1}]
    BY <1>2
  <1>4. Delivery!File(r.camera)
    BY <1>1, <1>3 DEF Delivery!File
  <1> QED
    BY <1>2, <1>4

LEMMA PerformStep ==
  ASSUME TypeOK, OrderInv, NEW c \in Cameras, Execute(c)
  PROVE  Delivery!Perform(c)
  <1> DEFINE q == [d \in Cameras |-> Waiting(d)]
             p == [d \in Cameras |-> [i \in DOMAIN executed[d] |-> executed[d][i].seq]]
             e == [seq |-> held[c].seq, ok |-> Accepts(held[c].cmd)]
             S == [seq : Nat, ok : BOOLEAN]
  <1>1. UNCHANGED <<filed, saved>> /\ executed' = [executed EXCEPT ![c] = Append(@, e)]
    BY DEF Execute, storeVars
  <1>2. e \in S /\ e.seq = held[c].seq /\ executed[c] \in Seq(S) /\ c \in DOMAIN executed
    BY SeqRanges DEF Accepts, TypeOK
  <1> HIDE DEF e, S
  <1>3. /\ held[c].seq \in Waiting(c) /\ \A u \in Waiting(c) : held[c].seq <= u
        /\ \A d \in Cameras :
             Waiting(d)' = IF d = c THEN Waiting(c) \ {held[c].seq} ELSE Waiting(d)
    BY ExecuteTakes
  <1>4. q' = [q EXCEPT ![c] = @ \ {held[c].seq}]
    BY <1>3
  <1>5. p' = [p EXCEPT ![c] = Append(@, held[c].seq)]
    <2>1. executed'[c] = Append(executed[c], e) /\ \A d \in Cameras : d # c => executed'[d] = executed[d]
      BY <1>1, <1>2
    <2>2. [i \in DOMAIN executed'[c] |-> executed'[c][i].seq]
            = Append([i \in DOMAIN executed[c] |-> executed[c][i].seq], held[c].seq)
      BY <1>2, <2>1, AppendMap
    <2> QED
      BY <2>1, <2>2
  <1>6. held[c].seq \in q[c] /\ \A u \in q[c] : held[c].seq <= u
    BY <1>3
  <1> QED
    BY <1>1, <1>4, <1>5, <1>6, Zenon DEF Delivery!Perform

LEMMA ReportStep ==
  ASSUME TypeOK, TruthInv, IdleInv, SavedOnce, NEW r \in posts, ServePost(r)
  PROVE  \E c \in Cameras : Delivery!Report(c)
  <1> DEFINE q == [d \in Cameras |-> Waiting(d)]
             p == [d \in Cameras |-> [i \in DOMAIN executed[d] |-> executed[d][i].seq]]
  <1>1. UNCHANGED <<filed, executed>> /\ saved' = Append(saved, r.seq)
    BY DEF ServePost, SaveResult
  <1>2. r.camera \in Cameras /\ r.seq \in Executed(r.camera) /\ r.seq \notin Range(saved)
    BY PostedIsExecuted DEF SavedOnce
  <1>3. r.seq \in Range(p[r.camera])
    BY <1>2 DEF Executed, Range
  <1>4. q' = q /\ p' = p
    <2>1. \A d \in Cameras : Waiting(d)' = Waiting(d)
      BY OtherStepsKeep
    <2> QED
      BY <1>1, <2>1
  <1>5. Delivery!Report(r.camera)
    BY <1>1, <1>2, <1>3, <1>4, Zenon DEF Delivery!Report, Range, Delivery!Range
  <1> QED
    BY <1>2, <1>5

LEMMA NextDelivery ==
  TypeOK /\ OrderInv /\ TruthInv /\ IdleInv /\ ReportInv /\ [Next]_vars
    => [Delivery!Next]_(Delivery!vars)
  <1> SUFFICES ASSUME TypeOK, OrderInv, TruthInv, IdleInv, ReportInv, [Next]_vars
               PROVE  Delivery!Next
    OBVIOUS
  <1>1. ASSUME NEW r \in filing, FileTask(r) PROVE Delivery!Next
    BY <1>1, FileStep DEF Delivery!Next
  <1>2. ASSUME NEW c \in Cameras, Execute(c) PROVE Delivery!Next
    BY <1>2, PerformStep DEF Delivery!Next
  <1>3. ASSUME NEW r \in posts, ServePost(r) PROVE Delivery!Next
    BY <1>3, ReportStep DEF Delivery!Next, ReportInv
  <1>4. ASSUME UNCHANGED <<filed, executed>>, UNCHANGED saved,
               \A d \in Cameras : Waiting(d)' \subseteq Waiting(d)
        PROVE  Delivery!Next
    BY <1>4, LoseStep DEF Delivery!Next
  <1>5. (\E r \in posts : ServePost(r)) \/ UNCHANGED saved
    BY DEF Next, Submit, FileTask, ServeGet, ServeStaleGet, Poll, PollEmpty, PollTask, PollFails,
           Execute, Finish, PostOk, PostFails, Posted, LoopExits, Stop, StopReturns,
           RebootAfterStop, Crash, Reboot, RestartServer, historyVars, vars
  <1> QED
    BY <1>1, <1>2, <1>3, <1>4, <1>5, TaskFlow

\* Server, network and pollers together implement the abstract task service: the
\* tasks of a camera are performed at most once and in filing order, a lost task
\* never comes back, and a result is saved at most once, of a performed task.
THEOREM ImplementsDelivery == Spec => DeliversTasks
  <1>1. TypeOK /\ OrderInv /\ IdleInv /\ TruthInv /\ ReportInv /\ [Next]_vars => ReportInv'
    BY NextApart, NextSavedOnce DEF ReportInv
  <1> QED
    BY <1>1, InitDelivery, NextDelivery, InitOrderInv, NextOrderInv, InitTruthInv, NextTruthInv,
       InitIdleInv, NextIdleInv, InitReportInv, TypeCorrect, PTL
    DEF Spec, DeliversTasks, Delivery!Spec

-----------------------------------------------------------------------------
(* The bound on losses.                                                    *)

LEMMA SubsetCardinality ==
  ASSUME NEW S, IsFiniteSet(S), NEW T, T \subseteq S
  PROVE  /\ IsFiniteSet(T) /\ Cardinality(T) <= Cardinality(S)
         /\ Cardinality(S) \in Nat /\ Cardinality(T) \in Nat
  BY FS_Subset, FS_CardinalityType

LEMMA OneMore ==
  ASSUME NEW S, IsFiniteSet(S), NEW x, NEW T, T \subseteq S \cup {x}
  PROVE  /\ IsFiniteSet(T) /\ Cardinality(T) <= Cardinality(S) + 1
         /\ Cardinality(S) \in Nat /\ Cardinality(T) \in Nat
  <1>1. IsFiniteSet(S \cup {x}) /\ Cardinality(S \cup {x}) <= Cardinality(S) + 1
    <2>1. Cardinality(S) \in Nat
      BY FS_CardinalityType
    <2>2. /\ IsFiniteSet(S \cup {x})
          /\ Cardinality(S \cup {x}) = IF x \in S THEN Cardinality(S) ELSE Cardinality(S) + 1
      BY FS_AddElement
    <2> QED
      BY <2>1, <2>2
  <1>2. Cardinality(S \cup {x}) \in Nat /\ Cardinality(S) \in Nat
    BY <1>1, FS_CardinalityType
  <1> QED
    BY <1>1, <1>2, SubsetCardinality

LEMMA OneLess ==
  ASSUME NEW S, IsFiniteSet(S), NEW x \in S, NEW T, T \subseteq S \ {x}
  PROVE  /\ IsFiniteSet(T) /\ Cardinality(T) + 1 <= Cardinality(S)
         /\ Cardinality(S) \in Nat /\ Cardinality(T) \in Nat
  <1>1. IsFiniteSet(S \ {x}) /\ Cardinality(S \ {x}) = Cardinality(S) - 1
    BY FS_RemoveElement
  <1>2. Cardinality(S \ {x}) \in Nat /\ Cardinality(S) \in Nat
    BY <1>1, FS_CardinalityType
  <1> QED
    BY <1>1, <1>2, SubsetCardinality

\* A task is lost only by leaving `Executed` and `Waiting`.
LEMMA LostWithin ==
  ASSUME NEW X, filed' = filed, wiped \subseteq wiped',
         \A c \in Cameras :
           Executed(c) \cup Waiting(c) \subseteq Executed(c)' \cup Waiting(c)' \cup wiped' \cup X
  PROVE  Lost' \subseteq Lost \cup X
  <1> SUFFICES ASSUME NEW x \in Lost', x \notin X PROVE x \in Lost
    OBVIOUS
  <1>1. x \in 1..filed /\ x \notin wiped /\ \A c \in Cameras : x \notin Executed(c) \cup Waiting(c)
    BY DEF Lost
  <1> QED
    BY <1>1 DEF Lost

LEMMA AbandonedMembers == \A p : p \in Abandoned <=> \E c \in Cameras : \E k \in 1..stale[c] : p = <<c, k>>
  BY DEF Abandoned

\* A GET that its client forsakes can cost a task only if the server has it.
LEMMA ForsakeAbandons ==
  ASSUME TypeOK, NEW c \in Cameras, Forsake(c)
  PROVE  /\ Abandoned' \subseteq Abandoned \cup {<<c, stale[c] + 1>>}
         /\ get[c].st # "sent" => Abandoned' = Abandoned
  <1>1. CASE stale' = stale
    BY <1>1 DEF Abandoned
  <1>2. CASE get[c].st = "sent" /\ stale' = [stale EXCEPT ![c] = @ + 1]
    <2>1. \A d \in Cameras : stale'[d] = IF d = c THEN stale[d] + 1 ELSE stale[d]
      BY <1>2 DEF TypeOK
    <2>2. stale[c] \in Nat
      BY DEF TypeOK
    <2>3. ASSUME NEW d \in Cameras, NEW k \in 1..stale'[d]
          PROVE  <<d, k>> \in Abandoned \cup {<<c, stale[c] + 1>>}
      <3>1. k \in 1..stale[d] \/ (d = c /\ k = stale[c] + 1)
        BY <2>1, <2>2
      <3> QED
        BY <3>1, AbandonedMembers
    <2>4. Abandoned' \subseteq Abandoned \cup {<<c, stale[c] + 1>>}
      <3> SUFFICES ASSUME NEW p \in Abandoned' PROVE p \in Abandoned \cup {<<c, stale[c] + 1>>}
        OBVIOUS
      <3>1. PICK d \in Cameras : \E k \in 1..stale'[d] : p = <<d, k>>
        BY DEF Abandoned
      <3> QED
        BY <2>3, <3>1
    <2> QED
      BY <1>2, <2>4
  <1> QED
    BY <1>1, <1>2 DEF Forsake

LEMMA HandledNoLonger ==
  ASSUME TypeOK, NEW c \in Cameras, ServeStaleGet(c)
  PROVE  <<c, stale[c]>> \in Abandoned /\ Abandoned' \subseteq Abandoned \ {<<c, stale[c]>>}
  <1>1. stale[c] \in Nat /\ stale[c] > 0
    BY DEF TypeOK, ServeStaleGet
  <1>2. \A d \in Cameras : stale'[d] = IF d = c THEN stale[d] - 1 ELSE stale[d]
    BY DEF TypeOK, ServeStaleGet
  <1>3. <<c, stale[c]>> \in Abandoned
    <2>1. stale[c] \in 1..stale[c]
      BY <1>1
    <2> QED
      BY <2>1, AbandonedMembers
  <1>4. ASSUME NEW p \in Abandoned' PROVE p \in Abandoned \ {<<c, stale[c]>>}
    <2>1. PICK d \in Cameras : \E k \in 1..stale'[d] : p = <<d, k>>
      BY <1>4 DEF Abandoned
    <2>2. PICK k \in 1..stale'[d] : p = <<d, k>>
      BY <2>1
    <2>3. k \in 1..stale[d] /\ (d = c => k # stale[c])
      BY <1>1, <1>2, <2>2
    <2> QED
      BY <2>2, <2>3, AbandonedMembers
  <1> QED
    BY <1>3, <1>4

\* What the end of a request or of a process costs: one task, or one abandoned
\* GET, and nothing when it carries no task and the server has not got it.
LEMMA DropCosts ==
  ASSUME TypeOK, OrderInv, IdleInv, NEW c \in Cameras, PollFails(c) \/ Reboot(c)
  PROVE  /\ \E x : \/ Lost' \subseteq Lost \cup {x} /\ Abandoned' \subseteq Abandoned
                   \/ Lost' \subseteq Lost /\ Abandoned' \subseteq Abandoned \cup {x}
         /\ get[c].task = NoTask /\ get[c].st # "sent" /\ pc[c] # "received" =>
              Lost' \subseteq Lost /\ Abandoned' \subseteq Abandoned
  <1>1. UNCHANGED <<filed, wiped, executed>> /\ Forsake(c)
    BY DEF PollFails, Reboot, storeVars, historyVars
  <1>2. \A d \in Cameras : Executed(d)' = Executed(d)
    BY <1>1 DEF Executed
  <1>3. get[c].task = NoTask /\ pc[c] # "received" => Lost' \subseteq Lost \cup {}
    BY <1>1, <1>2, DropLoses, LostWithin
  <1>4. PICK x : \A d \in Cameras : Waiting(d) \subseteq Waiting(d)' \cup {x}
    BY DropLoses
  <1>5. Lost' \subseteq Lost \cup {x}
    BY <1>1, <1>2, <1>4, LostWithin
  <1>6. CASE get[c].st = "sent"
    <2>1. get[c].task = NoTask /\ pc[c] # "received"
      BY <1>6 DEF IdleInv, IdleOK, NoGet
    <2>2. Lost' \subseteq Lost /\ Abandoned' \subseteq Abandoned \cup {<<c, stale[c] + 1>>}
      BY <1>1, <1>3, <2>1, ForsakeAbandons
    <2> QED
      BY <1>6, <2>2
  <1>7. CASE get[c].st # "sent"
    <2>1. Abandoned' = Abandoned
      BY <1>1, <1>7, ForsakeAbandons
    <2> QED
      BY <1>3, <1>5, <1>7, <2>1
  <1> QED
    BY <1>6, <1>7

LEMMA LossFrame ==
  ASSUME TypeOK, LossInv, faults' \in Nat, faults' >= faults,
         Lost' \subseteq Lost, Abandoned' \subseteq Abandoned, Doomed' \subseteq Doomed
  PROVE  LossInv'
  <1>1. /\ IsFiniteSet(Lost') /\ IsFiniteSet(Abandoned') /\ IsFiniteSet(Doomed')
        /\ Cardinality(Lost') <= Cardinality(Lost)
        /\ Cardinality(Abandoned') <= Cardinality(Abandoned)
        /\ Cardinality(Doomed') <= Cardinality(Doomed)
        /\ Cardinality(Lost) \in Nat /\ Cardinality(Abandoned) \in Nat /\ Cardinality(Doomed) \in Nat
        /\ Cardinality(Lost') \in Nat /\ Cardinality(Abandoned') \in Nat
        /\ Cardinality(Doomed') \in Nat
    BY SubsetCardinality DEF LossInv
  <1>2. faults \in Nat
    BY DEF TypeOK
  <1> QED
    BY <1>1, <1>2 DEF LossInv

\* One loss and one payment: a fault, a request abandoned, or a doomed process.
LEMMA LossPaid ==
  ASSUME TypeOK, LossInv, faults' \in Nat, NEW x,
         \/ /\ Lost' \subseteq Lost \cup {x} /\ Abandoned' \subseteq Abandoned
            /\ faults' = faults + 1 /\ Doomed' \subseteq Doomed
         \/ /\ Lost' \subseteq Lost /\ Abandoned' \subseteq Abandoned \cup {x}
            /\ faults' = faults + 1 /\ Doomed' \subseteq Doomed
         \/ /\ Lost' \subseteq Lost /\ Abandoned' \subseteq Abandoned
            /\ faults' = faults + 1 /\ Doomed' \subseteq Doomed \cup {x}
         \/ /\ Lost' \subseteq Lost \cup {x} /\ faults' = faults /\ Doomed' \subseteq Doomed
            /\ \E y \in Abandoned : Abandoned' \subseteq Abandoned \ {y}
         \/ /\ Lost' \subseteq Lost \cup {x} /\ Abandoned' \subseteq Abandoned /\ faults' = faults
            /\ \E y \in Doomed : Doomed' \subseteq Doomed \ {y}
         \/ /\ Lost' \subseteq Lost /\ Abandoned' \subseteq Abandoned \cup {x} /\ faults' = faults
            /\ \E y \in Doomed : Doomed' \subseteq Doomed \ {y}
  PROVE  LossInv'
  <1> DEFINE Grown(S, T) == /\ IsFiniteSet(T) /\ Cardinality(T) <= Cardinality(S) + 1
                            /\ Cardinality(S) \in Nat /\ Cardinality(T) \in Nat
             Kept(S, T)  == /\ IsFiniteSet(T) /\ Cardinality(T) <= Cardinality(S)
                            /\ Cardinality(S) \in Nat /\ Cardinality(T) \in Nat
             Shrunk(S, T) == /\ IsFiniteSet(T) /\ Cardinality(T) + 1 <= Cardinality(S)
                             /\ Cardinality(S) \in Nat /\ Cardinality(T) \in Nat
  <1>1. IsFiniteSet(Lost) /\ IsFiniteSet(Abandoned) /\ IsFiniteSet(Doomed) /\ faults \in Nat
    BY DEF LossInv, TypeOK
  <1>2. /\ Lost' \subseteq Lost => Kept(Lost, Lost')
        /\ Abandoned' \subseteq Abandoned => Kept(Abandoned, Abandoned')
        /\ Doomed' \subseteq Doomed => Kept(Doomed, Doomed')
    BY <1>1, SubsetCardinality
  <1>3. /\ Lost' \subseteq Lost \cup {x} => Grown(Lost, Lost')
        /\ Abandoned' \subseteq Abandoned \cup {x} => Grown(Abandoned, Abandoned')
        /\ Doomed' \subseteq Doomed \cup {x} => Grown(Doomed, Doomed')
    BY <1>1, OneMore
  <1>4. /\ (\E y \in Abandoned : Abandoned' \subseteq Abandoned \ {y}) => Shrunk(Abandoned, Abandoned')
        /\ (\E y \in Doomed : Doomed' \subseteq Doomed \ {y}) => Shrunk(Doomed, Doomed')
    BY <1>1, OneLess
  <1>5. \/ Grown(Lost, Lost') /\ Kept(Abandoned, Abandoned') /\ Kept(Doomed, Doomed') /\ faults' = faults + 1
        \/ Kept(Lost, Lost') /\ Grown(Abandoned, Abandoned') /\ Kept(Doomed, Doomed') /\ faults' = faults + 1
        \/ Kept(Lost, Lost') /\ Kept(Abandoned, Abandoned') /\ Grown(Doomed, Doomed') /\ faults' = faults + 1
        \/ Grown(Lost, Lost') /\ Shrunk(Abandoned, Abandoned') /\ Kept(Doomed, Doomed') /\ faults' = faults
        \/ Grown(Lost, Lost') /\ Kept(Abandoned, Abandoned') /\ Shrunk(Doomed, Doomed') /\ faults' = faults
        \/ Kept(Lost, Lost') /\ Grown(Abandoned, Abandoned') /\ Shrunk(Doomed, Doomed') /\ faults' = faults
    <2> HIDE DEF Grown, Kept, Shrunk
    <2> QED
      BY <1>2, <1>3, <1>4, Zenon
  <1> QED
    BY <1>1, <1>5 DEF LossInv

LEMMA InitLossInv == Init => LossInv
  <1> SUFFICES ASSUME Init PROVE LossInv
    OBVIOUS
  <1>1. Lost = {}
    BY DEF Init, InitStore, Lost
  <1>2. Abandoned = {} /\ Doomed = {}
    BY DEF Init, Abandoned, Doomed
  <1> QED
    BY <1>1, <1>2, FS_EmptySet DEF Init, LossInv

LEMMA NothingLost ==
  ASSUME filed' = filed, executed' = executed, wiped \subseteq wiped',
         \A d \in Cameras : Waiting(d) \subseteq Waiting(d)' \cup wiped'
  PROVE  Lost' \subseteq Lost
  <1>1. \A d \in Cameras : Executed(d)' = Executed(d)
    BY DEF Executed
  <1>2. Lost' \subseteq Lost \cup {}
    BY <1>1, LostWithin
  <1> QED
    BY <1>2

LEMMA NextLossInv == TypeOK /\ OrderInv /\ IdleInv /\ LossInv /\ [Next]_vars => LossInv'
  <1> SUFFICES ASSUME TypeOK, OrderInv, IdleInv, LossInv, [Next]_vars PROVE LossInv'
    OBVIOUS
  <1> USE DEF cameraVars, netVars, historyVars, storeVars
  <1>0. faults \in Nat /\ faults + 1 \in Nat /\ faults + 1 >= faults
    BY DEF TypeOK
  <1>1. ASSUME UNCHANGED <<stale, stopped>>, faults' \in Nat, faults' >= faults, Lost' \subseteq Lost
        PROVE  LossInv'
    <2>1. Abandoned' = Abandoned /\ Doomed' = Doomed
      BY <1>1 DEF Abandoned, Doomed
    <2> QED
      BY <1>1, <2>1, LossFrame
  <1>2. ASSUME NEW c \in Cameras, \/ \E cmd \in Commands : Submit(c, cmd)
                                  \/ Poll(c) \/ PollEmpty(c) \/ Finish(c) \/ PostOk(c) \/ PostFails(c)
                                  \/ LoopExits(c) \/ Stop(c)
        PROVE  LossInv'
    <2>1. UNCHANGED <<stale, stopped, wiped>> /\ faults' \in {faults, faults + 1}
      BY <1>2 DEF Submit, DrawId, Poll, PollEmpty, Finish, PostOk, PostFails, Posted, Fault,
                  LoopExits, Stop
    <2>2. UNCHANGED <<filed, executed>> /\ \A d \in Cameras : Waiting(d)' = Waiting(d)
      BY <1>2, OtherStepsKeep
    <2>3. Lost' \subseteq Lost
      BY <2>1, <2>2, NothingLost
    <2> QED
      BY <1>0, <1>1, <2>1, <2>3
  <1>3. ASSUME (\E r \in posts : ServePost(r)) \/ UNCHANGED vars PROVE LossInv'
    <2>1. UNCHANGED <<stale, stopped, wiped, faults>>
      BY <1>3 DEF ServePost, vars
    <2>2. UNCHANGED <<filed, executed>> /\ \A d \in Cameras : Waiting(d)' = Waiting(d)
      BY <1>3, OtherStepsKeep
    <2>3. Lost' \subseteq Lost
      BY <2>1, <2>2, NothingLost
    <2> QED
      BY <1>0, <1>1, <2>1, <2>3
  <1>4. ASSUME NEW c \in Cameras, ServeGet(c) \/ PollTask(c) PROVE LossInv'
    <2>1. UNCHANGED <<stale, stopped, wiped, faults, filed, executed>>
      BY <1>4 DEF ServeGet, PopTask, PollTask
    <2>2. \A d \in Cameras : Waiting(d)' = Waiting(d)
      BY <1>4, ServeGetKeeps, PollTaskKeeps
    <2>3. Lost' \subseteq Lost
      BY <2>1, <2>2, NothingLost
    <2> QED
      BY <1>0, <1>1, <2>1, <2>3
  <1>5. ASSUME NEW c \in Cameras, ServeStaleGet(c) PROVE LossInv'
    <2>1. UNCHANGED <<stopped, wiped, faults, filed, executed>>
      BY <1>5 DEF ServeStaleGet, PopTask
    <2>2. PICK x : \A d \in Cameras : Waiting(d) \subseteq Waiting(d)' \cup {x}
      BY <1>5, ServeStaleGetLoses
    <2>3. \A d \in Cameras : Executed(d)' = Executed(d)
      BY <2>1 DEF Executed
    <2>4. Lost' \subseteq Lost \cup {x} /\ Doomed' = Doomed
      BY <2>1, <2>2, <2>3, LostWithin DEF Doomed
    <2>5. \E y \in Abandoned : Abandoned' \subseteq Abandoned \ {y}
      BY <1>5, HandledNoLonger
    <2> QED
      BY <1>0, <2>1, <2>4, <2>5, LossPaid
  <1>6. ASSUME NEW c \in Cameras, Execute(c) PROVE LossInv'
    <2>1. UNCHANGED <<stale, stopped, wiped, faults, filed>>
      BY <1>6 DEF Execute
    <2>2. \A d \in Cameras : Executed(d) \cup Waiting(d) \subseteq Executed(d)' \cup Waiting(d)'
      BY <1>6, ExecuteTakes
    <2>3. Lost' \subseteq Lost \cup {}
      BY <2>1, <2>2, LostWithin
    <2> QED
      BY <1>0, <1>1, <2>1, <2>3
  <1>7. ASSUME NEW r \in filing, FileTask(r) PROVE LossInv'
    <2>1. UNCHANGED <<stale, stopped, wiped, faults, executed>> /\ filed' = filed + 1 /\ filed \in Nat
      BY <1>7 DEF FileTask, Enqueue, TypeOK, StoreTypeOK
    <2>2. /\ r.camera \in Cameras
          /\ \A d \in Cameras :
               Waiting(d)' = IF d = r.camera THEN Waiting(d) \cup {filed + 1} ELSE Waiting(d)
      BY <1>7, FileTaskAdds
    <2>3. \A d \in Cameras : Executed(d)' = Executed(d)
      BY <2>1 DEF Executed
    <2>4. ASSUME NEW x \in Lost' PROVE x \in Lost
      <3>1. /\ x \in 1..(filed + 1) /\ x \notin wiped
            /\ \A d \in Cameras : x \notin Executed(d) /\ x \notin Waiting(d)'
        BY <2>1, <2>3, <2>4 DEF Lost
      <3>2. x # filed + 1
        BY <2>2, <3>1
      <3>3. x \in 1..filed
        BY <2>1, <3>1, <3>2
      <3> QED
        BY <2>2, <3>1, <3>3 DEF Lost
    <2> QED
      BY <1>0, <1>1, <2>1, <2>4
  <1>8. CASE RestartServer
    <2>1. UNCHANGED <<stopped, faults, filed, executed>> /\ wiped \subseteq wiped'
      BY <1>8 DEF RestartServer, ResetStore
    <2>2. \A d \in Cameras : Waiting(d) \subseteq Waiting(d)' \cup wiped'
      BY <1>8, RestartEmpties
    <2>3. Lost' \subseteq Lost
      BY <2>1, <2>2, NothingLost
    <2>4. Abandoned' = {} /\ Doomed' = Doomed
      BY <1>8, <2>1 DEF RestartServer, Abandoned, Doomed
    <2> QED
      BY <1>0, <2>1, <2>3, <2>4, LossFrame
  <1>9. ASSUME NEW c \in Cameras, PollFails(c) PROVE LossInv'
    <2>1. Doomed' = Doomed
      BY <1>9 DEF PollFails, Doomed
    <2>2. CASE get[c].st = "broken"
      <3>1. get[c].task = NoTask /\ get[c].st # "sent" /\ pc[c] # "received" /\ faults' = faults
        BY <1>9, <2>2 DEF PollFails, Fault, IdleInv, IdleOK
      <3>2. Lost' \subseteq Lost /\ Abandoned' \subseteq Abandoned
        BY <1>9, <3>1, DropCosts
      <3> QED
        BY <1>0, <2>1, <3>1, <3>2, LossFrame
    <2>3. CASE get[c].st # "broken"
      <3>1. faults' = faults + 1
        BY <1>9, <2>3 DEF PollFails, Fault
      <3> QED
        BY <1>0, <1>9, <2>1, <3>1, DropCosts, LossPaid
    <2> QED
      BY <2>2, <2>3
  <1>10. ASSUME NEW c \in Cameras, Reboot(c) PROVE Doomed' \subseteq Doomed \ {c}
    BY <1>10 DEF Reboot, Doomed, TypeOK
  <1>11. ASSUME NEW c \in Cameras, Crash(c) PROVE LossInv'
    <2>1. faults' = faults + 1 /\ Reboot(c)
      BY <1>11 DEF Crash, Fault
    <2>2. Doomed' \subseteq Doomed
      BY <1>10, <2>1
    <2> QED
      BY <1>0, <2>1, <2>2, DropCosts, LossPaid
  <1>12. ASSUME NEW c \in Cameras, RebootAfterStop(c) PROVE LossInv'
    <2>1. Reboot(c) /\ faults' = faults /\ stopped[c] \in {"joined", "abandoned"}
      BY <1>12 DEF RebootAfterStop, TypeOK
    <2>2. CASE stopped[c] = "abandoned"
      <3>1. c \in Doomed /\ Doomed' \subseteq Doomed \ {c}
        BY <1>10, <2>1, <2>2 DEF Doomed
      <3> QED
        BY <1>0, <2>1, <3>1, DropCosts, LossPaid
    <2>3. CASE stopped[c] = "joined"
      <3>1. get[c] = NoGet /\ pc[c] = "exited"
        BY <2>3 DEF IdleInv, IdleOK
      <3>2. Lost' \subseteq Lost /\ Abandoned' \subseteq Abandoned
        BY <2>1, <3>1, DropCosts DEF NoGet
      <3>3. Doomed' \subseteq Doomed
        BY <1>10, <2>1
      <3> QED
        BY <1>0, <2>1, <3>2, <3>3, LossFrame
    <2> QED
      BY <2>1, <2>2, <2>3
  <1>13. ASSUME NEW c \in Cameras, StopReturns(c) PROVE LossInv'
    <2>1. UNCHANGED <<stale, wiped>>
      BY <1>13 DEF StopReturns
    <2>2. UNCHANGED <<filed, executed>> /\ \A d \in Cameras : Waiting(d)' = Waiting(d)
      BY <1>13, OtherStepsKeep
    <2>3. Lost' \subseteq Lost /\ Abandoned' = Abandoned
      BY <2>1, <2>2, NothingLost DEF Abandoned
    <2>4. \/ faults' = faults /\ stopped' = [stopped EXCEPT ![c] = "joined"]
          \/ faults' = faults + 1 /\ stopped' = [stopped EXCEPT ![c] = "abandoned"]
      BY <1>13 DEF StopReturns, Fault
    <2>5. CASE faults' = faults /\ stopped' = [stopped EXCEPT ![c] = "joined"]
      <3>1. Doomed' \subseteq Doomed
        BY <2>5 DEF Doomed, TypeOK
      <3> QED
        BY <1>0, <2>3, <2>5, <3>1, LossFrame
    <2>6. CASE faults' = faults + 1 /\ stopped' = [stopped EXCEPT ![c] = "abandoned"]
      <3>1. Doomed' \subseteq Doomed \cup {c}
        BY <2>6 DEF Doomed, TypeOK
      <3> QED
        BY <1>0, <2>3, <2>6, <3>1, LossPaid
    <2> QED
      BY <2>4, <2>5, <2>6
  <1> QED
    BY <1>2, <1>3, <1>4, <1>5, <1>6, <1>7, <1>8, <1>9, <1>11, <1>12, <1>13 DEF Next

\* However requests fail, processes die and stops are left waiting, each fault
\* costs at most one task; a stop that its thread answers costs none.
THEOREM LossesArePaid == Spec => []LossBound
  <1>1. TypeOK /\ LossInv => LossBound
    <2> SUFFICES ASSUME TypeOK, LossInv PROVE LossBound
      OBVIOUS
    <2>1. /\ Cardinality(Lost) \in Nat /\ Cardinality(Abandoned) \in Nat
          /\ Cardinality(Doomed) \in Nat /\ faults \in Nat
      BY FS_CardinalityType DEF LossInv, TypeOK
    <2> QED
      BY <2>1 DEF LossInv, LossBound
  <1> QED
    BY <1>1, InitOrderInv, NextOrderInv, InitIdleInv, NextIdleInv, InitLossInv, NextLossInv,
       TypeCorrect, PTL DEF Spec

\* The invariants together, as the model checker checks them.
THEOREM ControlInvariant == Spec => []ControlInv
  <1>1. TypeOK /\ OrderInv /\ TruthInv /\ IdleInv /\ ReportInv /\ LossInv => ControlInv
    BY DEF ControlInv
  <1>2. TypeOK /\ OrderInv /\ IdleInv /\ TruthInv /\ ReportInv /\ [Next]_vars => ReportInv'
    BY NextApart, NextSavedOnce DEF ReportInv
  <1> QED
    BY <1>1, <1>2, InitOrderInv, NextOrderInv, InitTruthInv, NextTruthInv, InitIdleInv, NextIdleInv,
       InitReportInv, InitLossInv, NextLossInv, TypeCorrect, PTL DEF Spec
=============================================================================
