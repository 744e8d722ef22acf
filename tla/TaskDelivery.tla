---------------------------- MODULE TaskDelivery ----------------------------
(***************************************************************************)
(* What the control plane promises the operator of a camera, without the   *)
(* server, the network or the poller: tasks filed for a camera are         *)
(* performed at most once and in the order they were filed, tasks may be   *)
(* lost before they are performed but never come back, and a result is     *)
(* reported at most once and only for a task that was performed.  A task   *)
(* is its number: the first one filed is 1.                                *)
(***************************************************************************)
EXTENDS Naturals, Sequences, Functions

CONSTANT Cameras

VARIABLES filed,      \* number of tasks filed, the last one's number
          queue,      \* per camera, the set of tasks filed and not yet performed
          performed,  \* per camera, the tasks performed, in that order
          reported    \* the tasks whose result was saved, in that order

vars == <<filed, queue, performed, reported>>

Init ==
  /\ filed = 0
  /\ queue = [c \in Cameras |-> {}]
  /\ performed = [c \in Cameras |-> << >>]
  /\ reported = << >>

File(c) ==
  /\ filed' = filed + 1
  /\ queue' = [queue EXCEPT ![c] = @ \cup {filed + 1}]
  /\ UNCHANGED <<performed, reported>>

\* The oldest task the camera still has.
Perform(c) ==
  \E t \in queue[c] :
    /\ \A u \in queue[c] : t <= u
    /\ queue' = [queue EXCEPT ![c] = @ \ {t}]
    /\ performed' = [performed EXCEPT ![c] = Append(@, t)]
    /\ UNCHANGED <<filed, reported>>

\* Any tasks may vanish; none appears.
Lose ==
  /\ queue' \in [Cameras -> SUBSET Nat]
  /\ \A c \in Cameras : queue'[c] \subseteq queue[c]
  /\ UNCHANGED <<filed, performed, reported>>

Report(c) ==
  /\ \E t \in Range(performed[c]) \ Range(reported) : reported' = Append(reported, t)
  /\ UNCHANGED <<filed, queue, performed>>

Next == Lose \/ \E c \in Cameras : File(c) \/ Perform(c) \/ Report(c)

Spec == Init /\ [][Next]_vars
=============================================================================
