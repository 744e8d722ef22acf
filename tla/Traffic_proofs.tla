---------------------------- MODULE Traffic_proofs ----------------------------
(***************************************************************************)
(* Proofs about the camera's own traffic, for any cameras, times, targets  *)
(* and ports.  The beacon threads: which TTL is long enough for an         *)
(* interval and a timeout, and what an alive row means.  The infected-scan *)
(* worker: what its counters, its files and its rotation tell.  The        *)
(* scenario generator: what its plan covers and its labels record.         *)
(***************************************************************************)
EXTENDS Heartbeat, Recon, ScenarioTraffic, WellFoundedInduction, SequenceTheorems, FiniteSetTheorems, TLAPS

\* Min of the community modules is an element of its set, which need not be
\* finite.
LEMMA MinIsLeast ==
  ASSUME NEW S, S \subseteq Nat, S # {}
  PROVE  Min(S) \in S
  <1> DEFINE Less == {pair \in Nat \X Nat : pair[1] < pair[2]}
  <1>1. IsWellFoundedOn(Less, Nat)
    BY NatLessThanWellFounded, Zenon DEF OpToRel
  <1>2. PICK x \in S : \A y \in S : ~ (<<y, x>> \in Less)
    <2> HIDE DEF Less
    <2> QED
      BY <1>1, WFMin
  <1>3. \A y \in S : x <= y
    <2>1. TAKE y \in S
    <2>2. x \in Nat /\ y \in Nat
      OBVIOUS
    <2>3. ~ (y < x)
      BY <1>2, <2>2
    <2> QED
      BY <2>2, <2>3
  <1> QED
    BY <1>3 DEF Min

\* A TTL that covers two intervals and three requests.  The defaults 10, 3 and
\* 30 satisfy it with one second to spare.
TimesSuffice == 2 * Interval + 3 * Timeout <= Ttl

\* What is assumed of the times and the limit.
LEMMA Constants ==
  /\ Interval \in Nat \ {0} /\ Timeout \in Nat \ {0} /\ Ttl \in Nat \ {0}
  /\ Limit \in Nat \ {0} /\ Registered \subseteq Cameras
  BY HeartbeatAssumption

-----------------------------------------------------------------------------
(* What is inductive.                                                      *)

\* The state of the threads and of what is remembered of their beacons.
ThreadsOK ==
  /\ sender \in [Cameras -> {"down", "sending", "stopping", "waiting"}]
  /\ timer \in [Cameras -> 0..(Interval + Timeout)]
  /\ post \in [Cameras -> {"none", "travels", "saved"}]
  /\ late \subseteq Cameras
  /\ entry \in [Cameras -> {"idle", "sending", "ok", "error", "stopped"}]
  /\ heard \in [Cameras -> Ages] /\ missed \in [Cameras -> 0..Many]

\* The list of the server, and the overview made of it.
Fetches == [latest : UNION {[D -> Ages] : D \in SUBSET Cameras},
            ids : SUBSET Registered, steady : SUBSET Cameras, elapsed : 0..(2 * Timeout)]

ListOK == beacons \in Seq([camera : Cameras, age : Ages]) /\ Len(beacons) <= Limit

OverviewOK ==
  /\ fetched \in {None} \cup Fetches
  /\ shown.status \in {"unknown", "alive", "degraded", "offline"}
  /\ shown.alive \subseteq shown.tracked

\* How old the last beacon of a camera can be: while it waits, ...
WaitingInv(c) ==
  sender[c] = "waiting" =>
    /\ post[c] = "none" /\ timer[c] <= Interval
    /\ missed[c] = 0 => heard[c] <= Timeout + (Interval - timer[c])
    /\ missed[c] = 1 => heard[c] <= Interval + 2 * Timeout + (Interval - timer[c])
    /\ entry[c] = "ok" => missed[c] # 1

\* ... and during a request, before and after it reaches the server.
SendingInv(c) ==
  Sending(c) =>
    /\ post[c] # "none" /\ timer[c] <= Timeout
    /\ post[c] = "travels" =>
         /\ missed[c] = 0 => heard[c] <= Interval + Timeout + (Timeout - timer[c])
         /\ missed[c] = 1 => heard[c] <= 2 * Interval + 2 * Timeout + (Timeout - timer[c])
    /\ post[c] = "saved" =>
         /\ missed[c] # 1
         /\ missed[c] = 0 => heard[c] <= Timeout - timer[c]

CameraInv(c) ==
  /\ sender[c] = "down" => post[c] = "none"
  /\ WaitingInv(c) /\ SendingInv(c)

BeaconInv == ThreadsOK /\ \A c \in Cameras : CameraInv(c)

-----------------------------------------------------------------------------
\* Before its first beacon no thread is late.
LEMMA BeaconInvInit ==
  ASSUME Init PROVE BeaconInv
  BY Constants DEF Init, BeaconInv, ThreadsOK, CameraInv, WaitingInv, SendingInv, Sending,
     Ages, TooOld, Many

\* A step of a camera's thread keeps it.
LEMMA ThreadKeepsInv ==
  ASSUME BeaconInv, NEW c \in Cameras,
         Start(c) \/ WakeUp(c) \/ Answered(c) \/ Fail(c) \/ Stop(c) \/ Crash(c)
  PROVE  BeaconInv'
  <1> USE Constants DEF ThreadsOK, Ages, Many
  <1>1. CASE Start(c)
    BY <1>1 DEF Start, Send, BeaconInv, CameraInv, WaitingInv, SendingInv, Sending
  <1>2. CASE WakeUp(c)
    BY <1>2 DEF WakeUp, Send, BeaconInv, CameraInv, WaitingInv, SendingInv, Sending
  <1>3. CASE Answered(c)
    BY <1>3 DEF Answered, Finish, BeaconInv, CameraInv, WaitingInv, SendingInv, Sending
  <1>4. CASE Fail(c)
    BY <1>4 DEF Fail, Finish, BeaconInv, CameraInv, WaitingInv, SendingInv, Sending
  <1>5. CASE Stop(c)
    BY <1>5 DEF Stop, BeaconInv, CameraInv, WaitingInv, SendingInv, Sending
  <1>6. CASE Crash(c)
    BY <1>6 DEF Crash, BeaconInv, CameraInv, WaitingInv, SendingInv, Sending
  <1> QED
    BY <1>1, <1>2, <1>3, <1>4, <1>5, <1>6

\* And so does everything else.
LEMMA WorldKeepsInv ==
  ASSUME BeaconInv,
         \/ \E c \in Cameras : Save(c) \/ Lose(c)
         \/ Restart \/ Tick \/ Fetch \/ Summarize \/ Unreachable \/ UNCHANGED vars,
         TimesSuffice
  PROVE  BeaconInv'
  <1> USE Constants DEF ThreadsOK, Ages, Many, TooOld, TimesSuffice
  <1>1. ASSUME NEW c \in Cameras, Save(c) PROVE BeaconInv'
    BY <1>1 DEF Save, BeaconInv, CameraInv, WaitingInv, SendingInv, Sending
  <1>2. ASSUME NEW c \in Cameras, Lose(c) PROVE BeaconInv'
    BY <1>2 DEF Lose, cameraVars, BeaconInv, CameraInv, WaitingInv, SendingInv, Sending
  <1>3. CASE Restart
    BY <1>3 DEF Restart, cameraVars, BeaconInv, CameraInv, WaitingInv, SendingInv, Sending
  <1>4. CASE Tick
    <2>1. UNCHANGED <<sender, post, late, entry, missed>>
      BY <1>4 DEF Tick
    <2>2. heard' = [c \in Cameras |-> Older(heard[c])]
      BY <1>4 DEF Tick
    <2>3. timer' = [c \in Cameras |-> IF timer[c] = 0 THEN 0 ELSE timer[c] - 1]
      BY <1>4 DEF Tick
    <2>4. \A c \in Cameras : sender[c] # "down" => timer[c] > 0
      BY <1>4 DEF Tick
    <2>5. ASSUME NEW c \in Cameras
          PROVE  /\ heard'[c] = Older(heard[c]) /\ heard'[c] \in Ages
                 /\ timer'[c] = IF timer[c] = 0 THEN 0 ELSE timer[c] - 1
                 /\ sender[c] # "down" => timer[c] > 0
      BY <2>2, <2>3, <2>4 DEF Older, BeaconInv
    <2>6. ThreadsOK'
      BY <2>1, <2>5, <2>2, <2>3 DEF BeaconInv
    <2>7. ASSUME NEW c \in Cameras PROVE CameraInv(c)'
      <3>1. heard[c] \in Ages /\ timer[c] \in Nat /\ missed[c] \in 0..Many /\ CameraInv(c)
        BY DEF BeaconInv
      <3>2. heard'[c] <= heard[c] + 1
        BY <2>5, <3>1 DEF Older
      <3>3. sender[c] # "down" => timer'[c] = timer[c] - 1
        BY <2>5, <3>1
      <3>4. WaitingInv(c)'
        BY <2>1, <2>5, <3>1, <3>2, <3>3 DEF CameraInv, WaitingInv
      <3>5. SendingInv(c)'
        BY <2>1, <2>5, <3>1, <3>2, <3>3 DEF CameraInv, SendingInv, Sending
      <3> QED
        BY <2>1, <3>1, <3>4, <3>5 DEF CameraInv
    <2> QED
      BY <2>6, <2>7 DEF BeaconInv
  <1>5. CASE Fetch \/ Summarize \/ Unreachable \/ UNCHANGED vars
    <2>1. UNCHANGED <<sender, timer, post, entry, late, heard, missed>>
      BY <1>5 DEF Fetch, Summarize, Unreachable, vars, cameraVars
    <2> QED
      BY <2>1 DEF BeaconInv, CameraInv, WaitingInv, SendingInv, Sending
  <1> QED
    BY <1>1, <1>2, <1>3, <1>4, <1>5

-----------------------------------------------------------------------------
(* The threads, the list and the overview have their types, whatever the   *)
(* times are.                                                              *)

\* Every step keeps the types of the threads.
LEMMA ThreadsOKNext ==
  ASSUME ThreadsOK, [Next]_vars PROVE ThreadsOK'
  <1> USE Constants DEF ThreadsOK, Ages, Many, TooOld
  <1>1. ASSUME NEW c \in Cameras, Start(c) \/ WakeUp(c) PROVE ThreadsOK'
    BY <1>1 DEF Start, WakeUp, Send
  <1>2. ASSUME NEW c \in Cameras, Answered(c) \/ Fail(c) PROVE ThreadsOK'
    BY <1>2 DEF Answered, Fail, Finish
  <1>3. ASSUME NEW c \in Cameras, Stop(c) \/ Crash(c) PROVE ThreadsOK'
    BY <1>3 DEF Stop, Crash
  <1>4. ASSUME NEW c \in Cameras, Save(c) \/ Lose(c) PROVE ThreadsOK'
    BY <1>4 DEF Save, Lose, cameraVars
  <1>5. CASE Restart
    BY <1>5 DEF Restart, cameraVars
  <1>6. CASE Tick
    <2>1. UNCHANGED <<sender, post, late, entry, missed>>
      BY <1>6 DEF Tick
    <2>2. heard' = [c \in Cameras |-> Older(heard[c])]
      BY <1>6 DEF Tick
    <2>3. timer' = [c \in Cameras |-> IF timer[c] = 0 THEN 0 ELSE timer[c] - 1]
      BY <1>6 DEF Tick
    <2> QED
      BY <2>1, <2>2, <2>3 DEF Older
  <1>7. CASE Fetch \/ Summarize \/ Unreachable \/ UNCHANGED vars
    <2>1. UNCHANGED <<sender, timer, post, entry, late, heard, missed>>
      BY <1>7 DEF Fetch, Summarize, Unreachable, vars, cameraVars
    <2> QED
      BY <2>1
  <1> QED
    BY <1>1, <1>2, <1>3, <1>4, <1>5, <1>6, <1>7 DEF Next

Entries == [camera : Cameras, age : Ages]

\* Beacons stay entries when their list is cut or grows older.
LEMMA EntriesOK ==
  ASSUME beacons \in Seq(Entries), NEW i \in DOMAIN beacons
  PROVE  beacons[i] \in Entries /\ beacons[i].camera \in Cameras /\ beacons[i].age \in Ages
  <1>1. beacons[i] \in Entries
    OBVIOUS
  <1> QED
    BY <1>1 DEF Entries

\* Growing older stays within the ages that are told apart.
LEMMA OlderIsAge ==
  ASSUME NEW a \in Ages PROVE Older(a) \in Ages
  BY Constants DEF Ages, Older, TooOld

\* Every step keeps the list of the server within its limit.
LEMMA ListOKNext ==
  ASSUME ListOK, [Next]_vars PROVE ListOK'
  <1> USE Constants
  <1>1. ASSUME NEW c \in Cameras, Save(c) PROVE ListOK'
    <2> DEFINE longer == Append(beacons, [camera |-> c, age |-> 0])
    <2>1. /\ beacons \in Seq(Entries) /\ Len(beacons) <= Limit
          /\ [camera |-> c, age |-> 0] \in Entries
      BY DEF ListOK, Entries, Ages
    <2>2. longer \in Seq(Entries) /\ Len(longer) = Len(beacons) + 1 /\ longer # << >>
      BY <2>1, AppendProperties
    <2>3. Tail(longer) \in Seq(Entries) /\ Len(Tail(longer)) = Len(longer) - 1
      BY <2>2, HeadTailProperties
    <2>4. beacons' = IF Len(longer) > Limit THEN Tail(longer) ELSE longer
      BY <1>1 DEF Save, Appended
    <2> HIDE DEF longer
    <2>5. Len(beacons) \in Nat
      BY <2>1
    <2> QED
      BY <2>1, <2>2, <2>3, <2>4, <2>5 DEF ListOK, Entries
  <1>2. CASE Restart
    BY <1>2 DEF Restart, ListOK
  <1>3. CASE Tick
    <2>1. beacons \in Seq(Entries) /\ Len(beacons) <= Limit
      BY DEF ListOK, Entries
    <2>2. beacons' = [i \in DOMAIN beacons |-> [beacons[i] EXCEPT !.age = Older(beacons[i].age)]]
      BY <1>3 DEF Tick
    <2>3. ASSUME NEW i \in DOMAIN beacons
          PROVE  [beacons[i] EXCEPT !.age = Older(beacons[i].age)] \in Entries
      <3>1. beacons[i] \in Entries /\ Older(beacons[i].age) \in Ages
        BY <2>1, EntriesOK, OlderIsAge
      <3> QED
        BY <3>1 DEF Entries
    <2>4. beacons' \in Seq(Entries) /\ Len(beacons') = Len(beacons)
      BY <2>1, <2>2, <2>3
    <2> QED
      BY <2>1, <2>4 DEF ListOK, Entries
  <1>4. ASSUME NEW c \in Cameras,
               Start(c) \/ WakeUp(c) \/ Answered(c) \/ Fail(c) \/ Stop(c) \/ Crash(c) \/ Lose(c)
        PROVE  ListOK'
    BY <1>4 DEF Start, WakeUp, Answered, Fail, Stop, Crash, Lose, ListOK
  <1>5. CASE Fetch \/ Summarize \/ Unreachable \/ UNCHANGED vars
    BY <1>5 DEF Fetch, Summarize, Unreachable, vars, ListOK
  <1> QED
    BY <1>1, <1>2, <1>3, <1>4, <1>5 DEF Next

\* The latest beacons of a list are ages.
LEMMA LatestOK ==
  ASSUME ListOK
  PROVE  LatestByCamera \in UNION {[D -> Ages] : D \in SUBSET Cameras}
  <1> DEFINE D == {beacons[i].camera : i \in DOMAIN beacons}
             Of(c) == {beacons[i].age : i \in {j \in DOMAIN beacons : beacons[j].camera = c}}
  <1>1. \A i \in DOMAIN beacons : beacons[i].camera \in Cameras /\ beacons[i].age \in Ages
    BY EntriesOK DEF ListOK, Entries
  <1>2. D \in SUBSET Cameras
    BY <1>1
  <1>3. ASSUME NEW c \in D PROVE Min(Of(c)) \in Ages
    <2>1. Of(c) # {} /\ Of(c) \subseteq Ages
      BY <1>1
    <2> HIDE DEF Of
    <2> QED
      BY <2>1, MinIsLeast, Constants DEF Ages
  <1>4. LatestByCamera = [c \in D |-> Min(Of(c))]
    BY DEF LatestByCamera
  <1> HIDE DEF D, Of
  <1> QED
    BY <1>2, <1>3, <1>4

\* Every step keeps the fetched list and the overview well formed.
LEMMA OverviewOKNext ==
  ASSUME ListOK, OverviewOK, [Next]_vars PROVE OverviewOK'
  <1> USE Constants
  <1>1. CASE Fetch
    <2>1. PICK ids \in {Registered, {}} :
            fetched' = [latest |-> LatestByCamera, ids |-> ids, elapsed |-> 0,
                        steady |-> {c \in Cameras : sender[c] # "down" /\ missed[c] = 0}]
      BY <1>1 DEF Fetch
    <2>2. fetched' \in Fetches
      BY <2>1, LatestOK DEF Fetches
    <2> QED
      BY <1>1, <2>2 DEF Fetch, OverviewOK
  <1>2. CASE Summarize
    BY <1>2 DEF Summarize, OverviewOK, Alive
  <1>3. CASE Unreachable
    BY <1>3 DEF Unreachable, Unavailable, OverviewOK
  <1>4. CASE Restart
    BY <1>4 DEF Restart, Unavailable, OverviewOK
  <1>5. CASE Tick
    <2>1. /\ fetched # None => fetched.elapsed < 2 * Timeout
          /\ fetched' = IF fetched = None THEN None
                        ELSE [fetched EXCEPT !.elapsed = fetched.elapsed + 1,
                                !.latest = [c \in DOMAIN fetched.latest |-> Older(fetched.latest[c])]]
          /\ shown' = shown
      BY <1>5 DEF Tick
    <2>2. CASE fetched # None
      <3>1. fetched \in Fetches
        BY <2>2 DEF OverviewOK
      <3>2. PICK D \in SUBSET Cameras : fetched.latest \in [D -> Ages]
        BY <3>1 DEF Fetches
      <3>3. [c \in DOMAIN fetched.latest |-> Older(fetched.latest[c])] \in [D -> Ages]
        BY <3>2 DEF Older, Ages, TooOld
      <3>4. fetched' \in Fetches
        <4> DEFINE Maps == UNION {[E -> Ages] : E \in SUBSET Cameras}
                   older == [c \in DOMAIN fetched.latest |-> Older(fetched.latest[c])]
        <4>1. older \in Maps
          BY <3>3
        <4>2. fetched.elapsed + 1 \in 0..(2 * Timeout)
          BY <2>1, <2>2, <3>1 DEF Fetches
        <4>3. fetched' = [fetched EXCEPT !.elapsed = fetched.elapsed + 1, !.latest = older]
          BY <2>1, <2>2
        <4>4. fetched \in [latest : Maps, ids : SUBSET Registered, steady : SUBSET Cameras,
                           elapsed : 0..(2 * Timeout)]
          BY <3>1 DEF Fetches
        <4> HIDE DEF Maps, older
        <4>5. fetched' \in [latest : Maps, ids : SUBSET Registered, steady : SUBSET Cameras,
                            elapsed : 0..(2 * Timeout)]
          BY <4>1, <4>2, <4>3, <4>4
        <4> QED
          BY <4>5 DEF Fetches, Maps
      <3> QED
        BY <2>1, <3>4 DEF OverviewOK
    <2> QED
      BY <2>1, <2>2 DEF OverviewOK
  <1>6. ASSUME NEW c \in Cameras,
               \/ Start(c) \/ WakeUp(c) \/ Answered(c) \/ Fail(c) \/ Stop(c) \/ Crash(c)
               \/ Save(c) \/ Lose(c)
        PROVE  OverviewOK'
    <2>1. UNCHANGED <<fetched, shown>>
      BY <1>6 DEF Start, WakeUp, Answered, Fail, Stop, Crash, Save, Lose
    <2> QED
      BY <2>1 DEF OverviewOK
  <1>7. CASE UNCHANGED vars
    BY <1>7 DEF vars, OverviewOK
  <1> QED
    BY <1>1, <1>2, <1>3, <1>4, <1>5, <1>6, <1>7 DEF Next

-----------------------------------------------------------------------------
\* The configured times fit (beacon.py's interval and timeout, app.py's TTL): if
\* the TTL covers two intervals and three requests, then, whatever requests are
\* lost, late or answered in vain and whoever is restarted, a camera that missed
\* at most one beacon in a row was heard within the TTL.
THEOREM TimesAlwaysFit == ASSUME TimesSuffice PROVE Spec => []TimesFit
  <1> DEFINE Inv == BeaconInv /\ ListOK /\ OverviewOK
  <1>1. Init => Inv
    <2> SUFFICES ASSUME Init PROVE ListOK /\ OverviewOK
      BY BeaconInvInit
    <2> QED
      BY Constants DEF Init, ListOK, OverviewOK, Unavailable
  <1>2. Inv /\ [Next]_vars => Inv'
    BY ThreadKeepsInv, WorldKeepsInv, ListOKNext, OverviewOKNext DEF Next
  <1>3. Inv => TimesFit
    <2> SUFFICES ASSUME Inv PROVE TimesFit
      OBVIOUS
    <2>1. TypeOK
      <3>1. fetched # None =>
              /\ DOMAIN fetched.latest \subseteq Cameras /\ Range(fetched.latest) \subseteq Ages
              /\ fetched.ids \subseteq Registered /\ fetched.steady \subseteq Cameras
              /\ fetched.elapsed \in 0..(2 * Timeout)
        BY DEF OverviewOK, Fetches, Range
      <3> QED
        BY <3>1 DEF TypeOK, BeaconInv, ThreadsOK, ListOK, OverviewOK
    <2>2. SteadyIsHeard
      BY Constants
      DEF SteadyIsHeard, BeaconInv, ThreadsOK, CameraInv, WaitingInv, SendingInv, Sending,
          Ages, Many, TimesSuffice
    <2>3. OkMeansHeard
      BY Constants DEF OkMeansHeard, BeaconInv, ThreadsOK, CameraInv, WaitingInv, Ages, Many
    <2> QED
      BY <2>1, <2>2, <2>3 DEF TimesFit
  <1> HIDE DEF Inv
  <1> QED
    BY <1>1, <1>2, <1>3, PTL DEF Spec

-----------------------------------------------------------------------------
(* What the overview says of a beacon's age.                               *)

\* The server heard a camera at least as late as each of its entries says, and
\* as what the overview has fetched says.
AgesInv ==
  /\ \A i \in DOMAIN beacons : heard[beacons[i].camera] <= beacons[i].age
  /\ fetched # None => \A c \in DOMAIN fetched.latest : heard[c] <= fetched.latest[c]

\* What is younger stays younger.
LEMMA OlderIsMonotone ==
  ASSUME NEW a \in Ages, NEW b \in Ages, a <= b PROVE Older(a) <= Older(b)
  BY Constants DEF Ages, Older, TooOld

\* Every step keeps the list, and what was fetched of it, as old as what was heard.
LEMMA AgesInvNext ==
  ASSUME ThreadsOK, ListOK, OverviewOK, AgesInv, [Next]_vars PROVE AgesInv'
  <1> USE Constants
  <1>0. \A i \in DOMAIN beacons : beacons[i].camera \in Cameras /\ beacons[i].age \in Ages
    BY EntriesOK DEF ListOK, Entries
  <1>1. ASSUME NEW c \in Cameras, Save(c) PROVE AgesInv'
    <2> DEFINE new == [camera |-> c, age |-> 0]
               longer == Append(beacons, new)
    <2>1. /\ heard' = [heard EXCEPT ![c] = 0] /\ fetched' = fetched
          /\ beacons' = IF Len(longer) > Limit THEN Tail(longer) ELSE longer
      BY <1>1 DEF Save, Appended
    <2>2. \A d \in Cameras : heard'[d] \in Ages /\ (heard'[d] <= heard[d]) /\ heard'[c] = 0
      BY <2>1 DEF ThreadsOK, Ages
    <2>3. beacons \in Seq(Entries) /\ new \in Entries
      BY DEF ListOK, Entries, Ages
    <2>4. /\ longer \in Seq(Entries) /\ Len(longer) = Len(beacons) + 1 /\ longer # << >>
          /\ \A i \in 1..Len(beacons) : longer[i] = beacons[i]
          /\ longer[Len(beacons) + 1] = new
      BY <2>3, AppendProperties
    <2>5. ASSUME NEW i \in 1..Len(longer) PROVE heard'[longer[i].camera] <= longer[i].age
      <3>1. CASE i = Len(beacons) + 1
        BY <2>2, <2>4, <3>1
      <3>2. CASE i \in 1..Len(beacons)
        <4>1. longer[i] = beacons[i] /\ i \in DOMAIN beacons
          BY <2>3, <2>4, <3>2
        <4>2. /\ beacons[i].camera \in Cameras /\ beacons[i].age \in Ages
              /\ heard[beacons[i].camera] <= beacons[i].age
          BY <1>0, <4>1 DEF AgesInv
        <4>3. heard[beacons[i].camera] \in Ages
          BY <4>2 DEF ThreadsOK
        <4> QED
          BY <2>2, <4>1, <4>2, <4>3 DEF Ages
      <3>3. i = Len(beacons) + 1 \/ i \in 1..Len(beacons)
        BY <2>3, <2>4
      <3> QED
        BY <3>1, <3>2, <3>3
    <2>6. /\ Tail(longer) \in Seq(Entries) /\ Len(Tail(longer)) = Len(longer) - 1
          /\ \A i \in 1..Len(Tail(longer)) : Tail(longer)[i] = longer[i + 1]
      BY <2>4, HeadTailProperties
    <2> HIDE DEF longer, new
    <2>7. ASSUME NEW i \in DOMAIN beacons' PROVE heard'[beacons'[i].camera] <= beacons'[i].age
      <3>1. CASE Len(longer) > Limit
        <4>1. beacons' = Tail(longer) /\ i \in 1..Len(Tail(longer)) /\ Len(longer) \in Nat
          BY <2>1, <2>4, <2>6, <3>1
        <4>2. i + 1 \in 1..Len(longer) /\ beacons'[i] = longer[i + 1]
          BY <2>6, <4>1
        <4> QED
          BY <2>5, <4>2
      <3>2. CASE ~(Len(longer) > Limit)
        BY <2>1, <2>4, <2>5, <3>2
      <3> QED
        BY <3>1, <3>2
    <2>8. fetched # None => \A d \in DOMAIN fetched.latest : heard'[d] <= fetched.latest[d]
      <3> SUFFICES ASSUME fetched # None, NEW d \in DOMAIN fetched.latest
                   PROVE  heard'[d] <= fetched.latest[d]
        OBVIOUS
      <3>1. d \in Cameras /\ fetched.latest[d] \in Ages
        BY DEF OverviewOK, Fetches
      <3>2. heard[d] <= fetched.latest[d] /\ heard[d] \in Ages
        BY <3>1 DEF AgesInv, ThreadsOK
      <3> QED
        BY <2>2, <3>1, <3>2 DEF Ages
    <2> QED
      BY <2>1, <2>7, <2>8 DEF AgesInv
  <1>2. CASE Restart
    BY <1>2 DEF Restart, AgesInv
  <1>3. CASE Tick
    <2>1. /\ heard' = [c \in Cameras |-> Older(heard[c])]
          /\ beacons' = [i \in DOMAIN beacons |-> [beacons[i] EXCEPT !.age = Older(beacons[i].age)]]
          /\ fetched' = IF fetched = None THEN None
                        ELSE [fetched EXCEPT !.elapsed = fetched.elapsed + 1,
                                !.latest = [c \in DOMAIN fetched.latest |-> Older(fetched.latest[c])]]
      BY <1>3 DEF Tick
    <2>2. ASSUME NEW i \in DOMAIN beacons' PROVE heard'[beacons'[i].camera] <= beacons'[i].age
      <3>1. i \in DOMAIN beacons /\ beacons[i] \in Entries
        BY <2>1, EntriesOK DEF ListOK, Entries
      <3>2. beacons'[i].camera = beacons[i].camera /\ beacons'[i].age = Older(beacons[i].age)
        BY <2>1, <3>1 DEF Entries
      <3>3. /\ beacons[i].camera \in Cameras /\ beacons[i].age \in Ages
            /\ heard[beacons[i].camera] \in Ages /\ heard[beacons[i].camera] <= beacons[i].age
        BY <1>0, <3>1 DEF AgesInv, ThreadsOK
      <3> QED
        BY <2>1, <3>2, <3>3, OlderIsMonotone
    <2>3. ASSUME fetched' # None, NEW c \in DOMAIN fetched'.latest
          PROVE  heard'[c] <= fetched'.latest[c]
      <3>1. fetched # None /\ fetched \in Fetches
        BY <2>1, <2>3 DEF OverviewOK
      <3>2. fetched'.latest = [d \in DOMAIN fetched.latest |-> Older(fetched.latest[d])]
        BY <2>1, <3>1 DEF Fetches
      <3>3. /\ c \in DOMAIN fetched.latest /\ c \in Cameras /\ fetched.latest[c] \in Ages
            /\ fetched'.latest[c] = Older(fetched.latest[c])
        BY <2>3, <3>1, <3>2 DEF Fetches
      <3>4. heard[c] \in Ages /\ heard[c] <= fetched.latest[c]
        BY <3>1, <3>3 DEF AgesInv, ThreadsOK
      <3> QED
        BY <2>1, <3>3, <3>4, OlderIsMonotone
    <2> QED
      BY <2>2, <2>3 DEF AgesInv
  <1>4. CASE Fetch
    <2>1. /\ UNCHANGED <<heard, beacons>>
          /\ fetched'.latest = LatestByCamera
      BY <1>4 DEF Fetch
    <2>2. ASSUME NEW c \in DOMAIN LatestByCamera PROVE heard[c] <= LatestByCamera[c]
      <3> DEFINE S == {beacons[i].age : i \in {j \in DOMAIN beacons : beacons[j].camera = c}}
      <3>1. LatestByCamera[c] = Min(S)
        BY DEF LatestByCamera
      <3>2. S # {} /\ S \subseteq Nat
        BY <1>0 DEF LatestByCamera, Ages
      <3>3. Min(S) \in S
        <4> HIDE DEF S
        <4> QED
          BY <3>2, MinIsLeast
      <3> QED
        BY <3>1, <3>3 DEF AgesInv
    <2> QED
      BY <2>1, <2>2 DEF AgesInv
  <1>5. CASE Summarize \/ Unreachable
    <2>1. UNCHANGED <<heard, beacons>> /\ fetched' = None
      BY <1>5 DEF Summarize, Unreachable
    <2> QED
      BY <2>1 DEF AgesInv
  <1>6. ASSUME NEW c \in Cameras,
               Start(c) \/ WakeUp(c) \/ Answered(c) \/ Fail(c) \/ Stop(c) \/ Crash(c) \/ Lose(c)
        PROVE  AgesInv'
    <2>1. UNCHANGED <<heard, beacons, fetched>>
      BY <1>6 DEF Start, WakeUp, Answered, Fail, Stop, Crash, Lose
    <2> QED
      BY <2>1 DEF AgesInv
  <1>7. CASE UNCHANGED vars
    BY <1>7 DEF vars, AgesInv
  <1> QED
    BY <1>1, <1>2, <1>3, <1>4, <1>5, <1>6, <1>7 DEF Next

\* Whatever the times, the limit of the server's list and the age of what was
\* fetched are, summarize_camera_health shows nobody alive whose beacon did not
\* reach the server within the TTL.
THEOREM AliveMeansRecent == Spec => AliveIsRecent
  <1> DEFINE Inv == ThreadsOK /\ ListOK /\ OverviewOK /\ AgesInv
  <1>1. Init => Inv
    BY Constants, BeaconInvInit
    DEF Init, BeaconInv, ListOK, OverviewOK, Unavailable, AgesInv
  <1>2. Inv /\ [Next]_vars => Inv'
    BY ThreadsOKNext, ListOKNext, OverviewOKNext, AgesInvNext
  <1>3. Inv /\ [Next]_vars => [Summarize => \A c \in shown'.alive : heard[c] <= Ttl]_vars
    <2> SUFFICES ASSUME Inv, Summarize, NEW c \in shown'.alive PROVE heard[c] <= Ttl
      OBVIOUS
    <2>1. fetched # None /\ c \in DOMAIN fetched.latest /\ fetched.latest[c] <= Ttl
      BY DEF Summarize, Alive
    <2>2. c \in Cameras /\ fetched.latest[c] \in Ages
      BY <2>1 DEF OverviewOK, Fetches
    <2>3. heard[c] \in Ages /\ heard[c] <= fetched.latest[c]
      BY <2>1, <2>2 DEF ThreadsOK, AgesInv
    <2> QED
      BY <2>1, <2>2, <2>3, Constants DEF Ages
  <1> HIDE DEF Inv
  <1> QED
    BY <1>1, <1>2, <1>3, PTL DEF Spec, AliveIsRecent

-----------------------------------------------------------------------------
(* The infected-scan worker: the arithmetic of its rotation.               *)

\* Division with a remainder.
LEMMA Divides ==
  ASSUME NEW n \in Nat, NEW m \in Nat \ {0}
  PROVE  n \div m \in Nat /\ n % m \in 0..(m - 1) /\ n = (n \div m) * m + (n % m)
  OBVIOUS

LEMMA OneRemainder ==
  \A m \in Nat \ {0} : \A q, p \in Nat : \A r, s \in 0..(m - 1) :
    q * m + r = p * m + s => q = p /\ r = s
  OBVIOUS

\* The remainder of the next number.
LEMMA NextRemainder ==
  ASSUME NEW n \in Nat, NEW m \in Nat \ {0}
  PROVE  (n + 1) % m = IF n % m = m - 1 THEN 0 ELSE (n % m) + 1
  <1> DEFINE q == n \div m
             r == n % m
             p == (n + 1) \div m
             s == (n + 1) % m
  <1>1. q \in Nat /\ r \in 0..(m - 1) /\ n = q * m + r
    BY Divides
  <1>2. n + 1 \in Nat
    OBVIOUS
  <1>3. p \in Nat /\ s \in 0..(m - 1) /\ n + 1 = p * m + s
    BY <1>2, Divides
  <1> HIDE DEF q, r, p, s
  <1>4. CASE r = m - 1
    <2>1. q + 1 \in Nat /\ 0 \in 0..(m - 1) /\ (q + 1) * m + 0 = p * m + s
      BY <1>1, <1>3, <1>4
    <2>2. s = 0
      BY <1>3, <2>1, OneRemainder
    <2> QED
      BY <1>4, <2>2 DEF r, s
  <1>5. CASE r # m - 1
    <2>1. r + 1 \in 0..(m - 1) /\ q * m + (r + 1) = p * m + s
      BY <1>1, <1>3, <1>5
    <2>2. s = r + 1
      BY <1>1, <1>3, <2>1, OneRemainder
    <2> QED
      BY <1>5, <2>2 DEF r, s
  <1> QED
    BY <1>4, <1>5

\* The numbers below a product are the pairs of a quotient and a remainder.
LEMMA NumberIsPair ==
  ASSUME NEW t \in Nat, NEW m \in Nat \ {0}, NEW n \in 0..(t * m - 1)
  PROVE  n \div m \in 0..(t - 1) /\ n % m \in 0..(m - 1)
  <1> DEFINE q == n \div m
             r == n % m
  <1>1. n \in Nat /\ t * m \in Nat
    OBVIOUS
  <1>2. q \in Nat /\ r \in 0..(m - 1) /\ n = q * m + r
    BY <1>1, Divides
  <1> HIDE DEF q, r
  <1>3. q < t
    <2>1. SUFFICES ASSUME q >= t PROVE FALSE
      BY <1>2
    <2>2. q * m >= t * m
      BY <1>2, <2>1
    <2> QED
      BY <1>1, <1>2, <2>2
  <1>4. q \in 0..(t - 1)
    BY <1>2, <1>3
  <1> QED
    BY <1>2, <1>4 DEF q, r

LEMMA PairIsNumber ==
  ASSUME NEW t \in Nat, NEW m \in Nat, NEW a \in 0..(t - 1), NEW b \in 0..(m - 1)
  PROVE  /\ a * m + b \in 0..(t * m - 1)
         /\ (a * m + b) \div m = a /\ (a * m + b) % m = b
  <1> DEFINE n == a * m + b
             q == n \div m
             r == n % m
  <1>1. m \in Nat \ {0} /\ n \in Nat /\ a \in Nat
    OBVIOUS
  <1>2. q \in Nat /\ r \in 0..(m - 1) /\ n = q * m + r
    BY <1>1, Divides
  <1>3. n <= t * m - 1
    <2>1. (a + 1) * m <= t * m
      OBVIOUS
    <2> QED
      BY <2>1
  <1>4. q = a /\ r = b
    <2> HIDE DEF q, r
    <2> QED
      BY <1>1, <1>2, OneRemainder
  <1> QED
    BY <1>1, <1>3, <1>4

LEMMA SmallRemainder == ASSUME NEW m \in Nat \ {0}, NEW n \in 0..(m - 1) PROVE n % m = n
  OBVIOUS

LEMMA Product == ASSUME NEW n \in Nat \ {0}, NEW m \in Nat \ {0} PROVE n * m \in Nat \ {0}
  OBVIOUS

-----------------------------------------------------------------------------
(* Counting.                                                               *)

\* A set of indexes that gains one.
LEMMA CountIs ==
  ASSUME NEW n \in Nat, NEW S, S \subseteq 1..n
  PROVE  IsFiniteSet(S) /\ Cardinality(S) \in Nat /\ Cardinality(S) <= n
  <1>1. IsFiniteSet(1..n) /\ Cardinality(1..n) = n
    BY FS_Interval
  <1>2. IsFiniteSet(S) /\ Cardinality(S) <= Cardinality(1..n)
    BY <1>1, FS_Subset
  <1> QED
    BY <1>1, <1>2, FS_CardinalityType

LEMMA CountGrows ==
  ASSUME NEW n \in Nat, NEW S, S \subseteq 1..n, NEW x, x \notin S
  PROVE  Cardinality(S \cup {x}) = Cardinality(S) + 1
  BY CountIs, FS_AddElement

-----------------------------------------------------------------------------
(* The rotation.                                                           *)

\* The lists of a configuration.
LEMMA ListsAre ==
  ASSUME scanConfig \in ScanConfigs
  PROVE  /\ Len(scanConfig.targets) \in Nat /\ DOMAIN scanConfig.targets = 1..Len(scanConfig.targets)
         /\ Len(scanConfig.ports) \in Nat /\ DOMAIN scanConfig.ports = 1..Len(scanConfig.ports)
  BY ReconAssumption

\* There are pairs if and only if there are targets and ports.
LEMMA SomePairs ==
  ASSUME scanConfig \in ScanConfigs, Pairs # {}
  PROVE  /\ Len(scanConfig.targets) \in Nat \ {0} /\ Len(scanConfig.ports) \in Nat \ {0}
         /\ Slots \in Nat \ {0}
  <1>1. PICK p \in Pairs : TRUE
    OBVIOUS
  <1>2. DOMAIN scanConfig.targets # {} /\ DOMAIN scanConfig.ports # {}
    BY <1>1 DEF Pairs, Range
  <1>3. Len(scanConfig.targets) \in Nat \ {0} /\ Len(scanConfig.ports) \in Nat \ {0}
    BY <1>2, ListsAre
  <1> QED
    BY <1>3, Product DEF Slots

\* The pair of a slot.
LEMMA PairOfSlot ==
  ASSUME scanConfig \in ScanConfigs, Pairs # {}, NEW slot \in 0..(Slots - 1)
  PROVE  LET a == (slot \div Len(scanConfig.ports)) + 1
             b == (slot % Len(scanConfig.ports)) + 1
         IN /\ a \in DOMAIN scanConfig.targets /\ b \in DOMAIN scanConfig.ports
            /\ slot = (a - 1) * Len(scanConfig.ports) + (b - 1)
            /\ NextPair(slot) = [target |-> scanConfig.targets[a], port |-> scanConfig.ports[b],
                                result |-> "none"]
            /\ PairAt(slot) = <<scanConfig.targets[a], scanConfig.ports[b]>>
  <1> DEFINE m == Len(scanConfig.ports)
             n == Len(scanConfig.targets)
  <1>1. n \in Nat \ {0} /\ m \in Nat \ {0} /\ slot \in 0..(n * m - 1) /\ n * m \in Nat \ {0}
    BY SomePairs DEF Slots
  <1>2. slot % (n * m) = slot
    BY <1>1, SmallRemainder
  <1> DEFINE q == slot \div m
             r == slot % m
  <1>3. q \in 0..(n - 1) /\ r \in 0..(m - 1)
    BY <1>1, NumberIsPair
  <1>4. slot \in Nat
    BY <1>1
  <1>5. slot = q * m + r
    BY <1>1, <1>4, Divides
  <1>6. NextPair(slot) = [target |-> scanConfig.targets[q + 1], port |-> scanConfig.ports[r + 1],
                          result |-> "none"]
    BY <1>2 DEF NextPair
  <1>7. DOMAIN scanConfig.targets = 1..n /\ DOMAIN scanConfig.ports = 1..m
    BY ListsAre
  <1>8. PairAt(slot) = <<scanConfig.targets[q + 1], scanConfig.ports[r + 1]>>
    BY <1>6 DEF PairAt
  <1>9. q + 1 \in 1..n /\ r + 1 \in 1..m /\ (q + 1) - 1 = q /\ (r + 1) - 1 = r
    <2> HIDE DEF q, r, n, m
    <2> QED
      BY <1>1, <1>3
  <1> HIDE DEF q, r, n, m
  <1>10. slot = ((q + 1) - 1) * m + ((r + 1) - 1)
    BY <1>5, <1>9
  <1> QED
    BY <1>6, <1>7, <1>8, <1>9, <1>10 DEF q, r, n, m

\* The pair after any number of attempts is the one of its slot.
LEMMA SlotOfIndex ==
  ASSUME scanConfig \in ScanConfigs, Pairs # {}, NEW index \in Nat
  PROVE  /\ index % Slots \in 0..(Slots - 1)
         /\ NextPair(index) = NextPair(index % Slots)
  <1> DEFINE s == index % Slots
  <1>1. Slots \in Nat \ {0} /\ s \in 0..(Slots - 1)
    BY SomePairs, Divides
  <1>2. s % Slots = s
    BY <1>1, SmallRemainder
  <1> QED
    BY <1>1, <1>2 DEF NextPair, Slots

\* Every slot has a pair, every pair has a slot,
LEMMA SlotsCover ==
  ASSUME scanConfig \in ScanConfigs, Pairs # {}
  PROVE  /\ \A slot \in 0..(Slots - 1) : PairAt(slot) \in Pairs
         /\ \A p \in Pairs : \E slot \in 0..(Slots - 1) : PairAt(slot) = p
  <1>1. ASSUME NEW slot \in 0..(Slots - 1) PROVE PairAt(slot) \in Pairs
    <2>1. PICK a \in DOMAIN scanConfig.targets, b \in DOMAIN scanConfig.ports :
            PairAt(slot) = <<scanConfig.targets[a], scanConfig.ports[b]>>
      BY PairOfSlot
    <2> QED
      BY <2>1 DEF Pairs, Range
  <1>2. ASSUME NEW p \in Pairs PROVE \E slot \in 0..(Slots - 1) : PairAt(slot) = p
    <2>1. PICK i \in DOMAIN scanConfig.targets, j \in DOMAIN scanConfig.ports :
            p = <<scanConfig.targets[i], scanConfig.ports[j]>>
      BY DEF Pairs, Range
    <2> DEFINE m == Len(scanConfig.ports)
               n == Len(scanConfig.targets)
               a == i - 1
               b == j - 1
               slot == a * m + b
    <2>2. n \in Nat /\ m \in Nat /\ a \in 0..(n - 1) /\ b \in 0..(m - 1) /\ a + 1 = i /\ b + 1 = j
      BY ListsAre
    <2> HIDE DEF a, b, m, n
    <2>3. slot \in 0..(n * m - 1) /\ slot \div m = a /\ slot % m = b
      BY <2>2, PairIsNumber
    <2>4. slot \in 0..(Slots - 1)
      BY <2>3 DEF Slots, n, m
    <2>5. PairAt(slot) = <<scanConfig.targets[a + 1], scanConfig.ports[b + 1]>>
      <3> HIDE DEF slot
      <3> QED
        BY <2>3, <2>4, PairOfSlot DEF m
    <2> QED
      BY <2>1, <2>2, <2>4, <2>5
  <1> QED
    BY <1>1, <1>2

\* and lists without repetitions give different slots different pairs.
LEMMA SlotsDiffer ==
  ASSUME scanConfig \in ScanConfigs, Pairs # {},
         IsInjective(scanConfig.targets), IsInjective(scanConfig.ports),
         NEW s \in 0..(Slots - 1), NEW r \in 0..(Slots - 1), PairAt(s) = PairAt(r)
  PROVE  s = r
  <1> DEFINE m == Len(scanConfig.ports)
             a(n) == (n \div m) + 1
             b(n) == (n % m) + 1
  <1>1. ASSUME NEW n \in 0..(Slots - 1)
        PROVE  /\ a(n) \in DOMAIN scanConfig.targets /\ b(n) \in DOMAIN scanConfig.ports
               /\ n = (a(n) - 1) * m + (b(n) - 1)
               /\ PairAt(n) = <<scanConfig.targets[a(n)], scanConfig.ports[b(n)]>>
    BY PairOfSlot
  <1> HIDE DEF a, b, m
  <1>2. scanConfig.targets[a(s)] = scanConfig.targets[a(r)] /\ scanConfig.ports[b(s)] = scanConfig.ports[b(r)]
    BY <1>1
  <1>3. a(s) = a(r) /\ b(s) = b(r)
    BY <1>1, <1>2 DEF IsInjective
  <1> QED
    BY <1>1, <1>3

-----------------------------------------------------------------------------
(* Types.                                                                  *)

\* The last attempt begun is replaced by another account of it.
Amended(last) ==
  /\ tries # << >> /\ last \in ScanTry
  /\ tries' = [tries EXCEPT ![Len(tries)] = last]

\* What amending leaves.
LEMMA AmendedIs ==
  ASSUME tries \in Seq(ScanTry), NEW last, Amended(last)
  PROVE  /\ tries' \in Seq(ScanTry) /\ Len(tries') = Len(tries) /\ DOMAIN tries' = DOMAIN tries
         /\ Len(tries) \in DOMAIN tries /\ DOMAIN tries = 1..Len(tries) /\ Len(tries) \in Nat
         /\ tries'[Len(tries)] = last
         /\ \A i \in DOMAIN tries : i # Len(tries) => tries'[i] = tries[i]
  BY DEF Amended

\* The records of the two files.
LEMMA AppendedIs ==
  ASSUME NEW enabled, NEW file, NEW record, unwritten \in 0..MaxUnwritten,
         NEW outcome \in AppendJsonl(enabled, file, unwritten, record)
  PROVE  /\ outcome[2] \in 0..MaxUnwritten
         /\ outcome[2] = unwritten => outcome[1] = IF enabled THEN Append(file, record) ELSE file
         /\ outcome[2] # unwritten => outcome[1] = file
  <1> DEFINE longer == IF enabled THEN Append(file, record) ELSE file
  <1>1. \/ outcome = <<longer, unwritten>>
        \/ outcome = <<file, unwritten + 1>> /\ unwritten < MaxUnwritten
    BY Zenon DEF AppendJsonl
  <1> HIDE DEF longer
  <1>2. unwritten \in Nat /\ MaxUnwritten \in Nat /\ unwritten + 1 # unwritten
    BY ScenarioLogAssumption
  <1>3. CASE outcome = <<longer, unwritten>>
    BY <1>3 DEF longer
  <1>4. CASE outcome = <<file, unwritten + 1>> /\ unwritten < MaxUnwritten
    BY <1>2, <1>4
  <1> QED
    BY <1>1, <1>3, <1>4

\* Writing an event changes nothing but the events and the count of the lost.
LEMMA EventWritten ==
  ASSUME NEW record, unwritten \in 0..MaxUnwritten, WriteEvent(record)
  PROVE  unwritten' \in 0..MaxUnwritten /\ UNCHANGED scanTruth
  BY AppendedIs DEF WriteEvent

\* The pair that comes next is an attempt to make.
LEMMA NextPairIs ==
  ASSUME scanConfig \in ScanConfigs, Pairs # {}, NEW index \in Nat
  PROVE  /\ NextPair(index) \in ScanAttempt /\ NextPair(index).result = "none"
         /\ <<NextPair(index).target, NextPair(index).port>> = PairAt(index % Slots)
  <1> DEFINE slot == index % Slots
  <1>1. slot \in 0..(Slots - 1) /\ NextPair(index) = NextPair(slot)
    BY SlotOfIndex
  <1> HIDE DEF slot
  <1>2. PICK a \in DOMAIN scanConfig.targets, b \in DOMAIN scanConfig.ports :
          NextPair(slot) = [target |-> scanConfig.targets[a], port |-> scanConfig.ports[b],
                            result |-> "none"]
    BY <1>1, PairOfSlot
  <1>3. /\ scanConfig.targets[a] \in UNION {Range(c.targets) : c \in ScanConfigs}
        /\ scanConfig.ports[b] \in UNION {Range(c.ports) : c \in ScanConfigs}
    BY DEF Range
  <1> QED
    BY <1>1, <1>2, <1>3 DEF ScanAttempt, PairAt, slot

\* A result that the resolver or the network gives.
LEMMA ResultIs ==
  ASSUME attempt \in ScanAttempt, NEW result \in {"blocked"} \cup TcpResults
  PROVE  /\ [attempt EXCEPT !.result = result] \in ScanAttempt
         /\ [attempt EXCEPT !.result = result].result # "none"
         /\ [attempt EXCEPT !.result = result].target = attempt.target
         /\ [attempt EXCEPT !.result = result].port = attempt.port
  BY ReconAssumption DEF ScanAttempt

\* The end of an attempt, in the state and in the history.
LEMMA EndsIs ==
  ASSUME ScanTypeOK, WorkerInv, worker \in {"check", "connect"},
         NEW result \in {"blocked"} \cup TcpResults, EndsWith(result)
  PROVE  /\ attempt' \in ScanAttempt /\ attempt'.result # "none"
         /\ attempt'.target = attempt.target /\ attempt'.port = attempt.port
         /\ Amended([tries[Len(tries)] EXCEPT !.attempt = attempt'])
  <1>1. attempt' = [attempt EXCEPT !.result = result]
    BY DEF EndsWith
  <1>2. tries # << >> /\ tries[Len(tries)] \in ScanTry
    BY DEF WorkerInv, ScanTypeOK
  <1>3. attempt' \in ScanAttempt
    BY <1>1, ResultIs DEF ScanTypeOK
  <1>4. [tries[Len(tries)] EXCEPT !.attempt = attempt'] \in ScanTry
    BY <1>2, <1>3 DEF ScanTry
  <1>5. tries' = [tries EXCEPT ![Len(tries)] = [tries[Len(tries)] EXCEPT !.attempt = attempt']]
    BY DEF EndsWith
  <1> QED
    BY <1>1, <1>2, <1>3, <1>4, <1>5, ResultIs DEF Amended, ScanTypeOK

\* The two steps that write the records of an attempt.
LEMMA LogEventIs ==
  ASSUME ScanTypeOK, WorkerInv, LogEvent
  PROVE  /\ Amended([tries[Len(tries)] EXCEPT !.event = Outcome]) /\ Outcome \in Fate \ {"none"}
         /\ unwritten' \in 0..MaxUnwritten /\ UNCHANGED scanTruth
  <1>1. tries # << >> /\ tries[Len(tries)] \in ScanTry
    BY DEF WorkerInv, ScanTypeOK, LogEvent, WorkerSteps
  <1>2. Outcome \in Fate \ {"none"}
    BY DEF Outcome, Fate
  <1>3. [tries[Len(tries)] EXCEPT !.event = Outcome] \in ScanTry
    BY <1>1, <1>2 DEF ScanTry
  <1>4. tries' = [tries EXCEPT ![Len(tries)] = [tries[Len(tries)] EXCEPT !.event = Outcome]]
    BY DEF LogEvent
  <1> QED
    BY <1>1, <1>2, <1>3, <1>4, EventWritten DEF Amended, ScanTypeOK, LogEvent

LEMMA LogTruthIs ==
  ASSUME ScanTypeOK, WorkerInv, LogTruth
  PROVE  /\ Amended([tries[Len(tries)] EXCEPT !.truth = Outcome]) /\ Outcome \in Fate \ {"none"}
         /\ unwritten' \in 0..MaxUnwritten /\ scanTruth' \in Seq(ScanAttempt)
         /\ scanTruth' = IF scanConfig.logged /\ Outcome = "written"
                         THEN Append(scanTruth, attempt) ELSE scanTruth
  <1>1. tries # << >> /\ tries[Len(tries)] \in ScanTry
    BY DEF WorkerInv, ScanTypeOK, LogTruth, WorkerSteps
  <1>2. Outcome \in Fate \ {"none"}
    BY DEF Outcome, Fate
  <1>3. [tries[Len(tries)] EXCEPT !.truth = Outcome] \in ScanTry
    BY <1>1, <1>2 DEF ScanTry
  <1>4. tries' = [tries EXCEPT ![Len(tries)] = [tries[Len(tries)] EXCEPT !.truth = Outcome]]
    BY DEF LogTruth
  <1>5. PICK outcome \in AppendJsonl(scanConfig.logged, scanTruth, unwritten, attempt) :
          scanTruth' = outcome[1] /\ unwritten' = outcome[2]
    BY DEF LogTruth
  <1>6. /\ unwritten' \in 0..MaxUnwritten
        /\ scanTruth' = IF scanConfig.logged /\ Outcome = "written"
                        THEN Append(scanTruth, attempt) ELSE scanTruth
    BY <1>5, AppendedIs DEF ScanTypeOK, Outcome
  <1>7. scanTruth' \in Seq(ScanAttempt)
    BY <1>6 DEF ScanTypeOK
  <1> QED
    BY <1>1, <1>2, <1>3, <1>4, <1>6, <1>7 DEF Amended

\* The step that begins an attempt.
LEMMA NextAttemptIs ==
  ASSUME ScanTypeOK, WorkerInv, NextAttempt
  PROVE  /\ attempt' \in ScanAttempt /\ attempt'.result = "none"
         /\ <<attempt'.target, attempt'.port>> = PairAt(scanIndex % Slots)
         /\ tries' \in Seq(ScanTry) /\ Len(tries') = Len(tries) + 1 /\ Len(tries) < MaxTries
         /\ DOMAIN tries' = DOMAIN tries \cup {Len(tries) + 1}
         /\ \A i \in DOMAIN tries : tries'[i] = tries[i] /\ i < Len(tries) + 1
         /\ tries'[Len(tries) + 1] =
              [life |-> life, attempt |-> attempt', event |-> "none", truth |-> "none"]
  <1>1. attempt' = NextPair(scanIndex) /\ Pairs # {} /\ scanIndex \in Nat
    BY DEF NextAttempt, WorkerInv, WorkerSteps, ScanTypeOK
  <1>2. /\ attempt' \in ScanAttempt /\ attempt'.result = "none"
        /\ <<attempt'.target, attempt'.port>> = PairAt(scanIndex % Slots)
    BY <1>1, NextPairIs DEF ScanTypeOK
  <1> DEFINE new == [life |-> life, attempt |-> attempt', event |-> "none", truth |-> "none"]
  <1>3. new \in ScanTry
    BY <1>2 DEF ScanTry, Fate, ScanTypeOK
  <1>4. tries' = Append(tries, new) /\ tries \in Seq(ScanTry) /\ Len(tries) < MaxTries
    BY DEF NextAttempt, ScanTypeOK
  <1> HIDE DEF new
  <1>5. /\ tries' \in Seq(ScanTry) /\ Len(tries') = Len(tries) + 1
        /\ DOMAIN tries' = DOMAIN tries \cup {Len(tries) + 1}
        /\ \A i \in DOMAIN tries : tries'[i] = tries[i] /\ i < Len(tries) + 1
        /\ tries'[Len(tries) + 1] = new
    BY <1>3, <1>4
  <1> QED
    BY <1>2, <1>4, <1>5 DEF new

\* Every step keeps the state well formed; an attempt is counted once, so the
\* counter stays within what was begun.
LEMMA ScanTypeNext ==
  ASSUME ScanTypeOK, WorkerInv, CountInv, [ScanNext]_scanVars PROVE ScanTypeOK'
  <1> USE DEF ScanTypeOK
  <1>1. CASE ScanStart
    <2>1. scan' \in [status : {"disabled", "idle", "scanning", "stopped"}, attempts : Nat]
      BY <1>1 DEF ScanStart, Entry
    <2>2. unwritten' \in 0..MaxUnwritten /\ UNCHANGED scanTruth
      BY <1>1, EventWritten DEF ScanStart, fileVars
    <2>3. life' \in 0..MaxLives
      BY <1>1, ReconAssumption DEF ScanStart
    <2>4. worker' \in {worker, "delay"} /\ lifespan' = "up"
      BY <1>1 DEF ScanStart
    <2> QED
      BY <1>1, <2>1, <2>2, <2>3, <2>4 DEF ScanStart
  <1>2. CASE ScanStop
    BY <1>2 DEF ScanStop, fileVars
  <1>3. CASE ScanStopReturns \/ JoinTimesOut
    <2>1. MarkStopped /\ gaveUp' \in BOOLEAN
      BY <1>3 DEF ScanStopReturns, JoinTimesOut
    <2>2. scan' \in [status : {"disabled", "idle", "scanning", "stopped"}, attempts : Nat]
      BY <2>1 DEF MarkStopped
    <2> QED
      BY <2>1, <2>2 DEF MarkStopped, fileVars
  <1>4. CASE LogStop
    BY <1>4, EventWritten DEF LogStop
  <1>5. CASE Exit
    <2>1. scan' \in [status : {"disabled", "idle", "scanning", "stopped"}, attempts : Nat]
      BY <1>5 DEF Exit, Entry
    <2>2. attempt' \in ScanAttempt
      BY <1>5 DEF Exit, NoAttempt, ScanAttempt
    <2>3. 0 \in 0..MaxTries
      BY ReconAssumption
    <2> QED
      BY <1>5, <2>1, <2>2, <2>3 DEF Exit, fileVars
  <1>6. CASE Wait
    BY <1>6 DEF Wait, ControlUnchanged, fileVars
  <1>7. CASE LoopEnds \/ Allowed \/ Dies
    BY <1>7 DEF LoopEnds, Allowed, Dies, WorkerSteps, ControlUnchanged, fileVars
  <1>8. CASE NextAttempt
    <2>1. attempt' \in ScanAttempt /\ tries' \in Seq(ScanTry) /\ Len(tries) < MaxTries
      BY <1>8, NextAttemptIs
    <2>2. scanIndex' \in 0..MaxTries
      <3>1. TriesOf(life) \subseteq 1..Len(tries) /\ Len(tries) \in Nat
        BY DEF TriesOf
      <3>2. scanIndex <= Len(tries)
        BY <1>8, <3>1, CountIs DEF CountInv, WorkerInv, NextAttempt, WorkerSteps
      <3> QED
        BY <1>8, <2>1, <3>1, <3>2, ReconAssumption DEF NextAttempt
    <2>3. scan' \in [status : {"disabled", "idle", "scanning", "stopped"}, attempts : Nat]
      BY <1>8 DEF NextAttempt
    <2> QED
      BY <1>8, <2>1, <2>2, <2>3 DEF NextAttempt, WorkerSteps, ControlUnchanged, fileVars
  <1>9. ASSUME NEW result \in {"blocked"} \cup TcpResults, EndsWith(result),
               worker \in {"check", "connect"}, worker' = "event"
        PROVE  ScanTypeOK'
    <2>1. attempt' \in ScanAttempt /\ tries' \in Seq(ScanTry)
      BY <1>9, EndsIs, AmendedIs
    <2>2. scan' \in [status : {"disabled", "idle", "scanning", "stopped"}, attempts : Nat]
      <3>1. scan.attempts + 1 \in Nat
        OBVIOUS
      <3>2. scan' = [scan EXCEPT !.status = "idle", !.attempts = scan.attempts + 1]
        BY <1>9 DEF EndsWith
      <3> QED
        BY <3>1, <3>2
    <2> QED
      BY <1>9, <2>1, <2>2 DEF EndsWith, ControlUnchanged, fileVars
  <1>10. CASE Blocked \/ Connected
    BY <1>9, <1>10 DEF Blocked, Connected, WorkerSteps
  <1>11. CASE LogEvent
    <2>1. tries' \in Seq(ScanTry) /\ unwritten' \in 0..MaxUnwritten /\ UNCHANGED scanTruth
      BY <1>11, LogEventIs, AmendedIs
    <2> QED
      BY <1>11, <2>1 DEF LogEvent, WorkerSteps, ControlUnchanged
  <1>12. CASE LogTruth
    <2>1. tries' \in Seq(ScanTry) /\ unwritten' \in 0..MaxUnwritten /\ scanTruth' \in Seq(ScanAttempt)
      BY <1>12, LogTruthIs, AmendedIs
    <2> QED
      BY <1>12, <2>1 DEF LogTruth, WorkerSteps, ControlUnchanged
  <1>13. CASE UNCHANGED scanVars
    BY <1>13 DEF scanVars, fileVars
  <1> QED
    BY <1>1, <1>2, <1>3, <1>4, <1>5, <1>6, <1>7, <1>8, <1>10, <1>11, <1>12, <1>13
    DEF ScanNext, ScanThread, ScanMain

-----------------------------------------------------------------------------
(* What a step does to the attempts.                                       *)

\* Beginning one.
LEMMA BegunSets ==
  ASSUME ScanTypeOK, WorkerInv, NextAttempt
  PROVE  /\ TriesOf(life)' = TriesOf(life) \cup {Len(tries) + 1}
         /\ \A l : l # life => TriesOf(l)' = TriesOf(l)
         /\ \A l : FinishedOf(l)' = FinishedOf(l)
         /\ Written' = Written
         /\ Len(tries) + 1 \notin DOMAIN tries /\ Len(tries) + 1 \in DOMAIN tries'
  <1>1. life' = life
    BY DEF NextAttempt, ControlUnchanged
  <1>2. Len(tries) + 1 \notin DOMAIN tries /\ Len(tries) + 1 \in DOMAIN tries'
    BY NextAttemptIs
  <1>3. TriesOf(life)' = TriesOf(life) \cup {Len(tries) + 1}
    BY <1>1, NextAttemptIs DEF TriesOf
  <1>4. \A l : l # life => TriesOf(l)' = TriesOf(l)
    BY <1>1, NextAttemptIs DEF TriesOf
  <1>5. ASSUME NEW l PROVE FinishedOf(l)' = FinishedOf(l)
    BY <1>2, NextAttemptIs DEF FinishedOf, TriesOf
  <1>6. Written' = Written
    BY <1>2, NextAttemptIs DEF Written
  <1> QED
    BY <1>2, <1>3, <1>4, <1>5, <1>6

\* Amending the last one, which keeps its life.
LEMMA AmendedSets ==
  ASSUME ScanTypeOK, NEW last, Amended(last), last.life = tries[Len(tries)].life
  PROVE  \A l : TriesOf(l)' = TriesOf(l)
  BY AmendedIs DEF ScanTypeOK, TriesOf

\* A step that leaves the attempts alone.
LEMMA SameSets ==
  ASSUME UNCHANGED tries
  PROVE  \A l : TriesOf(l)' = TriesOf(l) /\ FinishedOf(l)' = FinishedOf(l)
  BY DEF TriesOf, FinishedOf

-----------------------------------------------------------------------------
(* What the worker has in hand.                                            *)

\* Steps that leave the attempts, the life and the configuration alone.
LEMMA WorkerStays ==
  ASSUME ScanTypeOK, WorkerInv, UNCHANGED <<scanConfig, life, tries, attempt>>,
         worker' = worker, lifespan' # "off", lifespan # "off"
  PROVE  WorkerInv'
  <1>1. Pairs' = Pairs /\ TriesOf(life)' = TriesOf(life)
    BY DEF Pairs, TriesOf
  <1> QED
    BY <1>1 DEF WorkerInv

\* The thread goes on to a place where it has nothing in hand.
LEMMA WorkerFree ==
  ASSUME ScanTypeOK, WorkerInv, UNCHANGED <<scanConfig, life, tries, lifespan>>,
         worker \in {"delay", "wait", "top"}, worker' \in {"top", "ended"}
  PROVE  WorkerInv'
  <1>1. Pairs' = Pairs /\ TriesOf(life)' = TriesOf(life)
    BY DEF Pairs, TriesOf
  <1> QED
    BY <1>1 DEF WorkerInv

\* Every step keeps the attempt in hand.
LEMMA WorkerNext ==
  ASSUME ScanTypeOK, WorkerInv, TriesInv, [ScanNext]_scanVars PROVE WorkerInv'
  <1>1. CASE ScanStart
    <2>1. /\ worker = "none" /\ UNCHANGED <<scanConfig, tries>> /\ life' = life + 1 /\ lifespan' = "up"
          /\ worker' = IF scanConfig.enabled /\ Pairs # {} THEN "delay" ELSE "none"
      BY <1>1 DEF ScanStart, WorkerInv
    <2>2. TriesOf(life)' = {} /\ Pairs' = Pairs
      <3>1. \A i \in DOMAIN tries : tries[i].life # life + 1
        BY DEF TriesInv, ScanTypeOK
      <3> QED
        BY <2>1, <3>1 DEF TriesOf, Pairs
    <2>3. worker' \in {"none", "delay"}
      BY <2>1
    <2> QED
      BY <2>1, <2>2, <2>3 DEF WorkerInv
  <1>2. CASE ScanStop \/ ScanStopReturns \/ JoinTimesOut \/ LogStop
    <2>1. UNCHANGED <<scanConfig, life, tries, attempt, worker>>
      BY <1>2 DEF ScanStop, ScanStopReturns, JoinTimesOut, MarkStopped, LogStop
    <2>2. lifespan' # "off" /\ lifespan # "off"
      BY <1>2 DEF ScanStop, ScanStopReturns, JoinTimesOut, MarkStopped, LogStop
    <2> QED
      BY <2>1, <2>2, WorkerStays
  <1>3. CASE Exit
    BY <1>3 DEF Exit, WorkerInv
  <1>4. CASE Wait \/ LoopEnds
    <2>1. UNCHANGED <<scanConfig, life, tries, lifespan>>
      BY <1>4 DEF Wait, LoopEnds, ControlUnchanged
    <2>2. worker \in {"delay", "wait", "top"} /\ worker' \in {"top", "ended"}
      BY <1>4 DEF Wait, LoopEnds, WorkerSteps
    <2> QED
      BY <2>1, <2>2, WorkerFree
  <1>5. CASE NextAttempt
    <2>1. UNCHANGED <<scanConfig, life, lifespan>> /\ worker = "top" /\ worker' = "check"
      BY <1>5 DEF NextAttempt, ControlUnchanged, WorkerSteps
    <2>2. /\ attempt'.result = "none" /\ Len(tries') = Len(tries) + 1 /\ tries' # << >>
          /\ tries'[Len(tries')] =
               [life |-> life, attempt |-> attempt', event |-> "none", truth |-> "none"]
      BY <1>5, NextAttemptIs
    <2>3. \A i \in TriesOf(life)' : tries'[i].truth = "none" => i = Len(tries')
      <3>1. \A i \in TriesOf(life) : tries[i].truth # "none" /\ tries'[i] = tries[i]
        BY <1>5, <2>1, NextAttemptIs DEF WorkerInv, TriesOf
      <3> QED
        BY <1>5, <2>2, <3>1, BegunSets
    <2>4. Pairs' = Pairs
      BY <2>1 DEF Pairs
    <2> QED
      BY <2>1, <2>2, <2>3, <2>4 DEF WorkerInv
  <1>6. CASE Allowed \/ Dies
    <2>1. UNCHANGED <<scanConfig, life, tries, attempt, lifespan>>
      BY <1>6 DEF Allowed, Dies, ControlUnchanged
    <2>2. worker = "check" /\ worker' \in {"connect", "ended"}
      BY <1>6 DEF Allowed, Dies, WorkerSteps
    <2>3. Pairs' = Pairs /\ TriesOf(life)' = TriesOf(life)
      BY <2>1 DEF Pairs, TriesOf
    <2> QED
      BY <2>1, <2>2, <2>3 DEF WorkerInv
  <1>7. ASSUME NEW last, Amended(last), UNCHANGED <<scanConfig, life, lifespan>>,
               worker \in {"check", "connect", "event", "truth"},
               last.life = tries[Len(tries)].life,
               \/ /\ worker' \in {"event", "truth"}
                  /\ last.attempt = attempt' /\ last.truth = "none" /\ attempt'.result # "none"
                  /\ last.event = "none" <=> worker' = "event"
               \/ worker' = "wait" /\ last.truth # "none"
        PROVE  WorkerInv'
    <2>1. \A l : TriesOf(l)' = TriesOf(l)
      BY <1>7, AmendedSets
    <2>2. /\ Len(tries') = Len(tries) /\ tries' # << >> /\ tries'[Len(tries)] = last
          /\ \A i \in DOMAIN tries : i # Len(tries) => tries'[i] = tries[i]
      BY <1>7, AmendedIs DEF ScanTypeOK
    <2>3. Pairs' = Pairs
      BY <1>7 DEF Pairs
    <2>4. \A i \in TriesOf(life)' : tries'[i].truth = "none" => i = Len(tries) /\ last.truth = "none"
      BY <1>7, <2>1, <2>2 DEF WorkerInv, TriesOf
    <2>5. tries[Len(tries)].life = life
      BY <1>7 DEF WorkerInv
    <2> QED
      BY <1>7, <2>1, <2>2, <2>3, <2>4, <2>5 DEF WorkerInv
  <1>8. ASSUME NEW result \in {"blocked"} \cup TcpResults, EndsWith(result),
               worker \in {"check", "connect"}, worker' = "event"
        PROVE  WorkerInv'
    <2> DEFINE last == [tries[Len(tries)] EXCEPT !.attempt = attempt']
    <2>1. Amended(last) /\ attempt'.result # "none"
      BY <1>8, EndsIs
    <2>2. /\ last.life = tries[Len(tries)].life /\ last.attempt = attempt'
          /\ last.truth = "none" /\ last.event = "none"
      <3>1. tries[Len(tries)] \in ScanTry /\ tries[Len(tries)].truth = "none" /\ tries[Len(tries)].event = "none"
        BY <1>8 DEF WorkerInv, ScanTypeOK
      <3> QED
        BY <3>1 DEF ScanTry
    <2>3. UNCHANGED <<scanConfig, life, lifespan>>
      BY <1>8 DEF EndsWith, ControlUnchanged
    <2> HIDE DEF last
    <2> QED
      BY <1>7, <1>8, <2>1, <2>2, <2>3
  <1>9. CASE Blocked \/ Connected
    BY <1>8, <1>9 DEF Blocked, Connected, WorkerSteps
  <1>10. CASE LogEvent
    <2> DEFINE last == [tries[Len(tries)] EXCEPT !.event = Outcome]
    <2>1. Amended(last) /\ Outcome # "none"
      BY <1>10, LogEventIs
    <2>2. UNCHANGED <<scanConfig, life, lifespan, attempt>> /\ worker = "event" /\ worker' = "truth"
      BY <1>10 DEF LogEvent, ControlUnchanged, WorkerSteps
    <2>3. /\ last.life = tries[Len(tries)].life /\ last.attempt = attempt' /\ attempt'.result # "none"
          /\ last.truth = "none" /\ last.event # "none"
      <3>1. tries[Len(tries)] \in ScanTry /\ tries[Len(tries)].truth = "none"
            /\ tries[Len(tries)].attempt = attempt /\ attempt.result # "none"
        BY <2>2 DEF WorkerInv, ScanTypeOK
      <3> QED
        BY <2>1, <2>2, <3>1 DEF ScanTry
    <2> HIDE DEF last
    <2> QED
      BY <1>7, <2>1, <2>2, <2>3
  <1>11. CASE LogTruth
    <2> DEFINE last == [tries[Len(tries)] EXCEPT !.truth = Outcome]
    <2>1. Amended(last) /\ Outcome # "none"
      BY <1>11, LogTruthIs
    <2>2. UNCHANGED <<scanConfig, life, lifespan>> /\ worker = "truth" /\ worker' = "wait"
      BY <1>11 DEF LogTruth, ControlUnchanged, WorkerSteps
    <2>3. last.life = tries[Len(tries)].life /\ last.truth # "none"
      <3>1. tries[Len(tries)] \in ScanTry
        BY <2>2 DEF WorkerInv, ScanTypeOK
      <3> QED
        BY <2>1, <3>1 DEF ScanTry
    <2> HIDE DEF last
    <2> QED
      BY <1>7, <2>1, <2>2, <2>3
  <1>12. CASE UNCHANGED scanVars
    <2>1. Pairs' = Pairs /\ TriesOf(life)' = TriesOf(life)
      BY <1>12 DEF scanVars, Pairs, TriesOf
    <2> QED
      BY <1>12, <2>1 DEF scanVars, WorkerInv
  <1> QED
    BY <1>1, <1>2, <1>3, <1>4, <1>5, <1>6, <1>9, <1>10, <1>11, <1>12
    DEF ScanNext, ScanThread, ScanMain
-----------------------------------------------------------------------------
(* How the attempts change.                                                *)

\* The end of an attempt finishes it and changes nothing else of it.
LEMMA EndsSets ==
  ASSUME ScanTypeOK, WorkerInv, worker \in {"check", "connect"},
         NEW result \in {"blocked"} \cup TcpResults, EndsWith(result)
  PROVE  /\ \A l : TriesOf(l)' = TriesOf(l)
         /\ FinishedOf(life)' = FinishedOf(life) \cup {Len(tries)}
         /\ Len(tries) \in TriesOf(life) \ FinishedOf(life)
         /\ \A l : l # life => FinishedOf(l)' = FinishedOf(l)
         /\ Written' = Written /\ DOMAIN tries' = DOMAIN tries
         /\ \A i \in DOMAIN tries :
              /\ tries'[i].attempt.target = tries[i].attempt.target
              /\ tries'[i].attempt.port = tries[i].attempt.port
              /\ tries'[i].life = tries[i].life
              /\ tries'[i].truth = tries[i].truth /\ tries'[i].event = tries[i].event
              /\ tries'[i] # tries[i] =>
                   tries[i].truth = "none" /\ tries'[i].attempt.result # "none"
  <1> DEFINE old  == tries[Len(tries)]
             last == [old EXCEPT !.attempt = attempt']
  <1>1. /\ Amended(last) /\ attempt'.result # "none"
        /\ attempt'.target = attempt.target /\ attempt'.port = attempt.port
    BY EndsIs
  <1>2. /\ old \in ScanTry /\ old.life = life /\ old.attempt = attempt /\ old.truth = "none"
        /\ attempt.result = "none"
    BY DEF WorkerInv, ScanTypeOK
  <1>3. /\ last.life = old.life /\ last.attempt = attempt'
        /\ last.event = old.event /\ last.truth = old.truth
    BY <1>2 DEF ScanTry
  <1> HIDE DEF old, last
  <1>4. /\ DOMAIN tries' = DOMAIN tries /\ Len(tries) \in DOMAIN tries /\ tries'[Len(tries)] = last
        /\ \A i \in DOMAIN tries : i # Len(tries) => tries'[i] = tries[i]
    BY <1>1, AmendedIs DEF ScanTypeOK
  <1>5. tries[Len(tries)] = old /\ life' = life
    BY DEF old, EndsWith, ControlUnchanged
  <1>6. \A i \in DOMAIN tries :
          /\ tries'[i].attempt.target = tries[i].attempt.target
          /\ tries'[i].attempt.port = tries[i].attempt.port
          /\ tries'[i].life = tries[i].life
          /\ tries'[i].truth = tries[i].truth /\ tries'[i].event = tries[i].event
          /\ tries'[i] # tries[i] => tries[i].truth = "none" /\ tries'[i].attempt.result # "none"
    BY <1>1, <1>2, <1>3, <1>4, <1>5
  <1>7. \A l : TriesOf(l)' = TriesOf(l)
    BY <1>4, <1>6 DEF TriesOf
  <1>8. Len(tries) \in TriesOf(life) \ FinishedOf(life)
    BY <1>2, <1>4, <1>5 DEF TriesOf, FinishedOf
  <1>9. FinishedOf(life)' = FinishedOf(life) \cup {Len(tries)}
    BY <1>1, <1>3, <1>4, <1>5, <1>7, <1>8 DEF FinishedOf, TriesOf
  <1>10. ASSUME NEW l, l # life PROVE FinishedOf(l)' = FinishedOf(l)
    <2>1. Len(tries) \notin TriesOf(l)
      BY <1>8, <1>10 DEF TriesOf
    <2> QED
      BY <1>4, <1>7, <2>1 DEF FinishedOf, TriesOf
  <1>11. Written' = Written
    BY <1>4, <1>6 DEF Written
  <1> QED
    BY <1>4, <1>6, <1>7, <1>8, <1>9, <1>10, <1>11

\* Writing the records changes what was written and nothing else.
LEMMA LogEventSets ==
  ASSUME ScanTypeOK, WorkerInv, LogEvent
  PROVE  /\ \A l : TriesOf(l)' = TriesOf(l) /\ FinishedOf(l)' = FinishedOf(l)
         /\ Written' = Written /\ DOMAIN tries' = DOMAIN tries
         /\ \A i \in DOMAIN tries :
              /\ tries'[i].attempt = tries[i].attempt /\ tries'[i].life = tries[i].life
              /\ tries'[i].truth = tries[i].truth
              /\ tries[i].event # "none" => tries'[i].event # "none"
  <1> DEFINE old  == tries[Len(tries)]
             last == [old EXCEPT !.event = Outcome]
  <1>1. Amended(last) /\ Outcome # "none"
    BY LogEventIs
  <1>2. old \in ScanTry
    BY DEF WorkerInv, ScanTypeOK, LogEvent, WorkerSteps
  <1>3. /\ last.life = old.life /\ last.attempt = old.attempt
        /\ last.event = Outcome /\ last.truth = old.truth
    BY <1>2 DEF ScanTry
  <1> HIDE DEF old, last
  <1>4. /\ DOMAIN tries' = DOMAIN tries /\ Len(tries) \in DOMAIN tries /\ tries'[Len(tries)] = last
        /\ \A i \in DOMAIN tries : i # Len(tries) => tries'[i] = tries[i]
    BY <1>1, AmendedIs DEF ScanTypeOK
  <1>5. tries[Len(tries)] = old
    BY DEF old
  <1>6. \A i \in DOMAIN tries :
          /\ tries'[i].attempt = tries[i].attempt /\ tries'[i].life = tries[i].life
          /\ tries'[i].truth = tries[i].truth
          /\ tries[i].event # "none" => tries'[i].event # "none"
    BY <1>1, <1>3, <1>4, <1>5
  <1>7. \A l : TriesOf(l)' = TriesOf(l) /\ FinishedOf(l)' = FinishedOf(l)
    BY <1>4, <1>6 DEF TriesOf, FinishedOf
  <1>8. Written' = Written
    BY <1>4, <1>6 DEF Written
  <1> QED
    BY <1>4, <1>6, <1>7, <1>8

LEMMA LogTruthSets ==
  ASSUME ScanTypeOK, WorkerInv, LogTruth
  PROVE  /\ \A l : TriesOf(l)' = TriesOf(l) /\ FinishedOf(l)' = FinishedOf(l)
         /\ Written' = IF Outcome = "written" THEN Written \cup {Len(tries)} ELSE Written
         /\ Len(tries) \notin Written /\ DOMAIN tries' = DOMAIN tries
         /\ tries[Len(tries)].attempt = attempt /\ attempt.result # "none"
         /\ tries[Len(tries)].event # "none"
         /\ \A i \in DOMAIN tries :
              /\ tries'[i].attempt = tries[i].attempt /\ tries'[i].life = tries[i].life
              /\ tries'[i].event = tries[i].event
              /\ tries[i].truth # "none" => tries'[i].truth # "none"
              /\ tries'[i].truth # tries[i].truth => i = Len(tries)
  <1> DEFINE old  == tries[Len(tries)]
             last == [old EXCEPT !.truth = Outcome]
  <1>1. Amended(last) /\ Outcome \in Fate \ {"none"}
    BY LogTruthIs
  <1>2. /\ old \in ScanTry /\ old.truth = "none" /\ old.attempt = attempt
        /\ attempt.result # "none" /\ old.event # "none"
    BY DEF WorkerInv, ScanTypeOK, LogTruth, WorkerSteps
  <1>3. /\ last.life = old.life /\ last.attempt = old.attempt
        /\ last.event = old.event /\ last.truth = Outcome
    BY <1>2 DEF ScanTry
  <1> HIDE DEF old, last
  <1>4. /\ DOMAIN tries' = DOMAIN tries /\ Len(tries) \in DOMAIN tries /\ tries'[Len(tries)] = last
        /\ \A i \in DOMAIN tries : i # Len(tries) => tries'[i] = tries[i]
    BY <1>1, AmendedIs DEF ScanTypeOK
  <1>5. tries[Len(tries)] = old
    BY DEF old
  <1>6. \A i \in DOMAIN tries :
          /\ tries'[i].attempt = tries[i].attempt /\ tries'[i].life = tries[i].life
          /\ tries'[i].event = tries[i].event
          /\ tries[i].truth # "none" => tries'[i].truth # "none"
          /\ tries'[i].truth # tries[i].truth => i = Len(tries)
    BY <1>1, <1>2, <1>3, <1>4, <1>5
  <1>7. \A l : TriesOf(l)' = TriesOf(l) /\ FinishedOf(l)' = FinishedOf(l)
    BY <1>4, <1>6 DEF TriesOf, FinishedOf
  <1>8. Len(tries) \notin Written
    BY <1>2, <1>5 DEF Written
  <1>9. Written' = IF Outcome = "written" THEN Written \cup {Len(tries)} ELSE Written
    BY <1>1, <1>3, <1>4, <1>8 DEF Written, Fate
  <1> QED
    BY <1>2, <1>4, <1>5, <1>6, <1>7, <1>8, <1>9

\* The steps that touch no attempt.
OtherStep ==
  \/ ScanStart \/ ScanStop \/ ScanStopReturns \/ JoinTimesOut \/ LogStop \/ Exit
  \/ Wait \/ LoopEnds \/ Allowed \/ Dies \/ UNCHANGED scanVars

LEMMA OtherStepIs ==
  ASSUME OtherStep PROVE UNCHANGED <<scanConfig, tries, scanTruth>>
  BY DEF OtherStep, ScanStart, ScanStop, ScanStopReturns, JoinTimesOut, MarkStopped, LogStop, Exit,
    Wait, LoopEnds, Allowed, Dies, ControlUnchanged, WriteEvent, fileVars, scanVars

\* The steps, by what they do to the attempts.
LEMMA StepIs ==
  ASSUME [ScanNext]_scanVars
  PROVE  \/ OtherStep \/ NextAttempt \/ LogEvent \/ LogTruth
         \/ /\ worker \in {"check", "connect"} /\ worker' = "event"
            /\ \E result \in {"blocked"} \cup TcpResults : EndsWith(result)
  BY DEF ScanNext, ScanThread, ScanMain, OtherStep, Blocked, Connected, WorkerSteps

-----------------------------------------------------------------------------
(* The counts.                                                             *)

\* The lives of the attempts.
LEMMA TriesNext ==
  ASSUME ScanTypeOK, WorkerInv, TriesInv, [ScanNext]_scanVars PROVE TriesInv'
  <1>1. life \in Nat /\ life' \in {life, life + 1} /\ (life' = 0 => lifespan' = "off")
    <2>1. CASE ScanStart
      BY <2>1 DEF ScanStart, ScanTypeOK
    <2>2. CASE ~ScanStart
      <3>1. life' = life /\ (lifespan = "off" => lifespan' = "off")
        <4>1. CASE OtherStep
          BY <2>2, <4>1 DEF OtherStep, ScanStop, ScanStopReturns, JoinTimesOut, MarkStopped, LogStop,
            Exit, Wait, LoopEnds, Allowed, Dies, ControlUnchanged, scanVars
        <4>2. CASE ControlUnchanged
          BY <4>2 DEF ControlUnchanged
        <4> QED
          BY <4>1, <4>2, StepIs DEF NextAttempt, LogEvent, LogTruth, EndsWith
      <3> QED
        BY <3>1 DEF ScanTypeOK, TriesInv
    <2> QED
      BY <2>1, <2>2
  <1>2. ASSUME DOMAIN tries' = DOMAIN tries, \A i \in DOMAIN tries : tries'[i].life = tries[i].life
        PROVE  TriesInv'
    BY <1>1, <1>2 DEF TriesInv
  <1>3. CASE OtherStep
    BY <1>2, <1>3, OtherStepIs
  <1>4. CASE NextAttempt
    <2>1. life > 0 /\ life' = life
      BY <1>1, <1>4 DEF NextAttempt, ControlUnchanged, WorkerSteps, WorkerInv, TriesInv
    <2>2. /\ DOMAIN tries' = DOMAIN tries \cup {Len(tries) + 1} /\ DOMAIN tries = 1..Len(tries)
          /\ \A i \in DOMAIN tries : tries'[i] = tries[i] /\ i < Len(tries) + 1
          /\ tries'[Len(tries) + 1].life = life /\ Len(tries) \in Nat
      BY <1>4, NextAttemptIs DEF ScanTypeOK
    <2> QED
      BY <1>1, <2>1, <2>2 DEF TriesInv
  <1>5. CASE LogEvent
    BY <1>2, <1>5, LogEventSets
  <1>6. CASE LogTruth
    BY <1>2, <1>6, LogTruthSets
  <1>7. ASSUME worker \in {"check", "connect"}, NEW result \in {"blocked"} \cup TcpResults,
               EndsWith(result)
        PROVE  TriesInv'
    BY <1>2, <1>7, EndsSets
  <1> QED
    BY <1>3, <1>4, <1>5, <1>6, <1>7, StepIs

\* The sets that are counted.
LEMMA Counted ==
  ASSUME ScanTypeOK
  PROVE  /\ \A l : TriesOf(l) \subseteq 1..Len(tries) /\ FinishedOf(l) \subseteq TriesOf(l)
         /\ Len(tries) \in Nat /\ DOMAIN tries = 1..Len(tries)
  BY DEF ScanTypeOK, TriesOf, FinishedOf

\* The counters count.
LEMMA CountNext ==
  ASSUME ScanTypeOK, WorkerInv, TriesInv, CountInv, [ScanNext]_scanVars PROVE CountInv'
  <1>1. CASE ScanStart
    <2>1. /\ life' = life + 1 /\ lifespan' = "up" /\ scan'.attempts = 0
          /\ UNCHANGED <<scanIndex, tries>>
      BY <1>1 DEF ScanStart, Entry
    <2>2. TriesOf(life)' = {} /\ FinishedOf(life)' = {}
      <3>1. \A i \in DOMAIN tries : tries[i].life # life + 1
        BY DEF TriesInv, ScanTypeOK
      <3> QED
        BY <2>1, <3>1 DEF TriesOf, FinishedOf
    <2>3. scanIndex = 0
      BY <1>1 DEF ScanStart, CountInv
    <2> QED
      BY <2>1, <2>2, <2>3, FS_EmptySet DEF CountInv
  <1>2. CASE Exit
    BY <1>2 DEF Exit, CountInv
  <1>3. ASSUME OtherStep, ~ScanStart, ~Exit PROVE CountInv'
    <2>1. UNCHANGED <<life, scanIndex, tries, lifespan>> \/ (UNCHANGED <<life, scanIndex, tries>> /\ lifespan # "off" /\ lifespan' # "off")
      BY <1>3 DEF OtherStep, ScanStop, ScanStopReturns, JoinTimesOut, MarkStopped, LogStop,
        Wait, LoopEnds, Allowed, Dies, ControlUnchanged, scanVars
    <2>2. scan'.attempts = scan.attempts
      <3>1. CASE MarkStopped
        BY <3>1 DEF MarkStopped, ScanTypeOK
      <3>2. CASE ~MarkStopped
        BY <1>3, <3>2 DEF OtherStep, ScanStop, ScanStopReturns, JoinTimesOut, LogStop,
          Wait, LoopEnds, Allowed, Dies, scanVars
      <3> QED
        BY <3>1, <3>2
    <2>3. \/ worker' = worker /\ attempt' = attempt
          \/ worker \in {"delay", "wait", "top"}
          \/ worker = "check" /\ worker' = "connect"
          \/ worker = "check" /\ worker' = "ended" /\ attempt' = attempt /\ attempt.target \in Unencodable
      BY <1>3 DEF OtherStep, ScanStop, ScanStopReturns, JoinTimesOut, MarkStopped, LogStop,
        Wait, LoopEnds, Allowed, Dies, WorkerSteps, scanVars
    <2>4. TriesOf(life)' = TriesOf(life) /\ FinishedOf(life)' = FinishedOf(life)
      BY <2>1 DEF TriesOf, FinishedOf
    <2> QED
      BY <2>1, <2>2, <2>3, <2>4 DEF CountInv
  <1>4. CASE NextAttempt
    <2>1. /\ worker = "top" /\ worker' = "check" /\ lifespan # "off" /\ lifespan' = lifespan
          /\ life' = life /\ scanIndex' = scanIndex + 1
      BY <1>4 DEF NextAttempt, WorkerSteps, ControlUnchanged, WorkerInv
    <2>2. scan'.attempts = scan.attempts
      BY <1>4 DEF NextAttempt, ScanTypeOK
    <2>3. TriesOf(life)' = TriesOf(life) \cup {Len(tries) + 1} /\ FinishedOf(life)' = FinishedOf(life)
      BY <1>4, <2>1, BegunSets
    <2>4. Cardinality(TriesOf(life) \cup {Len(tries) + 1}) = Cardinality(TriesOf(life)) + 1
      <3>1. Len(tries) + 1 \notin TriesOf(life)
        BY <1>4, BegunSets DEF TriesOf
      <3> QED
        BY <3>1, Counted, CountGrows
    <2>5. Len(tries') = Len(tries) + 1
      BY <1>4, NextAttemptIs
    <2> QED
      BY <2>1, <2>2, <2>3, <2>4, <2>5 DEF CountInv
  <1>5. CASE LogEvent \/ LogTruth
    <2>1. UNCHANGED <<lifespan, life, scanIndex, scan>> /\ worker \in {"event", "truth"}
      BY <1>5 DEF LogEvent, LogTruth, WorkerSteps, ControlUnchanged
    <2>2. TriesOf(life)' = TriesOf(life) /\ FinishedOf(life)' = FinishedOf(life)
      BY <1>5, <2>1, LogEventSets, LogTruthSets
    <2> QED
      BY <2>1, <2>2 DEF CountInv
  <1>6. ASSUME worker \in {"check", "connect"}, worker' = "event",
               NEW result \in {"blocked"} \cup TcpResults, EndsWith(result)
        PROVE  CountInv'
    <2>1. UNCHANGED <<lifespan, life, scanIndex>> /\ lifespan # "off"
      BY <1>6 DEF EndsWith, ControlUnchanged, WorkerInv
    <2>2. scan'.attempts = scan.attempts + 1
      BY <1>6 DEF EndsWith, ScanTypeOK
    <2>3. /\ TriesOf(life)' = TriesOf(life) /\ FinishedOf(life)' = FinishedOf(life) \cup {Len(tries)}
          /\ Len(tries) \notin FinishedOf(life)
      BY <1>6, <2>1, EndsSets
    <2>4. Cardinality(FinishedOf(life) \cup {Len(tries)}) = Cardinality(FinishedOf(life)) + 1
      BY <2>3, Counted, CountGrows
    <2>5. TriesOf(life)' \ FinishedOf(life)' = {}
      BY <2>1, <2>3 DEF CountInv
    <2> QED
      BY <2>1, <2>2, <2>3, <2>4, <2>5 DEF CountInv
  <1> QED
    BY <1>1, <1>2, <1>3, <1>4, <1>5, <1>6, StepIs

\* A join that did not time out waited for the thread.
LEMMA JoinNext ==
  ASSUME ScanTypeOK, WorkerInv, JoinInv, [ScanNext]_scanVars PROVE JoinInv'
  <1>1. CASE ScanStart \/ Exit
    BY <1>1 DEF ScanStart, Exit, JoinInv
  <1>2. CASE ScanStop
    BY <1>2 DEF ScanStop, JoinInv
  <1>3. CASE ScanStopReturns \/ JoinTimesOut
    BY <1>3 DEF ScanStopReturns, JoinTimesOut, MarkStopped, JoinInv, ScanTypeOK
  <1>4. CASE LogStop
    BY <1>4 DEF LogStop, JoinInv
  <1>5. ASSUME ControlUnchanged, worker \notin {"none", "ended"} PROVE JoinInv'
    BY <1>5 DEF ControlUnchanged, JoinInv
  <1>6. CASE Wait \/ LoopEnds \/ Allowed \/ Dies \/ NextAttempt \/ LogEvent \/ LogTruth
    BY <1>5, <1>6 DEF Wait, LoopEnds, Allowed, Dies, NextAttempt, LogEvent, LogTruth, WorkerSteps
  <1>7. ASSUME worker \in {"check", "connect"}, NEW result, EndsWith(result) PROVE JoinInv'
    BY <1>5, <1>7 DEF EndsWith
  <1>8. CASE UNCHANGED scanVars
    BY <1>8 DEF scanVars, JoinInv
  <1> QED
    BY <1>1, <1>2, <1>3, <1>4, <1>6, <1>7, <1>8, StepIs DEF OtherStep

\* What a stop tells.
LEMMA StopTells ==
  ASSUME ScanTypeOK, WorkerInv, CountInv, JoinInv PROVE StopTellsTruth
  <1> DEFINE B == TriesOf(life)
             F == FinishedOf(life)
             begun == Cardinality(B)
             finished == Cardinality(F)
  <1> SUFFICES ASSUME lifespan # "off"
               PROVE  /\ finished \in {begun, begun - 1}
                      /\ finished < begun => \E i : i \in B \ F
    BY DEF StopTellsTruth, CountInv, JoinInv
  <1>1. F \subseteq B /\ B \subseteq 1..Len(tries) /\ Len(tries) \in Nat
    BY Counted
  <1>2. \A i \in B \ F : i = Len(tries)
    BY DEF CountInv
  <1>3. begun \in Nat /\ finished \in Nat
    BY <1>1, CountIs
  <1>4. CASE B = F
    BY <1>3, <1>4
  <1>5. CASE B # F
    <2>1. PICK i \in B : i \notin F
      BY <1>1, <1>5
    <2>2. B = F \cup {i}
      BY <1>1, <1>2, <2>1
    <2>3. F \subseteq 1..Len(tries)
      BY <1>1
    <2> HIDE DEF B, F
    <2>4. Cardinality(F \cup {i}) = Cardinality(F) + 1
      BY <1>1, <2>1, <2>3, CountGrows
    <2> QED
      BY <1>3, <2>1, <2>2, <2>4
  <1> QED
    BY <1>4, <1>5

-----------------------------------------------------------------------------
(* The ground truth.                                                       *)

\* The place of a written attempt is a line of the file.
LEMMA PlaceIs ==
  ASSUME ScanTypeOK, NEW i \in Written
  PROVE  PlaceInTruth(i) \in 1..Cardinality(Written)
  <1> DEFINE before == {j \in Written : j <= i}
  <1>1. Written \subseteq 1..Len(tries) /\ Len(tries) \in Nat
    BY Counted DEF Written
  <1>2. IsFiniteSet(Written) /\ Cardinality(Written) \in Nat
    BY <1>1, CountIs
  <1>3. before \subseteq Written /\ i \in before
    BY <1>1
  <1>4. IsFiniteSet(before) /\ Cardinality(before) <= Cardinality(Written) /\ Cardinality(before) \in Nat
    BY <1>2, <1>3, FS_Subset, FS_CardinalityType
  <1>5. Cardinality(before) # 0
    BY <1>3, <1>4, FS_EmptySet
  <1> HIDE DEF before
  <1>6. Cardinality(before) \in 1..Cardinality(Written)
    BY <1>2, <1>4, <1>5
  <1> QED
    BY <1>6 DEF PlaceInTruth, before

\* A step that writes no ground truth leaves it complete.
LEMMA TruthStays ==
  ASSUME ScanTypeOK, TruthIsComplete, UNCHANGED <<scanConfig, scanTruth>>,
         Written' = Written, DOMAIN tries' = DOMAIN tries,
         \A i \in DOMAIN tries :
           /\ tries'[i].life = tries[i].life /\ tries'[i].truth = tries[i].truth
           /\ tries[i].event # "none" => tries'[i].event # "none"
           /\ tries[i].truth # "none" => tries'[i].attempt = tries[i].attempt
  PROVE  TruthIsComplete'
  <1>1. \A i \in Written : PlaceInTruth(i)' = PlaceInTruth(i)
    BY DEF PlaceInTruth
  <1>2. \A i \in Written : i \in DOMAIN tries /\ tries'[i].attempt = tries[i].attempt
    BY DEF Written
  <1>3. \A l : TriesOf(l)' = TriesOf(l)
    BY DEF TriesOf
  <1> QED
    BY <1>1, <1>2, <1>3 DEF TruthIsComplete

\* The file grows by the attempt in hand, which is the last one.
LEMMA TruthGrows ==
  ASSUME ScanTypeOK, WorkerInv, LogTruth, Outcome = "written", scanConfig.logged,
         TruthIsComplete
  PROVE  /\ Len(scanTruth') = Cardinality(Written')
         /\ \A i \in Written' : scanTruth'[PlaceInTruth(i)'] = tries'[i].attempt
  <1> DEFINE n == Len(tries)
             k == Cardinality(Written)
  <1>1. /\ Written' = Written \cup {n} /\ n \notin Written /\ tries[n].attempt = attempt
        /\ \A i \in DOMAIN tries : tries'[i].attempt = tries[i].attempt
    BY LogTruthSets
  <1>2. scanTruth' = Append(scanTruth, attempt) /\ scanTruth \in Seq(ScanAttempt)
    BY LogTruthIs DEF ScanTypeOK
  <1>3. Written \subseteq 1..n /\ n \in Nat /\ DOMAIN tries = 1..n
    BY Counted DEF Written
  <1>4. k = Len(scanTruth) /\ k \in Nat
    BY <1>3, CountIs DEF TruthIsComplete
  <1>5. Cardinality(Written \cup {n}) = k + 1
    BY <1>1, <1>3, CountGrows
  <1>6. n \in DOMAIN tries
    BY AmendedIs, LogTruthIs DEF ScanTypeOK
  <1> HIDE DEF n, k
  <1>7. ASSUME NEW i, i = n PROVE scanTruth'[PlaceInTruth(i)'] = tries'[i].attempt
    <2>1. {j \in Written \cup {n} : j <= i} = Written \cup {n}
      <3>1. \A j \in Written \cup {n} : j <= i
        BY <1>3, <1>7
      <3> QED
        BY <3>1
    <2>2. PlaceInTruth(i)' = k + 1
      BY <1>1, <1>5, <2>1 DEF PlaceInTruth
    <2>3. scanTruth'[k + 1] = attempt
      BY <1>2, <1>4
    <2> QED
      BY <1>1, <1>6, <1>7, <2>2, <2>3
  <1>8. ASSUME NEW i \in Written PROVE scanTruth'[PlaceInTruth(i)'] = tries'[i].attempt
    <2>1. i \in 1..n /\ i # n
      BY <1>1, <1>3
    <2>2. {j \in Written \cup {n} : j <= i} = {j \in Written : j <= i}
      <3>1. ~(n <= i)
        BY <1>3, <2>1
      <3> QED
        BY <3>1
    <2>3. PlaceInTruth(i)' = PlaceInTruth(i)
      BY <1>1, <2>2 DEF PlaceInTruth
    <2>4. PlaceInTruth(i) \in 1..k
      BY PlaceIs DEF k
    <2> DEFINE place == PlaceInTruth(i)
    <2>5. scanTruth[place] = tries[i].attempt
      BY DEF TruthIsComplete
    <2> HIDE DEF place
    <2>6. scanTruth'[place] = scanTruth[place]
      BY <1>2, <1>4, <2>4 DEF place
    <2> QED
      BY <1>1, <1>3, <2>1, <2>3, <2>5, <2>6 DEF place
  <1>9. Len(scanTruth') = k + 1
    BY <1>2, <1>4
  <1> QED
    BY <1>1, <1>5, <1>7, <1>8, <1>9

\* Every step keeps the ground truth complete.
LEMMA TruthNext ==
  ASSUME ScanTypeOK, WorkerInv, TriesInv, TruthIsComplete, [ScanNext]_scanVars
  PROVE  TruthIsComplete'
  <1>1. CASE OtherStep
    BY <1>1, OtherStepIs, TruthStays DEF Written
  <1>2. CASE LogEvent
    <2>1. UNCHANGED <<scanConfig, scanTruth>>
      BY <1>2, LogEventIs DEF LogEvent, ControlUnchanged
    <2> QED
      BY <1>2, <2>1, LogEventSets, TruthStays
  <1>3. ASSUME worker \in {"check", "connect"}, NEW result \in {"blocked"} \cup TcpResults,
               EndsWith(result)
        PROVE  TruthIsComplete'
    <2>1. UNCHANGED <<scanConfig, scanTruth>>
      BY <1>3 DEF EndsWith, ControlUnchanged, fileVars
    <2> QED
      BY <1>3, <2>1, EndsSets, TruthStays
  <1>4. CASE NextAttempt
    <2> DEFINE n == Len(tries) + 1
    <2>1. /\ UNCHANGED <<scanConfig, scanTruth>> /\ life' = life /\ worker = "top"
          /\ lifespan # "off"
      BY <1>4 DEF NextAttempt, ControlUnchanged, WorkerSteps, fileVars, WorkerInv
    <2>2. /\ Written' = Written /\ DOMAIN tries' = DOMAIN tries \cup {n} /\ DOMAIN tries = 1..Len(tries)
          /\ \A i \in DOMAIN tries : tries'[i] = tries[i] /\ i < n
          /\ tries'[n].truth = "none" /\ tries'[n].life = life /\ Len(tries) \in Nat
      BY <1>4, NextAttemptIs, BegunSets, Counted
    <2>3. \A i \in Written : PlaceInTruth(i)' = PlaceInTruth(i) /\ i \in DOMAIN tries
      BY <2>2 DEF PlaceInTruth, Written
    <2>4. \A i \in TriesOf(life) : tries[i].truth # "none"
      BY <2>1 DEF WorkerInv
    <2>5. scanConfig'.logged =>
            /\ Len(scanTruth') = Cardinality(Written')
            /\ \A i \in Written' : scanTruth'[PlaceInTruth(i)'] = tries'[i].attempt
      BY <2>1, <2>2, <2>3 DEF TruthIsComplete
    <2>6. ASSUME NEW i \in DOMAIN tries', i + 1 \in DOMAIN tries', tries'[i + 1].life = tries'[i].life
          PROVE  tries'[i].truth # "none"
      <3>1. i + 1 \in DOMAIN tries' /\ tries'[i + 1].life = tries'[i].life
        BY <2>6
      <3>2. i \in DOMAIN tries /\ tries'[i] = tries[i]
        BY <2>2, <3>1
      <3>3. CASE i + 1 = n
        BY <2>2, <2>4, <3>1, <3>2, <3>3 DEF TriesOf
      <3>4. CASE i + 1 # n
        <4>1. i + 1 \in DOMAIN tries /\ tries'[i + 1] = tries[i + 1]
          BY <2>2, <3>1, <3>4
        <4> QED
          BY <3>1, <3>2, <4>1 DEF TruthIsComplete, TriesOf
      <3> QED
        BY <3>3, <3>4
    <2>7. \A i \in DOMAIN tries' : tries'[i].truth # "none" =>
            tries'[i].event # "none" /\ tries'[i].attempt.result # "none"
      BY <2>2 DEF TruthIsComplete
    <2> HIDE DEF n
    <2> QED
      BY <2>5, <2>6, <2>7 DEF TruthIsComplete, TriesOf
  <1>5. CASE LogTruth
    <2>1. scanConfig' = scanConfig /\ Outcome \in {"written", "lost"}
      BY <1>5, LogTruthIs DEF LogTruth, ControlUnchanged, Fate
    <2>2. /\ \A l : TriesOf(l)' = TriesOf(l)
          /\ DOMAIN tries' = DOMAIN tries
          /\ Written' = IF Outcome = "written" THEN Written \cup {Len(tries)} ELSE Written
          /\ tries[Len(tries)].attempt = attempt /\ attempt.result # "none"
          /\ tries[Len(tries)].event # "none"
          /\ \A i \in DOMAIN tries :
               /\ tries'[i].attempt = tries[i].attempt /\ tries'[i].life = tries[i].life
               /\ tries'[i].event = tries[i].event
               /\ tries[i].truth # "none" => tries'[i].truth # "none"
               /\ tries'[i].truth # tries[i].truth => i = Len(tries)
      BY <1>5, LogTruthSets
    <2>3. scanConfig'.logged =>
            /\ Len(scanTruth') = Cardinality(Written')
            /\ \A i \in Written' : scanTruth'[PlaceInTruth(i)'] = tries'[i].attempt
      <3>1. CASE scanConfig.logged /\ Outcome = "written"
        BY <1>5, <3>1, TruthGrows
      <3>2. CASE scanConfig.logged /\ Outcome = "lost"
        <4>1. scanTruth' = scanTruth /\ Written' = Written
          BY <1>5, <2>2, <3>2, LogTruthIs
        <4>2. \A i \in Written : PlaceInTruth(i)' = PlaceInTruth(i) /\ i \in DOMAIN tries
          BY <4>1 DEF PlaceInTruth, Written
        <4> QED
          BY <2>2, <3>2, <4>1, <4>2 DEF TruthIsComplete
      <3> QED
        BY <2>1, <3>1, <3>2
    <2>4. ASSUME NEW i \in DOMAIN tries', i + 1 \in DOMAIN tries', tries'[i + 1].life = tries'[i].life
          PROVE  tries'[i].truth # "none"
      <3>1. i + 1 \in TriesOf(tries[i].life)
        BY <2>2, <2>4 DEF TriesOf
      <3> QED
        BY <2>2, <3>1 DEF TruthIsComplete
    <2>5. \A i \in DOMAIN tries' : tries'[i].truth # "none" =>
            tries'[i].event # "none" /\ tries'[i].attempt.result # "none"
      BY <2>2 DEF TruthIsComplete
    <2> QED
      BY <2>3, <2>4, <2>5 DEF TruthIsComplete, TriesOf
  <1> QED
    BY <1>1, <1>2, <1>3, <1>4, <1>5, StepIs

-----------------------------------------------------------------------------
(* The rotation, step by step.                                             *)

\* The configuration of a process does not change.
LEMMA PairsStay ==
  ASSUME UNCHANGED scanConfig
  PROVE  Pairs' = Pairs /\ Slots' = Slots /\ \A slot : PairAt(slot)' = PairAt(slot)
  BY DEF Pairs, Slots, PairAt, NextPair

LEMMA ConfigStays == ASSUME [ScanNext]_scanVars PROVE UNCHANGED scanConfig
  BY StepIs, OtherStepIs DEF NextAttempt, LogEvent, LogTruth, EndsWith, ControlUnchanged

\* Only the start of an attempt changes how often a pair was tried,
LEMMA TriesStay ==
  ASSUME ScanTypeOK, WorkerInv, [ScanNext]_scanVars, ~NextAttempt
  PROVE  \A l, pair : TriesAt(l, pair)' = TriesAt(l, pair)
  <1>1. ASSUME \A l : TriesOf(l)' = TriesOf(l),
               \A i \in DOMAIN tries : /\ tries'[i].attempt.target = tries[i].attempt.target
                                       /\ tries'[i].attempt.port = tries[i].attempt.port
        PROVE  \A l, pair : TriesAt(l, pair)' = TriesAt(l, pair)
    <2>1. \A l, pair : {i \in TriesOf(l) : <<tries[i].attempt.target, tries[i].attempt.port>> = pair}'
                     = {i \in TriesOf(l) : <<tries[i].attempt.target, tries[i].attempt.port>> = pair}
      BY <1>1 DEF TriesOf
    <2> QED
      BY <2>1 DEF TriesAt
  <1>2. CASE OtherStep
    BY <1>1, <1>2, OtherStepIs, SameSets
  <1>3. CASE LogEvent
    BY <1>1, <1>3, LogEventSets
  <1>4. CASE LogTruth
    BY <1>1, <1>4, LogTruthSets
  <1>5. ASSUME worker \in {"check", "connect"}, NEW result \in {"blocked"} \cup TcpResults,
               EndsWith(result)
        PROVE  \A l, pair : TriesAt(l, pair)' = TriesAt(l, pair)
    BY <1>1, <1>5, EndsSets
  <1> QED
    BY <1>2, <1>3, <1>4, <1>5, StepIs

\* and it counts the pair of the next slot once more.
LEMMA TriesCount ==
  ASSUME ScanTypeOK, WorkerInv, NextAttempt
  PROVE  /\ \A l, pair : l # life => TriesAt(l, pair)' = TriesAt(l, pair)
         /\ \A pair : TriesAt(life, pair)' =
              TriesAt(life, pair) + (IF pair = PairAt(scanIndex % Slots) THEN 1 ELSE 0)
  <1> DEFINE n == Len(tries) + 1
             At(l, pair) == {i \in TriesOf(l) :
                               <<tries[i].attempt.target, tries[i].attempt.port>> = pair}
  <1>1. /\ life' = life /\ TriesOf(life)' = TriesOf(life) \cup {n} /\ n \notin DOMAIN tries
        /\ \A l : l # life => TriesOf(l)' = TriesOf(l)
    BY BegunSets DEF NextAttempt, ControlUnchanged
  <1>2. /\ \A i \in DOMAIN tries : tries'[i] = tries[i]
        /\ <<tries'[n].attempt.target, tries'[n].attempt.port>> = PairAt(scanIndex % Slots)
    BY NextAttemptIs
  <1>3. \A l : TriesOf(l) \subseteq DOMAIN tries
    BY DEF TriesOf
  <1> HIDE DEF n
  <1>4. ASSUME NEW l, NEW pair, l # life PROVE TriesAt(l, pair)' = TriesAt(l, pair)
    <2>1. At(l, pair)' = At(l, pair)
      BY <1>1, <1>2, <1>3, <1>4
    <2> QED
      BY <2>1 DEF TriesAt
  <1>5. ASSUME NEW pair
        PROVE  TriesAt(life, pair)' =
                 TriesAt(life, pair) + (IF pair = PairAt(scanIndex % Slots) THEN 1 ELSE 0)
    <2>1. CASE pair = PairAt(scanIndex % Slots)
      <3>1. At(life, pair)' = At(life, pair) \cup {n}
        BY <1>1, <1>2, <1>3, <2>1
      <3>2. At(life, pair) \subseteq 1..Len(tries) /\ n \notin At(life, pair) /\ Len(tries) \in Nat
        BY <1>1, <1>3, Counted
      <3> HIDE DEF At
      <3>3. Cardinality(At(life, pair) \cup {n}) = Cardinality(At(life, pair)) + 1
        BY <3>2, CountGrows
      <3>4. Cardinality(At(life, pair)') = Cardinality(At(life, pair)) + 1
        BY <3>1, <3>3
      <3> QED
        BY <2>1, <3>4 DEF TriesAt, At
    <2>2. CASE pair # PairAt(scanIndex % Slots)
      <3>1. At(life, pair)' = At(life, pair)
        BY <1>1, <1>2, <1>3, <2>2
      <3>2. At(life, pair) \subseteq 1..Len(tries) /\ Len(tries) \in Nat
        BY <1>3, Counted
      <3> HIDE DEF At
      <3>3. Cardinality(At(life, pair)) \in Nat
        BY <3>2, CountIs
      <3>4. Cardinality(At(life, pair)') = Cardinality(At(life, pair)) + 0
        BY <3>1, <3>3
      <3> QED
        BY <2>2, <3>4 DEF TriesAt, At
    <2> QED
      BY <2>1, <2>2
  <1> QED
    BY <1>4, <1>5

\* What is counted is a number, and none before the first attempt.
LEMMA TriesAtIs ==
  ASSUME ScanTypeOK, NEW l, NEW pair
  PROVE  /\ TriesAt(l, pair) \in Nat /\ TriesAt(l, pair) <= Len(tries) /\ Len(tries) \in Nat
         /\ TriesOf(l) = {} => TriesAt(l, pair) = 0
  <1> DEFINE S == {i \in TriesOf(l) : <<tries[i].attempt.target, tries[i].attempt.port>> = pair}
  <1>1. S \subseteq 1..Len(tries) /\ Len(tries) \in Nat /\ (TriesOf(l) = {} => S = {})
    BY Counted
  <1> HIDE DEF S
  <1>2. Cardinality(S) \in Nat /\ Cardinality(S) <= Len(tries) /\ (S = {} => Cardinality(S) = 0)
    BY <1>1, CountIs, FS_EmptySet
  <1> QED
    BY <1>1, <1>2 DEF TriesAt, S

\* The rounds of the life that runs.
LEMMA RotationNext ==
  ASSUME ScanTypeOK, WorkerInv, TriesInv, CountInv, RotationInv, [ScanNext]_scanVars
  PROVE  RotationInv'
  <1>1. /\ Pairs' = Pairs /\ Slots' = Slots /\ scanConfig' = scanConfig
        /\ \A slot : PairAt(slot)' = PairAt(slot)
    BY ConfigStays, PairsStay
  <1> SUFFICES ASSUME lifespan' # "off", Pairs # {},
                      IsInjective(scanConfig.targets), IsInjective(scanConfig.ports)
               PROVE  \E rounds \in 0..MaxTries : \A slot \in 0..(Slots - 1) :
                        TriesAt(life, PairAt(slot))' =
                          rounds + (IF slot < scanIndex' % Slots THEN 1 ELSE 0)
    BY <1>1 DEF RotationInv
  <1>2. Slots \in Nat \ {0} /\ scanConfig \in ScanConfigs /\ scanIndex \in Nat /\ MaxTries \in Nat
    BY SomePairs, ReconAssumption DEF ScanTypeOK
  <1>3. CASE ScanStart
    <2>1. scanIndex' = 0 /\ life' = life + 1 /\ UNCHANGED tries
      BY <1>3 DEF ScanStart, CountInv
    <2>2. TriesOf(life)' = {}
      <3>1. \A i \in DOMAIN tries : tries[i].life # life + 1
        BY DEF TriesInv, ScanTypeOK
      <3> QED
        BY <2>1, <3>1 DEF TriesOf
    <2>3. \A slot : TriesAt(life, PairAt(slot))' = 0
      BY <2>2, FS_EmptySet DEF TriesAt
    <2>4. 0 % Slots = 0
      BY <1>2
    <2>5. \A slot \in 0..(Slots - 1) : ~(slot < 0)
      OBVIOUS
    <2> QED
      BY <1>2, <2>1, <2>3, <2>4, <2>5
  <1>4. CASE NextAttempt
    <2> DEFINE s == scanIndex % Slots
               T(slot) == TriesAt(life, PairAt(slot))
    <2>1. scanIndex' = scanIndex + 1 /\ lifespan # "off" /\ life' = life /\ Len(tries) < MaxTries
      BY <1>4, NextAttemptIs DEF NextAttempt, ControlUnchanged, WorkerSteps, WorkerInv
    <2>2. PICK rounds \in 0..MaxTries : \A slot \in 0..(Slots - 1) :
            T(slot) = rounds + (IF slot < s THEN 1 ELSE 0)
      BY <2>1 DEF RotationInv
    <2>3. s \in 0..(Slots - 1)
      BY <1>2, SlotOfIndex
    <2>4. \A slot \in 0..(Slots - 1) :
            TriesAt(life, PairAt(slot))' = T(slot) + (IF slot = s THEN 1 ELSE 0)
      <3>1. \A slot \in 0..(Slots - 1) : PairAt(slot) = PairAt(s) <=> slot = s
        BY <1>2, <2>3, SlotsDiffer
      <3>2. \A slot : TriesAt(life, PairAt(slot))' =
                        T(slot) + (IF PairAt(slot) = PairAt(s) THEN 1 ELSE 0)
        <4> TAKE slot
        <4> DEFINE p == PairAt(slot)
        <4>1. TriesAt(life, p)' = TriesAt(life, p) + (IF p = PairAt(s) THEN 1 ELSE 0)
          BY <1>1, <1>4, TriesCount DEF TriesAt
        <4> QED
          BY <4>1
      <3> QED
        BY <3>1, <3>2
    <2>5. scanIndex' % Slots = IF s = Slots - 1 THEN 0 ELSE s + 1
      BY <1>2, <2>1, NextRemainder
    <2>6. rounds + 1 <= MaxTries
      <3>1. T(s) = rounds
        BY <2>2, <2>3
      <3>2. T(s) <= Len(tries) /\ Len(tries) \in Nat
        BY TriesAtIs
      <3> QED
        BY <1>2, <2>1, <3>1, <3>2
    <2> HIDE DEF s, T
    <2>7. CASE s = Slots - 1
      <3>1. \A slot \in 0..(Slots - 1) : TriesAt(life, PairAt(slot))' = rounds + 1
        BY <1>2, <2>2, <2>3, <2>4, <2>7
      <3>2. scanIndex' % Slots = 0 /\ rounds + 1 \in 0..MaxTries
        BY <1>2, <2>5, <2>6, <2>7
      <3>3. \A slot \in 0..(Slots - 1) : TriesAt(life, PairAt(slot))' =
              (rounds + 1) + (IF slot < scanIndex' % Slots THEN 1 ELSE 0)
        BY <3>1, <3>2
      <3> QED
        BY <3>2, <3>3
    <2>8. CASE s # Slots - 1
      <3>1. scanIndex' % Slots = s + 1
        BY <2>5, <2>8
      <3>2. \A slot \in 0..(Slots - 1) : TriesAt(life, PairAt(slot))' =
              rounds + (IF slot < scanIndex' % Slots THEN 1 ELSE 0)
        BY <1>2, <2>2, <2>3, <2>4, <3>1
      <3> QED
        BY <3>2
    <2> QED
      BY <2>7, <2>8
  <1>5. CASE ~ScanStart /\ ~NextAttempt
    <2>1. UNCHANGED <<life, scanIndex>> /\ lifespan # "off"
      <3>1. CASE OtherStep
        BY <1>5, <3>1 DEF OtherStep, ScanStop, ScanStopReturns, JoinTimesOut, MarkStopped, LogStop,
          Exit, Wait, LoopEnds, Allowed, Dies, ControlUnchanged, scanVars
      <3>2. CASE ControlUnchanged /\ UNCHANGED scanIndex
        BY <3>2 DEF ControlUnchanged
      <3> QED
        BY <1>5, <3>1, <3>2, StepIs DEF LogEvent, LogTruth, EndsWith
    <2>2. \A slot : TriesAt(life, PairAt(slot))' = TriesAt(life, PairAt(slot))
      <3>1. \A l, pair : TriesAt(l, pair)' = TriesAt(l, pair)
        BY <1>5, TriesStay
      <3>2. \A pair : TriesAt(life, pair)' = TriesAt(life, pair)
        BY <2>1, <3>1
      <3> TAKE slot
      <3> DEFINE p == PairAt(slot)
      <3>3. p' = p
        BY <1>1
      <3> HIDE DEF p
      <3>4. TriesAt(life, p)' = TriesAt(life, p)
        BY <3>2, <3>3 DEF TriesAt
      <3> QED
        BY <3>4 DEF p
    <2> QED
      BY <2>1, <2>2 DEF RotationInv
  <1> QED
    BY <1>3, <1>4, <1>5

\* What the rounds of the life that runs leave to those that ended.
LEMMA FairNext ==
  ASSUME ScanTypeOK, WorkerInv, TriesInv, RotationInv, RotationIsFair, [ScanNext]_scanVars
  PROVE  RotationIsFair'
  <1>1. /\ Pairs' = Pairs /\ Slots' = Slots /\ scanConfig' = scanConfig
        /\ \A slot : PairAt(slot)' = PairAt(slot)
    BY ConfigStays, PairsStay
  <1> SUFFICES ASSUME IsInjective(scanConfig.targets), IsInjective(scanConfig.ports),
                      NEW l \in 1..(life'), NEW p \in Pairs, NEW q \in Pairs
               PROVE  TriesAt(l, p)' <= TriesAt(l, q)' + 1
    BY <1>1 DEF RotationIsFair
  <1>2. scanConfig \in ScanConfigs /\ Pairs # {}
    BY DEF ScanTypeOK
  <1>3. CASE ~NextAttempt
    <2>1. TriesAt(l, p)' = TriesAt(l, p) /\ TriesAt(l, q)' = TriesAt(l, q)
      BY <1>3, TriesStay
    <2>2. TriesAt(l, p) \in Nat /\ TriesAt(l, q) \in Nat
      BY TriesAtIs
    <2>3. CASE l \in 1..life
      BY <2>1, <2>3 DEF RotationIsFair
    <2>4. CASE l \notin 1..life
      <3>1. TriesOf(l) = {}
        BY <2>4 DEF TriesInv, TriesOf
      <3>2. TriesAt(l, p) = 0
        BY <3>1, TriesAtIs
      <3> QED
        BY <2>1, <2>2, <3>2
    <2> QED
      BY <2>3, <2>4
  <1>4. CASE NextAttempt /\ l # life
    <2>1. TriesAt(l, p)' = TriesAt(l, p) /\ TriesAt(l, q)' = TriesAt(l, q) /\ life' = life
      BY <1>4, TriesCount DEF NextAttempt, ControlUnchanged
    <2> QED
      BY <2>1 DEF RotationIsFair
  <1>5. CASE NextAttempt /\ l = life
    <2> DEFINE s == scanIndex % Slots
    <2>1. life' = life /\ lifespan # "off"
      BY <1>5 DEF NextAttempt, ControlUnchanged, WorkerSteps, WorkerInv
    <2>2. s \in 0..(Slots - 1)
      BY <1>2, SlotOfIndex DEF ScanTypeOK
    <2>3. PICK rounds \in 0..MaxTries : \A slot \in 0..(Slots - 1) :
            TriesAt(life, PairAt(slot)) = rounds + (IF slot < s THEN 1 ELSE 0)
      BY <1>2, <2>1 DEF RotationInv
    <2> HIDE DEF s
    <2>4. ASSUME NEW r \in Pairs PROVE TriesAt(l, r)' \in {rounds, rounds + 1}
      <3>1. PICK slot \in 0..(Slots - 1) : PairAt(slot) = r
        BY <1>2, SlotsCover
      <3>2. TriesAt(life, r)' = TriesAt(life, r) + (IF r = PairAt(s) THEN 1 ELSE 0)
        BY <1>5, TriesCount DEF s
      <3>3. TriesAt(life, r) = rounds + (IF slot < s THEN 1 ELSE 0)
        BY <2>3, <3>1
      <3>4. r = PairAt(s) => slot = s
        BY <1>2, <2>2, <3>1, SlotsDiffer
      <3>5. TriesAt(l, r)' = TriesAt(life, r)'
        BY <1>5, <2>1 DEF TriesAt
      <3> QED
        BY <2>2, <3>2, <3>3, <3>4, <3>5
    <2> QED
      BY <2>4
  <1> QED
    BY <1>3, <1>4, <1>5

-----------------------------------------------------------------------------
(* The invariant.                                                          *)

\* Nothing has begun.
LEMMA ScanStarts == ASSUME ScanInit PROVE ScanInv
  <1> USE DEF ScanInit
  <1>1. DOMAIN tries = {} /\ \A l : TriesOf(l) = {}
    BY DEF TriesOf
  <1>2. ScanTypeOK
    <2>1. 0 \in 0..MaxTries /\ 0 \in 0..MaxLives /\ 0 \in 0..MaxUnwritten
      BY ReconAssumption, ScenarioLogAssumption
    <2>2. attempt \in ScanAttempt
      BY DEF NoAttempt, ScanAttempt
    <2>3. scan \in [status : {"disabled", "idle", "scanning", "stopped"}, attempts : Nat]
      BY DEF Entry
    <2>4. tries \in Seq(ScanTry) /\ scanTruth \in Seq(ScanAttempt)
      OBVIOUS
    <2> QED
      BY <2>1, <2>2, <2>3, <2>4 DEF ScanTypeOK
  <1>3. WorkerInv /\ TriesInv /\ CountInv /\ JoinInv /\ RotationInv
    BY <1>1 DEF WorkerInv, TriesInv, CountInv, JoinInv, RotationInv
  <1>4. RotationIsFair
    BY DEF RotationIsFair
  <1>5. TruthIsComplete
    <2>1. Written = {}
      BY <1>1 DEF Written
    <2> QED
      BY <1>1, <2>1, FS_EmptySet DEF TruthIsComplete
  <1> QED
    BY <1>2, <1>3, <1>4, <1>5 DEF ScanInv

\* The invariant of the worker: what the thread has in hand, whose attempt is
\* whose, what the counters count, and the rounds of the rotation.
THEOREM ScanInvariant == ScanSpec => []ScanInv
  <1>1. ScanInit => ScanInv
    BY ScanStarts
  <1>2. ScanInv /\ [ScanNext]_scanVars => ScanInv'
    <2> SUFFICES ASSUME ScanInv, [ScanNext]_scanVars PROVE ScanInv'
      OBVIOUS
    <2>1. /\ ScanTypeOK /\ WorkerInv /\ TriesInv /\ CountInv /\ JoinInv
          /\ RotationInv /\ RotationIsFair /\ TruthIsComplete
      BY DEF ScanInv
    <2>2. ScanTypeOK' /\ WorkerInv' /\ TriesInv' /\ CountInv' /\ JoinInv'
      BY <2>1, ScanTypeNext, WorkerNext, TriesNext, CountNext, JoinNext
    <2>3. RotationInv' /\ RotationIsFair' /\ TruthIsComplete'
      BY <2>1, RotationNext, FairNext, TruthNext
    <2> QED
      BY <2>2, <2>3 DEF ScanInv
  <1> QED
    BY <1>1, <1>2, PTL DEF ScanSpec

\* Every life of the worker (recon.py) walks the pairs of its targets and ports
\* in turn, so that none is tried twice more than another when neither list
\* repeats an element; and the ground-truth file has the attempts in their
\* order, each once, with the target, port and result that it had, but for those
\* cut by the end of a life and those that could not be written.
THEOREM ScanIsAccounted == ScanSpec => []ScanAccounted
  <1>1. ScanInv => ScanAccounted
    BY DEF ScanInv, ScanAccounted
  <1> QED
    BY <1>1, ScanInvariant, PTL

\* The stop event counts the attempts that were begun, the state those that
\* ended; and stop(), when its join returned in time, leaves a thread that is
\* over, the status "stopped" and no attempt open, unless a name that cannot be
\* encoded killed the thread in the middle of one.
THEOREM StopIsTrue == ScanSpec => []StopTellsTruth
  <1>1. ScanInv => StopTellsTruth
    BY StopTells DEF ScanInv
  <1> QED
    BY <1>1, ScanInvariant, PTL

-----------------------------------------------------------------------------
(* The scenario traffic generator: its plan.                               *)

\* The k-th pair of a walk through lists of lengths t and m, m the inner one.
LEMMA TurnIs ==
  ASSUME NEW t \in Nat, NEW m \in Nat, NEW k \in 1..(t * m)
  PROVE  /\ m \in Nat \ {0}
         /\ ((k - 1) \div m) + 1 \in 1..t /\ ((k - 1) % m) + 1 \in 1..m
         /\ k - 1 = ((k - 1) \div m) * m + ((k - 1) % m)
  <1>1. m # 0
    <2>1. SUFFICES ASSUME m = 0 PROVE FALSE
      OBVIOUS
    <2>2. t * m = 0
      BY <2>1
    <2> QED
      BY <2>2
  <1> DEFINE n == k - 1
  <1>2. t * m \in Nat
    OBVIOUS
  <1>3. m \in Nat \ {0} /\ n \in 0..(t * m - 1) /\ n \in Nat
    BY <1>1, <1>2
  <1> DEFINE q == n \div m
             r == n % m
  <1> HIDE DEF n
  <1>4. q \in 0..(t - 1) /\ r \in 0..(m - 1) /\ n = q * m + r
    BY <1>3, NumberIsPair, Divides
  <1>5. q + 1 \in 1..t /\ r + 1 \in 1..m
    <2> HIDE DEF q, r
    <2> QED
      BY <1>4
  <1> QED
    BY <1>3, <1>4, <1>5 DEF n

\* All attempts that could be planned, and how many.
AllAttempts == BuildAttempts(options.mode, options.targets, options.ports)
PlanSize == Len(options.targets) * Len(options.ports)

\* The lists of a command line, and how many attempts are planned.
LEMMA OptionsAre ==
  ASSUME options \in TrafficOptions
  PROVE  /\ Len(options.targets) \in Nat /\ DOMAIN options.targets = 1..Len(options.targets)
         /\ Len(options.ports) \in Nat /\ DOMAIN options.ports = 1..Len(options.ports)
         /\ options.max \in Nat /\ PlanSize \in Nat
  <1>1. /\ Len(options.targets) \in Nat /\ DOMAIN options.targets = 1..Len(options.targets)
        /\ Len(options.ports) \in Nat /\ DOMAIN options.ports = 1..Len(options.ports)
        /\ options.max \in Nat
    BY ScenarioTrafficAssumption
  <1> DEFINE a == Len(options.targets)
             b == Len(options.ports)
  <1>2. a \in Nat /\ b \in Nat
    BY <1>1
  <1> HIDE DEF a, b
  <1>3. a * b \in Nat
    BY <1>2
  <1> QED
    BY <1>1, <1>3 DEF PlanSize, a, b

LEMMA PlanIs ==
  ASSUME options \in TrafficOptions
  PROVE  /\ Len(Plan) \in 0..PlanSize /\ DOMAIN Plan = 1..Len(Plan)
         /\ Plan \in Seq(Range(AllAttempts))
         /\ options.max = 0 => Len(Plan) = PlanSize
         /\ \A k \in 1..Len(Plan) : Plan[k] = AllAttempts[k]
  <1>1. options.max \in Nat /\ PlanSize \in Nat
    BY OptionsAre
  <1>2. AllAttempts \in Seq(Range(AllAttempts)) /\ Len(AllAttempts) = PlanSize
    <2>1. DOMAIN AllAttempts = 1..PlanSize
      BY DEF AllAttempts, BuildAttempts, PlanSize
    <2>2. AllAttempts = [k \in 1..PlanSize |-> AllAttempts[k]]
      BY DEF AllAttempts, BuildAttempts, PlanSize
    <2>3. \A k \in 1..PlanSize : AllAttempts[k] \in Range(AllAttempts)
      BY <2>1 DEF Range
    <2>4. AllAttempts \in Seq(Range(AllAttempts))
      BY <1>1, <2>2, <2>3
    <2> QED
      BY <1>1, <2>1, <2>4
  <1>3. CASE options.max > 0
    <2> DEFINE m == Min({options.max, PlanSize})
    <2>1. m \in {options.max, PlanSize} /\ m <= PlanSize
      <3>1. m \in {options.max, PlanSize}
        BY <1>1, MinIsLeast
      <3>2. \E x \in {options.max, PlanSize} : \A y \in {options.max, PlanSize} : x <= y
        BY <1>1
      <3> QED
        BY <3>1, <3>2 DEF Min
    <2>2. m \in 0..PlanSize
      BY <1>1, <2>1
    <2>3. Plan = SubSeq(AllAttempts, 1, m)
      BY <1>2, <1>3 DEF Plan, AllAttempts
    <2> HIDE DEF m
    <2>4. Len(Plan) = m /\ DOMAIN Plan = 1..m /\ \A k \in 1..m : Plan[k] = AllAttempts[k]
      BY <1>1, <1>2, <2>2, <2>3
    <2>5. Plan \in Seq(Range(AllAttempts))
      BY <1>1, <1>2, <2>2, <2>3
    <2> QED
      BY <1>3, <2>2, <2>4, <2>5
  <1>4. CASE options.max = 0
    <2>1. Plan = AllAttempts
      BY <1>4 DEF Plan, AllAttempts
    <2> QED
      BY <1>1, <1>2, <2>1
  <1> QED
    BY <1>1, <1>3, <1>4

\* What the attempts of the plan are: a horizontal scan walks the targets for
\* every port, the others the ports for every target.
Across == options.mode = "horizontal_scan"
Outer == IF Across THEN options.ports ELSE options.targets
Inner == IF Across THEN options.targets ELSE options.ports
OuterAt(k) == ((k - 1) \div Len(Inner)) + 1
InnerAt(k) == ((k - 1) % Len(Inner)) + 1

LEMMA WalkIs ==
  ASSUME options \in TrafficOptions
  PROVE  /\ Len(Outer) \in Nat /\ DOMAIN Outer = 1..Len(Outer)
         /\ Len(Inner) \in Nat /\ DOMAIN Inner = 1..Len(Inner)
         /\ PlanSize = Len(Outer) * Len(Inner)
  <1> DEFINE a == Len(options.targets)
             b == Len(options.ports)
  <1>1. a \in Nat /\ b \in Nat /\ DOMAIN options.targets = 1..a /\ DOMAIN options.ports = 1..b
    BY OptionsAre
  <1>2. PlanSize = a * b
    BY DEF PlanSize
  <1>3. CASE Across
    <2>1. Len(Outer) = b /\ Len(Inner) = a /\ DOMAIN Outer = 1..b /\ DOMAIN Inner = 1..a
      BY <1>1, <1>3 DEF Outer, Inner
    <2> HIDE DEF a, b
    <2>2. a * b = b * a
      BY <1>1
    <2> QED
      BY <1>1, <1>2, <2>1, <2>2
  <1>4. CASE ~ Across
    <2>1. Len(Outer) = a /\ Len(Inner) = b /\ DOMAIN Outer = 1..a /\ DOMAIN Inner = 1..b
      BY <1>1, <1>4 DEF Outer, Inner
    <2> HIDE DEF a, b
    <2> QED
      BY <1>1, <1>2, <2>1
  <1> QED
    BY <1>3, <1>4

LEMMA AttemptIs ==
  ASSUME options \in TrafficOptions, NEW k \in DOMAIN Plan
  PROVE  /\ OuterAt(k) \in DOMAIN Outer /\ InnerAt(k) \in DOMAIN Inner
         /\ k - 1 = (OuterAt(k) - 1) * Len(Inner) + (InnerAt(k) - 1)
         /\ Plan[k].target = IF Across THEN Inner[InnerAt(k)] ELSE Outer[OuterAt(k)]
         /\ Plan[k].port = IF Across THEN Outer[OuterAt(k)] ELSE Inner[InnerAt(k)]
  <1>1. k \in 1..PlanSize /\ k \in 1..Len(Plan)
    BY PlanIs, OptionsAre
  <1>2. OuterAt(k) \in DOMAIN Outer /\ InnerAt(k) \in DOMAIN Inner
        /\ k - 1 = (OuterAt(k) - 1) * Len(Inner) + (InnerAt(k) - 1)
    <2> DEFINE m == Len(Inner)
               t == Len(Outer)
               a == (k - 1) \div m
               b == (k - 1) % m
    <2>1. m \in Nat /\ t \in Nat /\ k \in 1..(t * m)
      BY <1>1, WalkIs
    <2> HIDE DEF m, t
    <2>2. a + 1 \in 1..t /\ b + 1 \in 1..m /\ k - 1 = a * m + b /\ m \in Nat \ {0}
      BY <2>1, TurnIs
    <2>5. a \in Int /\ b \in Int
      <3>1. PICK n \in Nat : n = k - 1
        BY <1>1, OptionsAre
      <3>2. n \div m \in Int /\ n % m \in Int
        BY <2>2, Divides
      <3> QED
        BY <3>1, <3>2
    <2>3. OuterAt(k) = a + 1 /\ InnerAt(k) = b + 1
      BY DEF OuterAt, InnerAt, m
    <2> HIDE DEF a, b
    <2>4. OuterAt(k) - 1 = a /\ InnerAt(k) - 1 = b
      BY <2>3, <2>5
    <2> QED
      BY <2>2, <2>3, <2>4, WalkIs DEF m, t
  <1>3. Plan[k] = AllAttempts[k]
    BY <1>1, PlanIs
  <1>4. AllAttempts[k].target = (IF Across THEN Inner[InnerAt(k)] ELSE Outer[OuterAt(k)])
    BY <1>1 DEF AllAttempts, BuildAttempts, PlanSize, Across, Inner, Outer, InnerAt, OuterAt
  <1>5. AllAttempts[k].port = (IF Across THEN Outer[OuterAt(k)] ELSE Inner[InnerAt(k)])
    BY <1>1 DEF AllAttempts, BuildAttempts, PlanSize, Across, Inner, Outer, InnerAt, OuterAt
  <1> QED
    BY <1>2, <1>3, <1>4, <1>5

\* No attempt of the plan is of the same pair as another,
LEMMA PlanRepeatsNothing ==
  ASSUME options \in TrafficOptions, IsInjective(options.targets), IsInjective(options.ports)
  PROVE  IsInjective(Plan)
  <1> SUFFICES ASSUME NEW j \in DOMAIN Plan, NEW k \in DOMAIN Plan, Plan[j] = Plan[k]
               PROVE  j = k
    BY DEF IsInjective
  <1>1. IsInjective(Inner) /\ IsInjective(Outer)
    BY DEF Inner, Outer
  <1>2. Inner[InnerAt(j)] = Inner[InnerAt(k)] /\ Outer[OuterAt(j)] = Outer[OuterAt(k)]
    BY AttemptIs
  <1>3. InnerAt(j) = InnerAt(k) /\ OuterAt(j) = OuterAt(k)
    BY <1>1, <1>2, AttemptIs DEF IsInjective
  <1>4. j - 1 = k - 1
    BY <1>3, AttemptIs
  <1>5. j \in Int /\ k \in Int
    BY PlanIs
  <1> QED
    BY <1>4, <1>5

\* and where it is not capped no pair is left out.
LEMMA PlanIsWhole ==
  ASSUME options \in TrafficOptions, options.max = 0
  PROVE  {<<Plan[k].target, Plan[k].port>> : k \in DOMAIN Plan} =
           Range(options.targets) \X Range(options.ports)
  <1>1. ASSUME NEW k \in DOMAIN Plan
        PROVE  Plan[k].target \in Range(options.targets) /\ Plan[k].port \in Range(options.ports)
    BY AttemptIs DEF Outer, Inner, Range
  <1>2. ASSUME NEW a \in DOMAIN Outer, NEW b \in DOMAIN Inner
        PROVE  \E k \in DOMAIN Plan : OuterAt(k) = a /\ InnerAt(k) = b
    <2> DEFINE m == Len(Inner)
               t == Len(Outer)
    <2>1. m \in Nat /\ t \in Nat /\ a \in 1..t /\ b \in 1..m /\ PlanSize = t * m
      BY WalkIs
    <2> HIDE DEF m, t
    <2>2. PICK x \in 0..(t - 1), y \in 0..(m - 1) : a = x + 1 /\ b = y + 1
      <3>1. a - 1 \in 0..(t - 1) /\ b - 1 \in 0..(m - 1) /\ a = (a - 1) + 1 /\ b = (b - 1) + 1
        BY <2>1
      <3> QED
        BY <3>1
    <2>3. PICK n : n = x * m + y
      OBVIOUS
    <2>4. n \in 0..(PlanSize - 1) /\ n \div m = x /\ n % m = y
      BY <2>1, <2>3, PairIsNumber
    <2>5. PICK k \in 1..PlanSize : k - 1 = n
      <3>1. n \in 0..(PlanSize - 1) /\ PlanSize \in Nat
        BY <2>4, OptionsAre
      <3>2. n + 1 \in 1..PlanSize /\ (n + 1) - 1 = n
        BY <3>1
      <3> QED
        BY <3>2
    <2>6. OuterAt(k) = a /\ InnerAt(k) = b
      BY <2>2, <2>4, <2>5 DEF OuterAt, InnerAt, m
    <2>7. k \in DOMAIN Plan
      BY <2>5, PlanIs
    <2> QED
      BY <2>6, <2>7
  <1>3. ASSUME NEW x \in Range(options.targets), NEW y \in Range(options.ports)
        PROVE  \E k \in DOMAIN Plan : Plan[k].target = x /\ Plan[k].port = y
    <2>1. PICK i \in DOMAIN options.targets, j \in DOMAIN options.ports :
            options.targets[i] = x /\ options.ports[j] = y
      BY DEF Range
    <2>2. CASE Across
      <3>1. j \in DOMAIN Outer /\ i \in DOMAIN Inner /\ Outer[j] = y /\ Inner[i] = x
        BY <2>1, <2>2 DEF Outer, Inner
      <3>2. PICK k \in DOMAIN Plan : OuterAt(k) = j /\ InnerAt(k) = i
        BY <1>2, <3>1
      <3> QED
        BY <2>2, <3>1, <3>2, AttemptIs
    <2>3. CASE ~ Across
      <3>1. i \in DOMAIN Outer /\ j \in DOMAIN Inner /\ Outer[i] = x /\ Inner[j] = y
        BY <2>1, <2>3 DEF Outer, Inner
      <3>2. PICK k \in DOMAIN Plan : OuterAt(k) = i /\ InnerAt(k) = j
        BY <1>2, <3>1
      <3> QED
        BY <2>3, <3>1, <3>2, AttemptIs
    <2> QED
      BY <2>2, <2>3
  <1>4. ASSUME NEW p \in Range(options.targets) \X Range(options.ports)
        PROVE  p \in {<<Plan[k].target, Plan[k].port>> : k \in DOMAIN Plan}
    <2>1. PICK x \in Range(options.targets), y \in Range(options.ports) : p = <<x, y>>
      OBVIOUS
    <2>2. PICK k \in DOMAIN Plan : Plan[k].target = x /\ Plan[k].port = y
      BY <1>3
    <2> QED
      BY <2>1, <2>2
  <1>5. ASSUME NEW p \in {<<Plan[k].target, Plan[k].port>> : k \in DOMAIN Plan}
        PROVE  p \in Range(options.targets) \X Range(options.ports)
    BY <1>1
  <1> QED
    BY <1>4, <1>5

\* As many first elements of a list without repetitions are that many.
LEMMA FirstElements ==
  ASSUME NEW f, IsInjective(f), NEW n \in Nat, 1..n \subseteq DOMAIN f
  PROVE  Cardinality({f[j] : j \in 1..n}) = n
  <1> DEFINE S == {f[j] : j \in 1..n}
             g == [j \in 1..n |-> f[j]]
  <1>1. g \in Bijection(1..n, S)
    BY DEF Bijection, Injection, Surjection, IsInjective
  <1>2. IsFiniteSet(1..n) /\ Cardinality(1..n) = n
    BY FS_Interval
  <1> HIDE DEF g, S
  <1>3. Cardinality(S) = n
    BY <1>1, <1>2, FS_Bijection DEF ExistsBijection
  <1> QED
    BY <1>3 DEF S

\* Whole turns of m: k - 1 has fewer than as many as l begins, and one of every
\* such turn is its first.
LEMMA TurnsBegun ==
  ASSUME NEW l \in Nat \ {0}, NEW m \in Nat \ {0}
  PROVE  /\ Ceiling(l, m) \in Nat
         /\ \A k \in 1..l : ((k - 1) \div m) + 1 \in 1..Ceiling(l, m)
         /\ \A j \in 1..Ceiling(l, m) : \E k \in 1..l : ((k - 1) \div m) + 1 = j
  <1>1. PICK n \in Nat : l = n + 1
    <2>1. l - 1 \in Nat /\ l = (l - 1) + 1
      OBVIOUS
    <2> QED
      BY <2>1
  <1> DEFINE q == n \div m
             r == n % m
  <1>2. q \in Nat /\ r \in 0..(m - 1) /\ n = q * m + r
    BY Divides
  <1>3. Ceiling(l, m) = q + 1
    <2> DEFINE p == (n + m) \div m
               s == (n + m) % m
    <2>1. n + m \in Nat
      OBVIOUS
    <2>2. p \in Nat /\ s \in 0..(m - 1) /\ n + m = p * m + s
      BY <2>1, Divides
    <2>3. (q + 1) * m + r = n + m
      <3> HIDE DEF q, r, p, s
      <3> QED
        BY <1>2
    <2>4. p = q + 1
      <3> HIDE DEF q, r, p, s
      <3>1. q + 1 \in Nat
        BY <1>2
      <3> QED
        BY <1>2, <2>2, <2>3, <3>1, OneRemainder
    <2>5. l + m - 1 = n + m
      BY <1>1
    <2> QED
      BY <2>4, <2>5 DEF Ceiling
  <1>4. ASSUME NEW k \in 1..l PROVE ((k - 1) \div m) + 1 \in 1..(q + 1)
    <2>1. PICK x \in Nat : k = x + 1 /\ x <= n
      <3>1. k - 1 \in Nat /\ k = (k - 1) + 1 /\ k - 1 <= n
        BY <1>1
      <3> QED
        BY <3>1
    <2> DEFINE a == x \div m
               b == x % m
    <2>2. a \in Nat /\ b \in 0..(m - 1) /\ x = a * m + b
      BY Divides
    <2>3. k - 1 = x
      BY <2>1
    <2> HIDE DEF a, b, q, r
    <2>4. a <= q
      <3>1. SUFFICES ASSUME q + 1 <= a PROVE FALSE
        BY <1>2, <2>2
      <3>2. (q + 1) * m <= a * m
        BY <1>2, <2>2, <3>1
      <3> QED
        BY <1>2, <2>1, <2>2, <3>2
    <2>5. a + 1 \in 1..(q + 1)
      BY <1>2, <2>2, <2>4
    <2> QED
      BY <2>3, <2>5 DEF a
  <1>5. ASSUME NEW j \in 1..(q + 1) PROVE \E k \in 1..l : ((k - 1) \div m) + 1 = j
    <2>1. PICK a \in 0..q : j = a + 1
      <3> HIDE DEF q
      <3>1. j - 1 \in 0..q /\ j = (j - 1) + 1
        BY <1>2
      <3> QED
        BY <3>1
    <2>2. PICK x : x = a * m + 0
      OBVIOUS
    <2>3. a \in 0..((q + 1) - 1) /\ 0 \in 0..(m - 1) /\ q + 1 \in Nat
      <3> HIDE DEF q
      <3> QED
        BY <1>2, <2>1
    <2>4. x \div m = a
      <3> HIDE DEF q
      <3> QED
        BY <2>2, <2>3, PairIsNumber
    <2>5. x \in Nat /\ x <= n
      <3> HIDE DEF q, r
      <3>1. a * m <= q * m /\ a * m \in Nat
        BY <1>2
      <3> QED
        BY <1>2, <2>2, <3>1
    <2>6. x + 1 \in 1..l /\ (x + 1) - 1 = x
      BY <1>1, <2>5
    <2>7. ((x + 1) - 1) \div m = a
      BY <2>4, <2>6
    <2> QED
      BY <2>1, <2>6, <2>7
  <1>6. q + 1 \in Nat
    BY <1>2
  <1> QED
    BY <1>3, <1>4, <1>5, <1>6

\* A capped plan is as wide as its mode allows.
LEMMA PlanIsWide ==
  ASSUME options \in TrafficOptions, IsInjective(options.targets), Plan # << >>
  PROVE  Cardinality({Plan[k].target : k \in DOMAIN Plan}) =
           IF options.mode = "horizontal_scan" THEN Min({Len(Plan), Len(options.targets)})
           ELSE Ceiling(Len(Plan), Len(options.ports))
  <1> DEFINE l == Len(Plan)
             m == Len(Inner)
  <1>1. l \in Nat \ {0} /\ DOMAIN Plan = 1..l /\ l <= PlanSize
    <2>1. Len(Plan) \in Nat /\ DOMAIN Plan = 1..Len(Plan) /\ Len(Plan) <= PlanSize
      BY PlanIs, OptionsAre
    <2>2. Len(Plan) # 0
      BY PlanIs
    <2> QED
      BY <2>1, <2>2
  <1>2. m \in Nat \ {0}
    <2>1. 1 \in DOMAIN Plan
      BY <1>1
    <2>2. InnerAt(1) \in 1..m /\ m \in Nat
      BY <2>1, AttemptIs, WalkIs
    <2> HIDE DEF m
    <2>3. PICK i : i \in 1..m
      BY <2>2
    <2> QED
      BY <2>2, <2>3
  <1> HIDE DEF l, m
  <1>3. ASSUME Across
        PROVE  Cardinality({Plan[k].target : k \in DOMAIN Plan}) = Min({l, m})
    <2> DEFINE M == Min({l, m})
    <2>1. M \in 1..m /\ M <= l /\ \A j \in Nat : j <= l /\ j <= m => j <= M
      <3>1. M \in {l, m}
        BY <1>1, <1>2, MinIsLeast
      <3>2. \E x \in {l, m} : \A y \in {l, m} : x <= y
        BY <1>1, <1>2
      <3>3. M <= l /\ M <= m
        BY <3>2 DEF Min
      <3> HIDE DEF M
      <3> QED
        BY <1>1, <1>2, <3>1, <3>3
    <2>2. ASSUME NEW k \in 1..l PROVE InnerAt(k) \in 1..M /\ Plan[k].target = Inner[InnerAt(k)]
      <3> HIDE DEF M
      <3>1. /\ InnerAt(k) \in 1..m /\ OuterAt(k) \in Nat \ {0}
            /\ k - 1 = (OuterAt(k) - 1) * m + (InnerAt(k) - 1)
            /\ Plan[k].target = Inner[InnerAt(k)]
        BY <1>1, <1>3, AttemptIs, WalkIs DEF m
      <3>2. InnerAt(k) <= k
        <4>1. PICK a \in Nat, i \in 1..m : OuterAt(k) - 1 = a /\ InnerAt(k) = i
          BY <3>1
        <4>2. a * m \in Nat
          BY <1>2, <4>1
        <4>3. PICK p \in Nat : p = a * m
          BY <4>2
        <4>4. k - 1 = p + (i - 1)
          BY <3>1, <4>1, <4>3
        <4> QED
          BY <1>2, <4>1, <4>4
      <3> QED
        BY <1>1, <2>1, <3>1, <3>2
    <2>3. ASSUME NEW j \in 1..M PROVE j \in 1..l /\ InnerAt(j) = j
      <3> HIDE DEF M
      <3>1. j \in 1..l
        BY <1>1, <2>1
      <3>2. PICK x \in 0..(m - 1) : j = x + 1
        <4>1. j - 1 \in 0..(m - 1) /\ j = (j - 1) + 1
          BY <1>2, <2>1
        <4> QED
          BY <4>1
      <3>3. x % m = x /\ j - 1 = x
        BY <1>2, <3>2, SmallRemainder
      <3> QED
        BY <3>1, <3>2, <3>3 DEF InnerAt, m
    <2> HIDE DEF M
    <2>4. {Plan[k].target : k \in DOMAIN Plan} = {Inner[j] : j \in 1..M}
      <3>1. ASSUME NEW k \in DOMAIN Plan PROVE \E j \in 1..M : Plan[k].target = Inner[j]
        BY <1>1, <2>2
      <3>2. ASSUME NEW j \in 1..M PROVE \E k \in DOMAIN Plan : Plan[k].target = Inner[j]
        BY <1>1, <2>2, <2>3
      <3> QED
        BY <3>1, <3>2
    <2>5. IsInjective(Inner) /\ M \in Nat /\ 1..M \subseteq DOMAIN Inner
      <3>1. DOMAIN Inner = 1..m
        BY WalkIs DEF m
      <3>2. IsInjective(Inner)
        BY <1>3 DEF Inner
      <3> QED
        BY <1>2, <2>1, <3>1, <3>2
    <2> QED
      BY <2>4, <2>5, FirstElements DEF M
  <1>4. ASSUME ~ Across
        PROVE  Cardinality({Plan[k].target : k \in DOMAIN Plan}) = Ceiling(l, m)
    <2> DEFINE M == Ceiling(l, m)
    <2>1. /\ M \in Nat
          /\ \A k \in 1..l : OuterAt(k) \in 1..M
          /\ \A j \in 1..M : \E k \in 1..l : OuterAt(k) = j
      BY <1>1, <1>2, TurnsBegun DEF OuterAt, m
    <2> HIDE DEF M
    <2>2. \A k \in 1..l : OuterAt(k) \in DOMAIN Outer /\ Plan[k].target = Outer[OuterAt(k)]
      BY <1>1, <1>4, AttemptIs
    <2>3. {Plan[k].target : k \in DOMAIN Plan} = {Outer[j] : j \in 1..M}
      <3>1. ASSUME NEW k \in DOMAIN Plan PROVE \E j \in 1..M : Plan[k].target = Outer[j]
        BY <1>1, <2>1, <2>2
      <3>2. ASSUME NEW j \in 1..M PROVE \E k \in DOMAIN Plan : Plan[k].target = Outer[j]
        BY <1>1, <2>1, <2>2
      <3> QED
        BY <3>1, <3>2
    <2>4. IsInjective(Outer) /\ 1..M \subseteq DOMAIN Outer
      <3>1. IsInjective(Outer)
        BY <1>4 DEF Outer
      <3> QED
        BY <2>1, <2>2, <3>1
    <2> QED
      BY <2>1, <2>3, <2>4, FirstElements DEF M
  <1> QED
    BY <1>3, <1>4 DEF Across, Inner, l, m

LEMMA PlanDoesFit ==
  ASSUME options \in TrafficOptions PROVE PlanFitsMode
  BY PlanRepeatsNothing, PlanIsWhole, PlanIsWide DEF PlanFitsMode


-----------------------------------------------------------------------------
(* The scenario traffic generator: its labels.                             *)

\* What an append leaves: the longer file, or the same and one record lost.
LEMMA AppendIs ==
  ASSUME NEW enabled \in BOOLEAN, NEW file, NEW record, NEW count \in Nat,
         NEW outcome \in AppendJsonl(enabled, file, count, record)
  PROVE  \/ outcome[1] = (IF enabled THEN Append(file, record) ELSE file) /\ outcome[2] = count
         \/ enabled /\ outcome[1] = file /\ outcome[2] # count
  <1> DEFINE longer == IF enabled THEN Append(file, record) ELSE file
  <1>1. \/ outcome = <<longer, count>>
        \/ outcome = <<file, count + 1>> /\ enabled
    BY Zenon DEF AppendJsonl
  <1> HIDE DEF longer
  <1>2. count + 1 # count
    OBVIOUS
  <1>3. CASE outcome = <<longer, count>>
    BY <1>3 DEF longer
  <1>4. CASE outcome = <<file, count + 1>> /\ enabled
    BY <1>2, <1>4
  <1> QED
    BY <1>1, <1>3, <1>4

\* What the attempts made, the files and the plan are.
LEMMA LabelsAre ==
  ASSUME TrafficInv
  PROVE  /\ made \in Nat /\ DOMAIN results = 1..made /\ options.logged \in BOOLEAN
         /\ Len(Plan) \in Nat /\ DOMAIN Plan = 1..Len(Plan) /\ 1..made \subseteq 1..Len(Plan)
         /\ IsFiniteSet(labelled) /\ Cardinality(labelled) \in Nat /\ Cardinality(lost) \in Nat
         /\ \A i \in 1..made : Label(i) \in TrafficLabel
  <1>1. made \in Nat /\ DOMAIN results = 1..made /\ options.logged \in BOOLEAN
    BY ScenarioTrafficAssumption DEF TrafficInv, made
  <1>2. /\ Len(Plan) \in Nat /\ DOMAIN Plan = 1..Len(Plan) /\ 1..made \subseteq 1..Len(Plan)
    <2>1. Len(Plan) \in Nat /\ DOMAIN Plan = 1..Len(Plan)
      BY PlanIs, OptionsAre DEF TrafficInv
    <2> QED
      BY <1>1, <2>1 DEF TrafficInv
  <1>3. IsFiniteSet(labelled) /\ Cardinality(labelled) \in Nat /\ Cardinality(lost) \in Nat
    BY <1>1, CountIs DEF TrafficInv
  <1>4. ASSUME NEW i \in 1..made PROVE Label(i) \in TrafficLabel
    <2>1. Plan[i] \in Range(Plan)
      BY <1>2 DEF Range
    <2>2. results[i] \in TrafficResult
      BY <1>1 DEF TrafficInv
    <2> QED
      BY <2>1, <2>2 DEF Label, TrafficLabel
  <1> QED
    BY <1>1, <1>2, <1>3, <1>4

\* The plan of a command line does not change.
LEMMA PlanStays ==
  ASSUME UNCHANGED options
  PROVE  Plan' = Plan /\ TrafficLabel' = TrafficLabel /\ TrafficRecord' = TrafficRecord
  <1>1. Plan' = Plan
    BY DEF Plan
  <1> QED
    BY <1>1 DEF TrafficLabel, TrafficRecord

\* Writing an event appends it, or leaves the file as it is.
LEMMA TrafficEventWritten ==
  ASSUME TrafficInv, NEW record, WriteTrafficEvent(record)
  PROVE  trafficEvents' \in {trafficEvents, Append(trafficEvents, record)}
  <1>1. PICK o \in AppendJsonl(options.logged, trafficEvents, Cardinality(lost), record) :
          trafficEvents' = o[1]
    BY DEF WriteTrafficEvent
  <1> DEFINE logged == options.logged
             count == Cardinality(lost)
  <1>2. logged \in BOOLEAN /\ count \in Nat /\ o \in AppendJsonl(logged, trafficEvents, count, record)
    BY LabelsAre
  <1> HIDE DEF logged, count
  <1>3. \/ o[1] = (IF logged THEN Append(trafficEvents, record) ELSE trafficEvents)
        \/ o[1] = trafficEvents
    BY <1>2, AppendIs
  <1> QED
    BY <1>1, <1>3

\* The place of a written label is a line of the file.
LEMMA LabelHasPlace ==
  ASSUME TrafficInv, NEW i \in labelled
  PROVE  PlaceOf(i) \in 1..Cardinality(labelled) /\ i \in 1..made
  <1> DEFINE before == {j \in labelled : j <= i}
  <1>1. labelled \subseteq 1..made /\ made \in Nat
    BY LabelsAre DEF TrafficInv
  <1>2. before \subseteq labelled /\ i \in before
    BY <1>1
  <1>3. IsFiniteSet(before) /\ Cardinality(before) <= Cardinality(labelled) /\ Cardinality(before) \in Nat
    BY <1>2, LabelsAre, FS_Subset, FS_CardinalityType
  <1>4. Cardinality(before) # 0
    BY <1>2, <1>3, FS_EmptySet
  <1> HIDE DEF before
  <1>5. Cardinality(before) \in 1..Cardinality(labelled)
    BY <1>3, <1>4, LabelsAre
  <1> QED
    BY <1>1, <1>5 DEF PlaceOf, before

\* A step that writes no label leaves those of the file true.
LabelsTrue ==
  options.logged =>
    /\ Len(trafficTruth) = Cardinality(labelled)
    /\ \A i \in labelled : i \in 1..made /\ trafficTruth[PlaceOf(i)] = Label(i)

LEMMA LabelsStay ==
  ASSUME TrafficInv, UNCHANGED <<options, trafficTruth, labelled>>,
         made' \in Nat, made <= made', \A i \in 1..made : results'[i] = results[i]
  PROVE  LabelsTrue'
  <1>1. \A i \in labelled : i \in 1..made' /\ PlaceOf(i)' = PlaceOf(i) /\ Label(i)' = Label(i)
    <2>1. SUFFICES ASSUME NEW i \in labelled
                   PROVE  i \in 1..made' /\ PlaceOf(i)' = PlaceOf(i) /\ Label(i)' = Label(i)
      OBVIOUS
    <2>2. i \in 1..made
      BY LabelHasPlace
    <2>3. i \in 1..made'
      BY <2>2, LabelsAre
    <2> QED
      BY <2>2, <2>3, PlanStays DEF PlaceOf, Label
  <1>2. options.logged =>
          /\ Len(trafficTruth) = Cardinality(labelled)
          /\ \A i \in labelled : trafficTruth[PlaceOf(i)] = Label(i)
    BY DEF TrafficInv, LabelsFollowPlan
  <1> QED
    BY <1>1, <1>2 DEF LabelsTrue

\* The file grows by the label of the attempt at hand, which is the last one.
LEMMA LabelsGrow ==
  ASSUME TrafficInv, UNCHANGED <<options, results>>, program = "truth",
         labelled' = labelled \cup {made},
         trafficTruth' = IF options.logged THEN Append(trafficTruth, Label(made)) ELSE trafficTruth
  PROVE  LabelsTrue'
  <1> DEFINE k == Cardinality(labelled)
             n == made
  <1>1. /\ n \in Nat /\ k \in Nat /\ labelled \subseteq 1..n /\ n \notin labelled /\ n > 0
        /\ made' = n
    BY LabelsAre DEF TrafficInv, made
  <1>2. Cardinality(labelled') = k + 1
    BY <1>1, CountGrows
  <1>3. SUFFICES ASSUME options.logged
                 PROVE  /\ Len(trafficTruth') = k + 1
                        /\ \A i \in labelled' : i \in 1..n /\ trafficTruth'[PlaceOf(i)'] = Label(i)'
    BY <1>1, <1>2 DEF LabelsTrue
  <1>4. \A i : Label(i)' = Label(i)
    BY PlanStays DEF Label
  <1>5. Len(trafficTruth) = k /\ trafficTruth \in Seq(TrafficLabel)
    BY <1>3 DEF TrafficInv, LabelsFollowPlan
  <1> HIDE DEF k, n
  <1>6. Len(trafficTruth') = k + 1 /\ trafficTruth'[k + 1] = Label(n)
        /\ \A j \in 1..k : trafficTruth'[j] = trafficTruth[j]
    <2>1. trafficTruth' = Append(trafficTruth, Label(n))
      BY <1>3 DEF n
    <2> DEFINE v == Label(n)
    <2> HIDE DEF v
    <2>2. trafficTruth' = Append(trafficTruth, v)
      BY <2>1 DEF v
    <2>3. Len(trafficTruth') = k + 1 /\ trafficTruth'[k + 1] = v
          /\ \A j \in 1..k : trafficTruth'[j] = trafficTruth[j]
      BY <1>1, <1>5, <2>2
    <2> QED
      BY <2>3 DEF v
  <1>7. ASSUME NEW i \in labelled PROVE i \in 1..n /\ trafficTruth'[PlaceOf(i)'] = Label(i)
    <2>1. i \in 1..n /\ i # n
      BY <1>1
    <2>2. {j \in labelled \cup {n} : j <= i} = {j \in labelled : j <= i}
      <3>1. ~(n <= i)
        BY <1>1, <2>1
      <3> QED
        BY <3>1
    <2>3. PlaceOf(i)' = PlaceOf(i)
      BY <2>2 DEF PlaceOf, n
    <2>4. PlaceOf(i) \in 1..k /\ trafficTruth[PlaceOf(i)] = Label(i)
      BY <1>3, LabelHasPlace DEF k, TrafficInv, LabelsFollowPlan
    <2> QED
      BY <1>6, <2>1, <2>3, <2>4
  <1>8. ASSUME NEW i, i = n PROVE i \in 1..n /\ trafficTruth'[PlaceOf(i)'] = Label(i)
    <2>1. {j \in labelled' : j <= i} = labelled'
      <3>1. \A j \in labelled \cup {n} : j <= i
        BY <1>1, <1>8
      <3> QED
        BY <3>1 DEF n
    <2>2. PlaceOf(i)' = k + 1
      BY <1>2, <2>1 DEF PlaceOf
    <2> QED
      BY <1>1, <1>6, <1>8, <2>2
  <1>9. ASSUME NEW i \in labelled' PROVE i \in 1..n /\ trafficTruth'[PlaceOf(i)'] = Label(i)'
    <2>1. i \in labelled \/ i = n
      BY DEF n
    <2>2. i \in 1..n /\ trafficTruth'[PlaceOf(i)'] = Label(i)
      BY <1>7, <1>8, <2>1
    <2> QED
      BY <1>4, <2>2
  <1> QED
    BY <1>6, <1>9


\* A stop event counts every attempt of the plan, and every attempt has its end.
StopsTrue ==
  \A i \in DOMAIN trafficEvents : trafficEvents[i].type = "stop" =>
    trafficEvents[i].attempts = Len(Plan) /\ labelled \cup lost = 1..Len(Plan)

LEMMA StopsStay ==
  ASSUME TrafficInv, UNCHANGED options, labelled \subseteq labelled', lost \subseteq lost',
         labelled' \cup lost' \subseteq 1..Len(Plan),
         NEW record \in TrafficRecord,
         trafficEvents' \in {trafficEvents, Append(trafficEvents, record)},
         record.type = "stop" => record.attempts = Len(Plan) /\ labelled' \cup lost' = 1..Len(Plan)
  PROVE  StopsTrue' /\ (trafficEvents \in Seq(TrafficRecord))'
  <1> DEFINE all == 1..Len(Plan)
             whole == labelled' \cup lost' = all
  <1>1. trafficEvents \in Seq(TrafficRecord) /\ TrafficRecord' = TrafficRecord /\ Plan' = Plan
    BY PlanStays DEF TrafficInv
  <1>2. \A i \in DOMAIN trafficEvents : trafficEvents[i].type = "stop" =>
          trafficEvents[i].attempts = Len(Plan) /\ whole
    BY DEF TrafficInv, LabelsFollowPlan
  <1>3. record.type = "stop" => record.attempts = Len(Plan) /\ whole
    OBVIOUS
  <1> DEFINE Fits(r) == r.type = "stop" => r.attempts = Len(Plan) /\ whole
  <1>4. (\A i \in DOMAIN trafficEvents : Fits(trafficEvents[i])) /\ Fits(record)
    BY <1>2, <1>3
  <1> HIDE DEF Fits
  <1>5. /\ trafficEvents' \in Seq(TrafficRecord)
        /\ \A i \in DOMAIN trafficEvents' :
             \/ trafficEvents'[i] = record
             \/ i \in DOMAIN trafficEvents /\ trafficEvents'[i] = trafficEvents[i]
    <2>1. CASE trafficEvents' = trafficEvents
      BY <1>1, <2>1
    <2>2. CASE trafficEvents' = Append(trafficEvents, record)
      <3>1. Len(trafficEvents) \in Nat /\ DOMAIN trafficEvents = 1..Len(trafficEvents)
        BY <1>1
      <3>2. trafficEvents' \in Seq(TrafficRecord) /\ DOMAIN trafficEvents' = 1..(Len(trafficEvents) + 1)
        BY <1>1, <2>2, <3>1
      <3>3. trafficEvents'[Len(trafficEvents) + 1] = record
        BY <1>1, <2>2, <3>1
      <3>4. \A i \in DOMAIN trafficEvents : trafficEvents'[i] = trafficEvents[i]
        BY <1>1, <2>2, <3>1
      <3>5. ASSUME NEW i \in DOMAIN trafficEvents'
            PROVE  \/ trafficEvents'[i] = record
                   \/ i \in DOMAIN trafficEvents /\ trafficEvents'[i] = trafficEvents[i]
        <4>1. i = Len(trafficEvents) + 1 \/ i \in DOMAIN trafficEvents
          BY <3>1, <3>2
        <4> QED
          BY <3>3, <3>4, <4>1
      <3> QED
        BY <3>2, <3>5
    <2> QED
      BY <2>1, <2>2
  <1>6. \A i \in DOMAIN trafficEvents' : Fits(trafficEvents'[i])
    BY <1>4, <1>5
  <1> QED
    BY <1>1, <1>5, <1>6 DEF Fits, StopsTrue

\* Init establishes the invariant.
LEMMA TrafficStarts ==
  ASSUME TrafficInit PROVE TrafficInv
  <1>1. options \in TrafficOptions /\ made = 0 /\ labelled = {} /\ lost = {}
        /\ trafficEvents = << >> /\ trafficTruth = << >> /\ program = "start" /\ results = << >>
    BY DEF TrafficInit, made
  <1>2. Len(Plan) \in Nat
    BY <1>1, PlanIs, OptionsAre
  <1>3. LabelsFollowPlan
    BY <1>1, FS_EmptySet DEF LabelsFollowPlan
  <1> QED
    BY <1>1, <1>2, <1>3 DEF TrafficInv

\* The parts of LabelsFollowPlan.
LEMMA LabelsParts ==
  LabelsFollowPlan <=>
    /\ labelled \cap lost = {}
    /\ (1..made) \ (labelled \cup lost) \subseteq
         (IF program \in {"event", "truth", "dead"} THEN {made} ELSE {})
    /\ LabelsTrue /\ StopsTrue
  BY DEF LabelsFollowPlan, LabelsTrue, StopsTrue

\* Nothing but an event and the place in the program changes.
EventStep(from, record) ==
  /\ program = from
  /\ WriteTrafficEvent(record)
  /\ UNCHANGED <<options, results, trafficTruth, labelled, lost>>

\* What a step that writes an event keeps, wherever the program goes.
LEMMA EventStepKeeps ==
  ASSUME TrafficInv, NEW from, NEW record \in TrafficRecord, EventStep(from, record),
         record.type = "stop" => record.attempts = Len(Plan) /\ labelled \cup lost = 1..Len(Plan)
  PROVE  LabelsTrue' /\ StopsTrue' /\ (trafficEvents \in Seq(TrafficRecord))'
  <1>1. /\ UNCHANGED <<options, results, trafficTruth, labelled, lost>> /\ made' = made
        /\ made \in Nat
    BY LabelsAre DEF EventStep, made
  <1>2. LabelsTrue'
    BY <1>1, LabelsStay
  <1>3. labelled \cup lost \subseteq 1..Len(Plan)
    BY LabelsAre DEF TrafficInv
  <1>4. trafficEvents' \in {trafficEvents, Append(trafficEvents, record)}
    BY TrafficEventWritten DEF EventStep
  <1> QED
    BY <1>1, <1>2, <1>3, <1>4, StopsStay

\* What the rest of the invariant asks of a step that leaves the labels alone.
LEMMA RestOfInv ==
  ASSUME TrafficInv, UNCHANGED <<options, trafficTruth, labelled, lost>>,
         program' \in {"start", "refused", "top", "event", "truth", "done", "dead"},
         (results \in Seq(TrafficResult))', (trafficEvents \in Seq(TrafficRecord))',
         made' <= Len(Plan), made' \in Nat, made <= made',
         program' \in {"event", "truth"} => made' > 0 /\ made' \notin labelled \cup lost,
         (1..made') \ (labelled \cup lost) \subseteq
           (IF program' \in {"event", "truth", "dead"} THEN {made'} ELSE {}),
         LabelsTrue', StopsTrue'
  PROVE  TrafficInv'
  <1>1. Plan' = Plan /\ TrafficLabel' = TrafficLabel
    BY PlanStays
  <1>2. LabelsFollowPlan'
    <2>1. labelled \cap lost = {}
      BY DEF TrafficInv, LabelsFollowPlan
    <2> QED
      BY <2>1 DEF LabelsFollowPlan, LabelsTrue, StopsTrue
  <1>3. labelled \subseteq 1..made' /\ lost \subseteq 1..made'
    BY LabelsAre DEF TrafficInv
  <1>4. (trafficTruth \in Seq(TrafficLabel))'
    BY <1>1 DEF TrafficInv
  <1> QED
    BY <1>1, <1>2, <1>3, <1>4 DEF TrafficInv


\* Every step keeps the invariant.
LEMMA TrafficSteps ==
  ASSUME TrafficInv, [TrafficNext]_trafficVars PROVE TrafficInv'
  <1> USE DEF Goes
  <1>1. /\ made \in Nat /\ Len(Plan) \in Nat /\ made <= Len(Plan)
        /\ labelled \subseteq 1..made /\ lost \subseteq 1..made
        /\ (1..made) \ (labelled \cup lost) \subseteq
             (IF program \in {"event", "truth", "dead"} THEN {made} ELSE {})
        /\ program \in {"event", "truth"} => made > 0 /\ made \notin labelled \cup lost
        /\ LabelsTrue /\ StopsTrue
        /\ results \in Seq(TrafficResult) /\ trafficEvents \in Seq(TrafficRecord)
    BY LabelsAre, LabelsParts DEF TrafficInv
  <1>2. ASSUME UNCHANGED results PROVE made' = made
    BY <1>2 DEF made
  <1>3. CASE TrafficStart
    <2>1. /\ UNCHANGED <<options, results, trafficTruth, labelled, lost>>
          /\ program = "start" /\ program' \in {"refused", "top"}
      BY <1>3 DEF TrafficStart
    <2> DEFINE record == [type |-> "start", attempts |-> 0]
    <2>2. record \in TrafficRecord /\ record.type # "stop"
      BY DEF TrafficRecord
    <2> HIDE DEF record
    <2>3. LabelsTrue' /\ StopsTrue' /\ (trafficEvents \in Seq(TrafficRecord))'
      <3>1. CASE Plan = << >>
        <4>1. trafficEvents' = trafficEvents
          BY <1>3, <3>1 DEF TrafficStart
        <4> QED
          BY <1>1, <1>2, <2>1, <2>2, <4>1, LabelsStay, StopsStay, LabelsAre
      <3>2. CASE Plan # << >>
        <4>1. EventStep("start", record)
          BY <1>3, <3>2 DEF TrafficStart, EventStep, record
        <4> QED
          BY <2>2, <4>1, EventStepKeeps
      <3> QED
        BY <3>1, <3>2
    <2> QED
      BY <1>1, <1>2, <2>1, <2>3, RestOfInv
  <1>4. CASE Attempt
    <2>1. /\ UNCHANGED <<options, trafficEvents, trafficTruth, labelled, lost>>
          /\ program = "top" /\ made < Len(Plan)
      BY <1>4 DEF Attempt
    <2>2. \/ program' = "dead" /\ UNCHANGED results
          \/ program' = "event" /\ \E outcome \in TrafficResult : results' = Append(results, outcome)
      <3>1. Endings(Plan[made + 1].target) \subseteq TrafficResult
        BY DEF Endings, TrafficResult
      <3> QED
        BY <1>4, <3>1 DEF Attempt
    <2>3. CASE program' = "dead" /\ UNCHANGED results
      <3>1. made' = made
        BY <1>2, <2>3
      <3>2. LabelsTrue' /\ StopsTrue' /\ (trafficEvents \in Seq(TrafficRecord))'
        BY <1>1, <2>1, <2>3, <3>1, LabelsStay, PlanStays DEF StopsTrue
      <3> QED
        BY <1>1, <2>1, <2>3, <3>1, <3>2, RestOfInv
    <2>4. CASE program' = "event" /\ \E outcome \in TrafficResult : results' = Append(results, outcome)
      <3>1. /\ results' \in Seq(TrafficResult) /\ made' = made + 1
            /\ \A i \in 1..made : results'[i] = results[i]
        BY <1>1, <2>4 DEF made
      <3>2. LabelsTrue' /\ StopsTrue' /\ (trafficEvents \in Seq(TrafficRecord))'
        <4>1. made' \in Nat /\ made <= made'
          BY <1>1, <3>1
        <4>2. LabelsTrue'
          BY <2>1, <3>1, <4>1, LabelsStay
        <4>3. StopsTrue' /\ (trafficEvents \in Seq(TrafficRecord))'
          BY <1>1, <2>1, PlanStays DEF StopsTrue
        <4> QED
          BY <4>2, <4>3
      <3>3. made' \in Nat /\ made' <= Len(Plan) /\ made <= made' /\ made' > 0
            /\ made' \notin labelled \cup lost
            /\ (1..made') \ (labelled \cup lost) \subseteq {made'}
        BY <1>1, <2>1, <3>1
      <3> QED
        BY <1>1, <2>1, <2>4, <3>1, <3>2, <3>3, RestOfInv
    <2> QED
      BY <2>2, <2>3, <2>4
  <1>5. CASE LogTrafficEvent
    <2> DEFINE record == [type |-> "attempt", label |-> Label(made)]
    <2>1. /\ EventStep("event", record) /\ program = "event" /\ program' = "truth"
          /\ UNCHANGED <<options, results, trafficTruth, labelled, lost>>
      BY <1>5 DEF LogTrafficEvent, EventStep
    <2>2. record \in TrafficRecord /\ record.type # "stop"
      <3>1. made \in 1..made
        BY <1>1, <2>1
      <3>2. Label(made) \in TrafficLabel
        BY <3>1, LabelsAre
      <3> QED
        BY <3>2 DEF TrafficRecord
    <2> HIDE DEF record
    <2>3. LabelsTrue' /\ StopsTrue' /\ (trafficEvents \in Seq(TrafficRecord))'
      BY <2>1, <2>2, EventStepKeeps
    <2> QED
      BY <1>1, <1>2, <2>1, <2>3, RestOfInv
  <1>6. CASE LogTrafficTruth
    <2>1. /\ program = "truth" /\ program' = "top" /\ UNCHANGED <<options, results, trafficEvents>>
          /\ made' = made
      BY <1>2, <1>6 DEF LogTrafficTruth
    <2> DEFINE count == Cardinality(lost)
               logged == options.logged
               label == Label(made)
    <2>2. PICK o \in AppendJsonl(logged, trafficTruth, count, label) :
            /\ trafficTruth' = o[1]
            /\ IF o[2] = count THEN labelled' = labelled \cup {made} /\ UNCHANGED lost
                               ELSE lost' = lost \cup {made} /\ UNCHANGED labelled
      BY <1>6 DEF LogTrafficTruth
    <2>3. count \in Nat /\ logged \in BOOLEAN
      BY LabelsAre
    <2> HIDE DEF count, logged, label
    <2>4. \/ o[1] = (IF logged THEN Append(trafficTruth, label) ELSE trafficTruth) /\ o[2] = count
          \/ logged /\ o[1] = trafficTruth /\ o[2] # count
      BY <2>2, <2>3, AppendIs
    <2>5. LabelsTrue' /\ labelled' \cup lost' = labelled \cup lost \cup {made}
          /\ labelled \subseteq labelled' /\ lost \subseteq lost' /\ labelled' \cap lost' = {}
          /\ (trafficTruth \in Seq(TrafficLabel))'
      <3>1. labelled \cap lost = {} /\ trafficTruth \in Seq(TrafficLabel) /\ label \in TrafficLabel
            /\ TrafficLabel' = TrafficLabel
        <4>1. made \in 1..made
          BY <1>1, <2>1
        <4> QED
          BY <2>1, <4>1, LabelsAre, PlanStays DEF TrafficInv, LabelsFollowPlan, label
      <3>2. CASE o[2] = count
        <4>1. trafficTruth' = (IF logged THEN Append(trafficTruth, label) ELSE trafficTruth)
              /\ labelled' = labelled \cup {made} /\ lost' = lost
          BY <2>2, <2>4, <3>2
        <4>2. LabelsTrue'
          BY <2>1, <4>1, LabelsGrow DEF logged, label
        <4>3. trafficTruth' \in Seq(TrafficLabel)
          BY <2>3, <3>1, <4>1
        <4> QED
          BY <1>1, <2>1, <3>1, <4>1, <4>2, <4>3
      <3>3. CASE o[2] # count
        <4>1. trafficTruth' = trafficTruth /\ lost' = lost \cup {made} /\ labelled' = labelled
          BY <2>2, <2>4, <3>3
        <4>2. LabelsTrue'
          BY <1>1, <2>1, <4>1, LabelsStay
        <4> QED
          BY <1>1, <2>1, <3>1, <4>1, <4>2
      <3> QED
        BY <3>2, <3>3
    <2>6. labelled' \cup lost' \subseteq 1..made /\ labelled' \subseteq 1..made /\ lost' \subseteq 1..made
      BY <1>1, <2>1, <2>5
    <2>7. Plan' = Plan /\ TrafficRecord' = TrafficRecord
      BY <2>1, PlanStays
    <2>8. StopsTrue'
      BY <1>1, <2>1, <2>5, <2>6, <2>7 DEF StopsTrue
    <2>9. (1..made) \ (labelled' \cup lost') \subseteq {}
      BY <1>1, <2>1, <2>5
    <2>10. LabelsFollowPlan'
      BY <2>1, <2>5, <2>8, <2>9 DEF LabelsFollowPlan, LabelsTrue, StopsTrue
    <2> QED
      BY <1>1, <2>1, <2>5, <2>6, <2>7, <2>10 DEF TrafficInv
  <1>7. CASE TrafficStop
    <2> DEFINE record == [type |-> "stop", attempts |-> made]
    <2>1. /\ EventStep("top", record) /\ program = "top" /\ program' = "done" /\ made = Len(Plan)
          /\ UNCHANGED <<options, results, trafficTruth, labelled, lost>>
      BY <1>7 DEF TrafficStop, EventStep
    <2>2. record \in TrafficRecord /\ record.attempts = Len(Plan)
      BY <1>1, <2>1 DEF TrafficRecord
    <2> HIDE DEF record
    <2>3. labelled \cup lost = 1..Len(Plan)
      BY <1>1, <2>1
    <2>4. LabelsTrue' /\ StopsTrue' /\ (trafficEvents \in Seq(TrafficRecord))'
      BY <2>1, <2>2, <2>3, EventStepKeeps
    <2> QED
      BY <1>1, <1>2, <2>1, <2>4, RestOfInv
  <1>8. CASE TrafficKilled
    <2>1. /\ UNCHANGED <<options, results, trafficEvents, trafficTruth, labelled, lost>>
          /\ program' = "dead"
      BY <1>8 DEF TrafficKilled
    <2>2. LabelsTrue' /\ StopsTrue' /\ (trafficEvents \in Seq(TrafficRecord))'
      BY <1>1, <1>2, <2>1, LabelsStay, PlanStays DEF StopsTrue
    <2>3. (1..made) \ (labelled \cup lost) \subseteq {made}
      BY <1>1
    <2> QED
      BY <1>1, <1>2, <2>1, <2>2, <2>3, RestOfInv
  <1>9. CASE UNCHANGED trafficVars
    <2>1. UNCHANGED <<options, program, results, trafficEvents, trafficTruth, labelled, lost>>
      BY <1>9 DEF trafficVars
    <2>2. LabelsTrue' /\ StopsTrue' /\ (trafficEvents \in Seq(TrafficRecord))'
      BY <1>1, <1>2, <2>1, LabelsStay, PlanStays DEF StopsTrue
    <2>3. program' \in {"start", "refused", "top", "event", "truth", "done", "dead"}
      BY <2>1 DEF TrafficInv
    <2> QED
      BY <1>1, <1>2, <2>1, <2>2, <2>3, RestOfInv
  <1> QED
    BY <1>3, <1>4, <1>5, <1>6, <1>7, <1>8, <1>9 DEF TrafficNext

\* The invariant of the generator: what it has made, what it has written and what
\* it has lost fit together at every step of it.
THEOREM TrafficInvariant == TrafficSpec => []TrafficInv
  <1>1. TrafficInit => TrafficInv
    BY TrafficStarts
  <1>2. TrafficInv /\ [TrafficNext]_trafficVars => TrafficInv'
    BY TrafficSteps
  <1> QED
    BY <1>1, <1>2, PTL DEF TrafficSpec

\* What the generator did is labelled, and what it does is what the mode says:
\* the plan of any command line whose lists repeat nothing has every pair at most
\* once, all of them unless it is capped and is as wide as the mode promises; the
\* ground truth is that plan in order, as far as it was made, and a stop event
\* stands for the whole of it.
THEOREM TrafficIsAccounted == TrafficSpec => []TrafficAccounted
  <1>1. TrafficInv => TrafficAccounted
    BY PlanDoesFit DEF TrafficInv, TrafficAccounted
  <1> QED
    BY <1>1, TrafficInvariant, PTL
=============================================================================
