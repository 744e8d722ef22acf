------------------------------ MODULE Heartbeat ------------------------------
(***************************************************************************)
(* Who is alive: the beacon thread of every camera                         *)
(* (services/camera-app/beacon.py), the list of recent beacons in the      *)
(* control server, and the NVR console's overview, which fetches the list  *)
(* and judges each camera by the age of its last beacon.                   *)
(*                                                                         *)
(* Time passes in ticks; all containers run on one host and read one       *)
(* clock.  Ages are counted up to Ttl + 1, "too old".                      *)
(***************************************************************************)
EXTENDS Integers, Sequences, SequencesExt

CONSTANTS Cameras,
          Registered,   \* the cameras in the console's database
          Interval,     \* PRIMARY_BEACON_INTERVAL_SECONDS, 10
          Timeout,      \* of a request, 3 at the camera and at the console
          Ttl,          \* NVR_CAMERA_HEARTBEAT_TTL_SECONDS, 30
          Limit         \* maxlen of _recent_beacons, 100

ASSUME HeartbeatAssumption ==
  /\ Registered \subseteq Cameras
  /\ {Interval, Timeout, Ttl, Limit} \subseteq Nat \ {0}

VARIABLES sender,    \* camera -> where its beacon thread is
          timer,     \* camera -> ticks left of its wait, or of its request
          post,      \* camera -> the request its thread waits for
          late,      \* cameras with a request that they no longer wait for
          entry,     \* camera -> status of its beacon entry (state.py)
          beacons,   \* the control server's _recent_beacons
          heard,     \* history: camera -> age of its last beacon at this server
          missed,    \* history: camera -> beacons since then that did not arrive
          fetched,   \* the overview being made, after its first request
          shown      \* the last overview

cameraVars == <<sender, timer, post, entry>>
vars == <<cameraVars, late, beacons, heard, missed, fetched, shown>>

Ages == 0..(Ttl + 1)
TooOld == Ttl + 1
Older(a) == IF a = TooOld THEN a ELSE a + 1

\* `missed` counts to two; a camera or a server that starts has missed all.
Many == 2

None == [state |-> "none"]
Unavailable(ids) == [status |-> "offline", healthy |-> FALSE, tracked |-> ids, alive |-> {}]

TypeOK ==
  /\ sender \in [Cameras -> {"down", "sending", "stopping", "waiting"}]
  /\ timer \in [Cameras -> 0..(Interval + Timeout)]
  /\ post \in [Cameras -> {"none", "travels", "saved"}]
  /\ late \subseteq Cameras
  /\ entry \in [Cameras -> {"idle", "sending", "ok", "error", "stopped"}]
  /\ beacons \in Seq([camera : Cameras, age : Ages]) /\ Len(beacons) <= Limit
  /\ heard \in [Cameras -> Ages] /\ missed \in [Cameras -> 0..Many]
  /\ fetched # None =>
       /\ DOMAIN fetched.latest \subseteq Cameras /\ Range(fetched.latest) \subseteq Ages
       /\ fetched.ids \subseteq Registered /\ fetched.steady \subseteq Cameras
       /\ fetched.elapsed \in 0..(2 * Timeout)
  /\ shown.status \in {"unknown", "alive", "degraded", "offline"}
  /\ shown.alive \subseteq shown.tracked

Init ==
  /\ sender = [c \in Cameras |-> "down"] /\ timer = [c \in Cameras |-> 0]
  /\ post = [c \in Cameras |-> "none"] /\ late = {}
  /\ entry = [c \in Cameras |-> "idle"]
  /\ beacons = <<>>
  /\ heard = [c \in Cameras |-> TooOld] /\ missed = [c \in Cameras |-> Many]
  /\ fetched = None /\ shown = Unavailable({})

-----------------------------------------------------------------------------
(* The beacon thread.                                                      *)

Sending(c) == sender[c] \in {"sending", "stopping"}

\* _send_once up to the request.
Send(c) ==
  /\ sender' = [sender EXCEPT ![c] = "sending"]
  /\ timer' = [timer EXCEPT ![c] = Timeout]
  /\ post' = [post EXCEPT ![c] = "travels"]
  /\ entry' = [entry EXCEPT ![c] = "sending"]

\* main.py's start; a process that ended needs a tick to come back.
Start(c) ==
  /\ sender[c] = "down" /\ timer[c] = 0
  /\ Send(c)
  /\ missed' = [missed EXCEPT ![c] = Many]
  /\ UNCHANGED <<late, beacons, heard, fetched, shown>>

WakeUp(c) ==
  /\ sender[c] = "waiting" /\ timer[c] = 0
  /\ Send(c)
  /\ UNCHANGED <<late, beacons, heard, missed, fetched, shown>>

\* The request is over: the thread waits, or ends and stop() marks its end.
\* The five seconds stop() joins for are longer than a request takes.
Finish(c, status, wait) ==
  /\ post' = [post EXCEPT ![c] = "none"]
  /\ IF sender[c] = "stopping"
     THEN /\ sender' = [sender EXCEPT ![c] = "down"]
          /\ entry' = [entry EXCEPT ![c] = "stopped"]
          /\ timer' = [timer EXCEPT ![c] = 1]
     ELSE /\ sender' = [sender EXCEPT ![c] = "waiting"]
          /\ entry' = [entry EXCEPT ![c] = status]
          /\ timer' = [timer EXCEPT ![c] = wait]

Answered(c) ==
  /\ Sending(c) /\ post[c] = "saved"
  /\ Finish(c, "ok", Interval)
  /\ UNCHANGED <<late, beacons, heard, missed, fetched, shown>>

\* Mutant: the thread backs off.
FailBackingOff(c) ==
  /\ Sending(c)
  /\ Finish(c, "error", Interval + Timeout)
  /\ late' \in {late} \cup IF post[c] = "travels" THEN {late \cup {c}} ELSE {}
  /\ missed' = IF post[c] = "travels" /\ missed[c] < Many
               THEN [missed EXCEPT ![c] = @ + 1] ELSE missed
  /\ UNCHANGED <<beacons, heard, fetched, shown>>

\* No answer: the request may not have arrived, arrive later, or have arrived.
Fail(c) ==
  /\ Sending(c)
  /\ Finish(c, "error", Interval)
  /\ late' \in {late} \cup IF post[c] = "travels" THEN {late \cup {c}} ELSE {}
  /\ missed' = IF post[c] = "travels" /\ missed[c] < Many
               THEN [missed EXCEPT ![c] = @ + 1] ELSE missed
  /\ UNCHANGED <<beacons, heard, fetched, shown>>

\* stop(): a wait ends at once, a request is waited for.
Stop(c) ==
  /\ \/ /\ sender[c] = "waiting"
        /\ sender' = [sender EXCEPT ![c] = "down"]
        /\ entry' = [entry EXCEPT ![c] = "stopped"]
        /\ timer' = [timer EXCEPT ![c] = 1]
     \/ /\ sender[c] = "sending"
        /\ sender' = [sender EXCEPT ![c] = "stopping"]
        /\ UNCHANGED <<entry, timer>>
  /\ UNCHANGED <<post, late, beacons, heard, missed, fetched, shown>>

\* The camera's process is killed; a request under way may still arrive.
Crash(c) ==
  /\ sender[c] # "down"
  /\ sender' = [sender EXCEPT ![c] = "down"] /\ entry' = [entry EXCEPT ![c] = "idle"]
  /\ timer' = [timer EXCEPT ![c] = 1] /\ post' = [post EXCEPT ![c] = "none"]
  /\ late' \in {late} \cup IF post[c] = "travels" THEN {late \cup {c}} ELSE {}
  /\ UNCHANGED <<beacons, heard, missed, fetched, shown>>

-----------------------------------------------------------------------------
(* The control server.                                                     *)

\* A deque with maxlen drops its oldest.
Appended(list, c) ==
  LET longer == Append(list, [camera |-> c, age |-> 0])
  IN IF Len(longer) > Limit THEN Tail(longer) ELSE longer

\* save_beacon, for a request the camera waits for or an abandoned one.
Save(c) ==
  /\ \/ /\ post[c] = "travels"
        /\ post' = [post EXCEPT ![c] = "saved"]
        /\ missed' = [missed EXCEPT ![c] = 0]
        /\ late' = late
     \/ /\ c \in late
        /\ late' = late \ {c}
        /\ UNCHANGED <<post, missed>>
  /\ beacons' = Appended(beacons, c)
  /\ heard' = [heard EXCEPT ![c] = 0]
  /\ UNCHANGED <<sender, timer, entry, fetched, shown>>

\* Abandoned requests need not arrive.
Lose(c) ==
  /\ c \in late /\ late' = late \ {c}
  /\ UNCHANGED <<cameraVars, beacons, heard, missed, fetched, shown>>

\* The list is in memory.  Requests of an overview under way are cut.
Restart ==
  /\ beacons # <<>>
  /\ beacons' = <<>>
  /\ heard' = [c \in Cameras |-> TooOld] /\ missed' = [c \in Cameras |-> Many]
  /\ fetched' = None
  /\ shown' = IF fetched = None THEN shown ELSE Unavailable(fetched.ids)
  /\ UNCHANGED <<cameraVars, late>>

-----------------------------------------------------------------------------
(* The console's overview: GET /beacons, two more requests, the summary.   *)

\* Mutant: the oldest beacon counts.
EarliestByCamera ==
  [c \in {beacons[i].camera : i \in DOMAIN beacons} |->
     Max({beacons[i].age : i \in {j \in DOMAIN beacons : beacons[j].camera = c}})]

LatestByCamera ==
  [c \in {beacons[i].camera : i \in DOMAIN beacons} |->
     Min({beacons[i].age : i \in {j \in DOMAIN beacons : beacons[j].camera = c}})]

\* Pages ask for the registered cameras, /health for none.
Fetch ==
  /\ fetched = None
  /\ \E ids \in {Registered, {}} :
       fetched' = [latest |-> LatestByCamera, ids |-> ids, elapsed |-> 0,
                   steady |-> {c \in Cameras : sender[c] # "down" /\ missed[c] = 0}]
  /\ UNCHANGED <<cameraVars, late, beacons, heard, missed, shown>>

Alive(latest, tracked) == {c \in tracked \cap DOMAIN latest : latest[c] <= Ttl}

\* summarize_camera_health; without ids, all cameras with beacons are judged.
Summarize ==
  /\ fetched # None
  /\ LET tracked == IF fetched.ids = {} THEN DOMAIN fetched.latest ELSE fetched.ids
         alive   == Alive(fetched.latest, tracked)
     IN shown' = [healthy |-> TRUE, tracked |-> tracked, alive |-> alive,
                  status  |-> CASE tracked = {} -> "unknown"
                                [] tracked # {} /\ alive = tracked -> "alive"
                                [] alive # {} /\ alive # tracked -> "degraded"
                                [] OTHER -> "offline"]
  /\ fetched' = None
  /\ UNCHANGED <<cameraVars, late, beacons, heard, missed>>

\* safe_control_overview: any of the requests fails.
Unreachable ==
  /\ \E ids \in IF fetched = None THEN {Registered, {}} ELSE {fetched.ids} :
       shown' = Unavailable(ids)
  /\ fetched' = None
  /\ UNCHANGED <<cameraVars, late, beacons, heard, missed>>

-----------------------------------------------------------------------------
\* A thread whose time is up acts before time passes, and so does an overview
\* whose requests have taken as long as they may.
Tick ==
  /\ \A c \in Cameras : sender[c] # "down" => timer[c] > 0
  /\ fetched # None => fetched.elapsed < 2 * Timeout
  /\ timer' = [c \in Cameras |-> IF timer[c] = 0 THEN 0 ELSE timer[c] - 1]
  /\ beacons' = [i \in DOMAIN beacons |-> [beacons[i] EXCEPT !.age = Older(@)]]
  /\ heard' = [c \in Cameras |-> Older(heard[c])]
  /\ fetched' = IF fetched = None THEN None
                ELSE [fetched EXCEPT !.elapsed = @ + 1,
                        !.latest = [c \in DOMAIN @ |-> Older(@[c])]]
  /\ UNCHANGED <<sender, post, late, entry, missed, shown>>

Next ==
  \/ \E c \in Cameras :
       \/ Start(c) \/ WakeUp(c) \/ Answered(c) \/ Fail(c) \/ Stop(c) \/ Crash(c)
       \/ Save(c) \/ Lose(c)
  \/ Restart \/ Tick
  \/ Fetch \/ Summarize \/ Unreachable

Spec == Init /\ [][Next]_vars

-----------------------------------------------------------------------------
\* Interval, timeout and TTL fit: a camera that misses at most one beacon in a
\* row is heard again within the TTL.
SteadyIsHeard ==
  \A c \in Cameras : sender[c] # "down" /\ missed[c] < Many => heard[c] <= Ttl

\* A camera that had missed no beacon when the list was fetched is shown alive,
\* although the list is some seconds old when it is judged.
SteadyIsShown ==
  [][Summarize => fetched.steady \cap shown'.tracked \subseteq shown'.alive]_vars

\* Nobody is shown alive whose beacon did not arrive within the TTL.
AliveIsRecent == [][Summarize => \A c \in shown'.alive : heard[c] <= Ttl]_vars

\* The overview is right about cameras that beacon and about those that do not.
OverviewIsRight == SteadyIsShown /\ AliveIsRecent

\* A camera whose own status says "ok" has been heard by the server, in the
\* request it has just ended or, if the server restarted since, never again.
OkMeansHeard ==
  \A c \in Cameras :
    sender[c] = "waiting" /\ entry[c] = "ok" /\ missed[c] < Many =>
      missed[c] = 0 /\ heard[c] <= (Interval - timer[c]) + Timeout

\* The configured times fit: the state has its type, a camera with one miss is
\* still heard in time, and what it says of its last beacon is true.
TimesFit == TypeOK /\ SteadyIsHeard /\ OkMeansHeard
=============================================================================
