--------------------------- MODULE Streamer_proofs ---------------------------
(***************************************************************************)
(* Proofs about the stream supervisor, for any commands and any number of  *)
(* changes and failures: what the status page shows is what runs, and      *)
(* nothing runs that the supervisor does not watch.                        *)
(***************************************************************************)
EXTENDS Streamer, SequenceTheorems, TLAPS

-----------------------------------------------------------------------------
(* What is inductive.                                                      *)

Publisher == [alive : BOOLEAN, quality : QualityLevels, overlay : BOOLEAN]

\* The supervisor holds a process from Popen to process.wait().
Holds == {"starting", "probe", "probing", "probed", "watch", "watching", "decide",
          "restart", "terminate", "wait"}

\* While it does, the handle is that process, which was started with the local
\* copy of the settings.  Nothing else is alive.
ProcessInv ==
  /\ pc \in Holds => handle = process
  /\ pc \in Holds \cup {"register"} =>
       /\ process \in Pids
       /\ ffmpeg[process].quality = settings.quality
       /\ ffmpeg[process].overlay = settings.overlay
  /\ \A p \in Pids : ffmpeg[p].alive => p = process /\ pc \in Holds \cup {"register"}

\* The copy is no newer than the controls, and a newer revision is the only
\* thing by which they can differ.
CopyInv ==
  /\ settings.revision <= controls.revision
  /\ RevisionTellsAll

StreamerInv == TypeOK /\ ProcessInv /\ AppliedIsStarted /\ CopyInv

-----------------------------------------------------------------------------
(* Lemmas about the operations the steps are built from.                   *)

\* Ending a process changes only whether it is alive.
LEMMA KilledIs ==
  ASSUME ffmpeg \in Seq(Publisher), NEW p \in Nat
  PROVE  /\ Killed(p) \in Seq(Publisher) /\ Len(Killed(p)) = Len(ffmpeg)
         /\ \A q \in Pids : /\ Killed(p)[q].quality = ffmpeg[q].quality
                            /\ Killed(p)[q].overlay = ffmpeg[q].overlay
                            /\ Killed(p)[q].alive => ffmpeg[q].alive /\ q # p
  <1>1. \A q \in Pids : ffmpeg[q] \in Publisher
    BY DEF Pids
  <1>2. CASE Alive(p)
    <2>1. Killed(p) = [ffmpeg EXCEPT ![p].alive = FALSE] /\ p \in Pids
      BY <1>2 DEF Killed, Alive
    <2>2. [ffmpeg[p] EXCEPT !.alive = FALSE] \in Publisher
      BY <1>1, <2>1 DEF Publisher
    <2>3. Killed(p) = [ffmpeg EXCEPT ![p] = [ffmpeg[p] EXCEPT !.alive = FALSE]]
      BY <2>1
    <2>4. Killed(p) \in Seq(Publisher) /\ Len(Killed(p)) = Len(ffmpeg)
      BY <2>1, <2>2, <2>3, ExceptSeq DEF Pids
    <2>5. ASSUME NEW q \in Pids
          PROVE  /\ Killed(p)[q].quality = ffmpeg[q].quality
                 /\ Killed(p)[q].overlay = ffmpeg[q].overlay
                 /\ Killed(p)[q].alive => ffmpeg[q].alive /\ q # p
      <3>1. CASE q = p
        BY <1>1, <2>1, <2>3, <3>1 DEF Publisher, Pids
      <3>2. CASE q # p
        BY <1>1, <2>3, <3>2 DEF Pids
      <3> QED
        BY <3>1, <3>2
    <2> QED
      BY <2>4, <2>5
  <1>3. CASE ~Alive(p)
    BY <1>3 DEF Killed, Alive
  <1> QED
    BY <1>2, <1>3

\* A command leaves the controls as they are or begins a new revision.
LEMMA ChangeIsNewRevision ==
  ASSUME NEW k \in Controls, NEW cmd \in Command
  PROVE  /\ ApplySafeCommand(k, cmd) \in Controls
         /\ \/ ApplySafeCommand(k, cmd) = k
            \/ ApplySafeCommand(k, cmd).revision = k.revision + 1
  <1>1. ApplySafeCommand(k, cmd) \in Controls
    <2>1. k.revision + 1 \in Nat
      BY DEF Controls
    <2>2. ASSUME NEW q \in QualityLevels PROVE WithQuality(k, q) \in Controls
      <3>1. [k EXCEPT !.quality = q, !.revision = @ + 1, !.reason = "quality"] \in Controls
        BY <2>1, Zenon DEF Controls, Reason
      <3> QED
        BY <3>1 DEF WithQuality
    <2>3. ASSUME NEW on \in BOOLEAN PROVE WithOverlay(k, on) \in Controls
      <3>1. [k EXCEPT !.overlay = on, !.revision = @ + 1, !.reason = "overlay"] \in Controls
        BY <2>1, Zenon DEF Controls, Reason
      <3> QED
        BY <3>1 DEF WithOverlay
    <2>4. CASE Accepts(cmd) /\ cmd.name = "set_quality"
      BY <2>2, <2>4 DEF ApplySafeCommand, Command, Accepts
    <2>5. CASE Accepts(cmd) /\ cmd.name = "toggle_overlay"
      BY <2>3, <2>5 DEF ApplySafeCommand, Controls
    <2> QED
      BY <2>4, <2>5 DEF ApplySafeCommand
  <1>2. \A q : WithQuality(k, q) = k \/ WithQuality(k, q).revision = k.revision + 1
    BY DEF WithQuality, Controls
  <1>3. \A on : WithOverlay(k, on) = k \/ WithOverlay(k, on).revision = k.revision + 1
    BY DEF WithOverlay, Controls
  <1> QED
    BY <1>1, <1>2, <1>3 DEF ApplySafeCommand

-----------------------------------------------------------------------------
(* The initial states, and the steps.                                      *)

\* At first nothing runs.
LEMMA StreamerInvInit ==
  ASSUME Init PROVE StreamerInv
  <1>1. InitControls \in Controls
    BY DEF InitControls, Controls, QualityLevels, Reason
  <1>2. [status |-> "idle", pid |-> 0, quality |-> "none", overlay |-> FALSE]
          \in [status  : {"idle", "starting", "publishing", "restarting", "retrying", "stopped"},
               pid     : Nat,
               quality : QualityLevels \cup {"none"},
               overlay : BOOLEAN]
    OBVIOUS
  <1>3. NoRestart \in [requested : BOOLEAN, reason : Reason]
    BY DEF NoRestart, Reason
  <1>4. stopping \in BOOLEAN
    BY DEF Init
  <1>5. Pids = {}
    BY DEF Init, Pids
  <1>6. TypeOK
    BY <1>1, <1>2, <1>3, <1>4 DEF Init, TypeOK
  <1> QED
    BY <1>1, <1>5, <1>6
    DEF Init, StreamerInv, ProcessInv, AppliedIsStarted, CopyInv, RevisionTellsAll, Holds, Controls

\* A process that ends disturbs nothing, wherever the supervisor is.
LEMMA KillKeepsInv ==
  ASSUME StreamerInv, NEW p \in Nat, ffmpeg' = Killed(p),
         UNCHANGED <<controls, stream, settings, process>>
  PROVE  /\ ffmpeg' \in Seq(Publisher) /\ Pids' = Pids
         /\ AppliedIsStarted' /\ CopyInv'
         /\ \A q \in Pids : /\ ffmpeg'[q].quality = ffmpeg[q].quality
                            /\ ffmpeg'[q].overlay = ffmpeg[q].overlay
                            /\ ffmpeg'[q].alive => ffmpeg[q].alive /\ q # p
  <1>1. ffmpeg \in Seq(Publisher)
    BY DEF StreamerInv, TypeOK, Publisher
  <1>2. /\ ffmpeg' \in Seq(Publisher) /\ Len(ffmpeg') = Len(ffmpeg)
        /\ \A q \in Pids : /\ ffmpeg'[q].quality = ffmpeg[q].quality
                           /\ ffmpeg'[q].overlay = ffmpeg[q].overlay
                           /\ ffmpeg'[q].alive => ffmpeg[q].alive /\ q # p
    BY <1>1, KilledIs
  <1>3. Pids' = Pids
    BY <1>2 DEF Pids
  <1>4. AppliedIsStarted'
    BY <1>2, <1>3 DEF StreamerInv, AppliedIsStarted
  <1>5. CopyInv'
    BY DEF StreamerInv, CopyInv, RevisionTellsAll
  <1> QED
    BY <1>2, <1>3, <1>4, <1>5

\* The steps of the supervisor that kill nothing and start nothing.
LEMMA SupervisorKeepsInv ==
  ASSUME StreamerInv,
         \/ LoopEnds \/ ReadSettings \/ StartFails \/ Register \/ Starting \/ Look
         \/ ReadRevision \/ Publish \/ ProbeFailed \/ Decide \/ Restarting \/ Wait
         \/ Ended \/ Retry
  PROVE  StreamerInv'
  <1> USE DEF StreamerInv, Holds
  <1>0. ffmpeg' = ffmpeg /\ Pids' = Pids
    BY DEF LoopEnds, ReadSettings, StartFails, Register, Starting, Look, ReadRevision, Publish,
       ProbeFailed, Decide, Restarting, Wait, Ended, Retry, Pids
  <1>1. CASE LoopEnds
    BY <1>0, <1>1 DEF LoopEnds, mainVars, TypeOK, ProcessInv, AppliedIsStarted, CopyInv, RevisionTellsAll
  <1>2. CASE ReadSettings
    BY <1>0, <1>2 DEF ReadSettings, mainVars, TypeOK, ProcessInv, AppliedIsStarted, CopyInv,
       RevisionTellsAll, Controls
  <1>3. ASSUME NEW status \in {"retrying", "stopped"}, MarkIdle(status),
               pc \in {"top", "spawn", "ended"}, pc' \in {"retry", "exited"}, failures' \in Nat,
               UNCHANGED <<settings, process, restart, handle, ffmpeg, mainVars>>
        PROVE  StreamerInv'
    <2>1. stream' = [stream EXCEPT !.status = status, !.pid = 0] /\ controls' = controls
      BY <1>3 DEF MarkIdle
    <2>2. /\ stream' \in [status  : {"idle", "starting", "publishing", "restarting", "retrying", "stopped"},
                          pid     : Nat,
                          quality : QualityLevels \cup {"none"},
                          overlay : BOOLEAN]
          /\ stream'.status = status
      BY <2>1 DEF TypeOK
    <2>3. TypeOK'
      BY <1>3, <2>1, <2>2 DEF TypeOK, mainVars
    <2>4. ProcessInv'
      BY <1>0, <1>3 DEF ProcessInv
    <2> QED
      BY <1>3, <2>1, <2>2, <2>3, <2>4 DEF AppliedIsStarted, CopyInv, RevisionTellsAll
  <1>4. CASE StartFails
    BY <1>3, <1>4 DEF StartFails, Fails, TypeOK
  <1>5. CASE Register
    BY <1>0, <1>5 DEF Register, mainVars, TypeOK, ProcessInv, AppliedIsStarted, CopyInv, RevisionTellsAll
  <1>6. ASSUME NEW status \in {"starting", "publishing"}, MarkRunning(status),
               pc \in Holds, pc' \in Holds,
               UNCHANGED <<settings, process, restart, handle, ffmpeg, mainVars, failures>>
        PROVE  StreamerInv'
    <2>1. /\ stream' = [status |-> status, pid |-> process,
                        quality |-> settings.quality, overlay |-> settings.overlay]
          /\ controls' = [controls EXCEPT !.reason = "none"]
      BY <1>6 DEF MarkRunning
    <2>2. /\ controls' \in Controls /\ controls'.revision = controls.revision
          /\ controls'.quality = controls.quality /\ controls'.overlay = controls.overlay
      BY <2>1 DEF TypeOK, Controls, Reason
    <2>3. TypeOK'
      BY <1>6, <2>1, <2>2 DEF TypeOK, mainVars, Controls
    <2>4. ProcessInv'
      BY <1>0, <1>6 DEF ProcessInv
    <2>5. AppliedIsStarted'
      BY <1>0, <1>6, <2>1 DEF AppliedIsStarted, ProcessInv
    <2>6. CopyInv'
      BY <1>6, <2>2 DEF CopyInv, RevisionTellsAll
    <2> QED
      BY <2>3, <2>4, <2>5, <2>6
  <1>7. CASE Starting
    BY <1>6, <1>7 DEF Starting
  <1>8. CASE Publish
    BY <1>6, <1>8 DEF Publish
  <1>9. ASSUME pc \in Holds, pc' \in Holds, restart' \in [requested : BOOLEAN, reason : Reason],
               UNCHANGED <<controls, stream, settings, process, handle, ffmpeg, mainVars, failures>>
        PROVE  StreamerInv'
    <2>1. TypeOK'
      BY <1>9 DEF TypeOK, mainVars
    <2> QED
      BY <1>0, <1>9, <2>1 DEF ProcessInv, AppliedIsStarted, CopyInv, RevisionTellsAll
  <1>10. ASSUME NEW changed \in BOOLEAN, WaitReturns(changed)
        PROVE  pc' \in Holds /\ restart' \in [requested : BOOLEAN, reason : Reason]
    BY <1>10 DEF WaitReturns, NoRestart, Reason
  <1>11. restart \in [requested : BOOLEAN, reason : Reason]
    BY DEF TypeOK
  <1>12. CASE Look
    <2>1. pc' \in Holds /\ restart' \in [requested : BOOLEAN, reason : Reason]
      BY <1>10, <1>11, <1>12 DEF Look
    <2> QED
      BY <1>9, <1>12, <2>1 DEF Look
  <1>13. CASE ReadRevision
    <2>1. pc' \in Holds /\ restart' \in [requested : BOOLEAN, reason : Reason]
      BY <1>10, <1>11, <1>13 DEF ReadRevision
    <2> QED
      BY <1>9, <1>13, <2>1 DEF ReadRevision
  <1>14. CASE ProbeFailed
    BY <1>9, <1>11, <1>14 DEF ProbeFailed
  <1>15. CASE Decide
    <2>1. controls.reason \in Reason /\ "changes" \in Reason
      BY DEF TypeOK, Controls, Reason
    <2>2. pc' \in Holds /\ restart' \in [requested : BOOLEAN, reason : Reason]
      BY <1>11, <1>15, <2>1 DEF Decide
    <2> QED
      BY <1>9, <1>15, <2>2 DEF Decide
  <1>16. CASE Restarting
    <2>1. /\ stream' = [stream EXCEPT !.status = "restarting", !.pid = 0]
          /\ controls' = [controls EXCEPT !.reason = restart.reason]
      BY <1>16 DEF Restarting, MarkRestarting
    <2>2. /\ controls' \in Controls /\ controls'.revision = controls.revision
          /\ controls'.quality = controls.quality /\ controls'.overlay = controls.overlay
      BY <2>1 DEF TypeOK, Controls
    <2>3. TypeOK'
      BY <1>16, <2>1, <2>2 DEF Restarting, TypeOK, mainVars
    <2> QED
      BY <1>0, <1>16, <2>1, <2>2, <2>3
      DEF Restarting, TypeOK, ProcessInv, AppliedIsStarted, CopyInv, RevisionTellsAll
  <1>17. CASE Wait
    BY <1>0, <1>17 DEF Wait, Alive, mainVars, TypeOK, ProcessInv, AppliedIsStarted, CopyInv, RevisionTellsAll
  <1>18. CASE Ended
    <2>1. CASE pc' = "top"
      BY <1>0, <1>18, <2>1 DEF Ended, MarkIdle, mainVars, TypeOK, ProcessInv, AppliedIsStarted,
         CopyInv, RevisionTellsAll
    <2>2. CASE pc' # "top"
      BY <1>3, <1>18, <2>2 DEF Ended, TypeOK
    <2> QED
      BY <2>1, <2>2
  <1>19. CASE Retry
    BY <1>0, <1>19 DEF Retry, mainVars, TypeOK, ProcessInv, AppliedIsStarted, CopyInv, RevisionTellsAll
  <1> QED
    BY <1>1, <1>2, <1>4, <1>5, <1>7, <1>8, <1>12, <1>13, <1>14, <1>15, <1>16, <1>17, <1>18, <1>19

\* Popen, while nothing is alive.
LEMMA SpawnKeepsInv ==
  ASSUME StreamerInv, Spawn PROVE StreamerInv'
  <1> DEFINE new == [alive |-> TRUE, quality |-> settings.quality, overlay |-> settings.overlay]
  <1>1. ffmpeg \in Seq(Publisher) /\ new \in Publisher
    BY DEF StreamerInv, TypeOK, Publisher, Controls
  <1>2. ffmpeg' = Append(ffmpeg, new) /\ process' = Len(ffmpeg) + 1 /\ pc' = "register"
    BY DEF Spawn
  <1>3. /\ ffmpeg' \in Seq(Publisher) /\ Len(ffmpeg') = Len(ffmpeg) + 1 /\ Len(ffmpeg) \in Nat
        /\ \A q \in 1..Len(ffmpeg) : ffmpeg'[q] = ffmpeg[q]
        /\ ffmpeg'[Len(ffmpeg) + 1] = new
    BY <1>1, <1>2, AppendProperties
  <1>4. /\ new.alive /\ new.quality = settings.quality /\ new.overlay = settings.overlay
    OBVIOUS
  <1> HIDE DEF new
  <1>5. TypeOK'
    BY <1>2, <1>3 DEF Spawn, StreamerInv, TypeOK, mainVars, Publisher
  <1>6. \A q \in Pids : ~ffmpeg[q].alive
    BY DEF Spawn, StreamerInv, ProcessInv, Holds
  <1>7. Pids' = Pids \cup {Len(ffmpeg) + 1}
    BY <1>3 DEF Pids
  <1>8. ProcessInv'
    BY <1>2, <1>3, <1>4, <1>6, <1>7 DEF Spawn, ProcessInv, Holds, Pids
  <1>9. AppliedIsStarted'
    BY <1>3, <1>7 DEF Spawn, StreamerInv, AppliedIsStarted, Pids
  <1>10. CopyInv'
    BY DEF Spawn, StreamerInv, CopyInv, RevisionTellsAll
  <1> QED
    BY <1>5, <1>8, <1>9, <1>10 DEF StreamerInv

\* Every step keeps the invariant.
LEMMA StreamerInvNext ==
  ASSUME StreamerInv, [Next]_vars PROVE StreamerInv'
  <1>1. CASE \/ LoopEnds \/ ReadSettings \/ StartFails \/ Register \/ Starting \/ Look
             \/ ReadRevision \/ Publish \/ ProbeFailed \/ Decide \/ Restarting \/ Wait
             \/ Ended \/ Retry
    BY <1>1, SupervisorKeepsInv
  <1>2. CASE Spawn
    BY <1>2, SpawnKeepsInv
  <1>3. CASE ProbeStopped \/ Terminate
    <2>1. /\ pc \in {"probed", "terminate"} /\ pc' \in {"exited", "wait"}
          /\ pc = "terminate" <=> pc' = "wait"
          /\ ffmpeg' = Killed(handle)
          /\ UNCHANGED <<controls, stream, settings, process, restart, handle, mainVars, failures>>
      BY <1>3 DEF ProbeStopped, Terminate
    <2>2. handle = process /\ handle \in Nat
      BY <2>1 DEF StreamerInv, TypeOK, ProcessInv, Holds
    <2>3. /\ ffmpeg' \in Seq(Publisher) /\ Pids' = Pids /\ AppliedIsStarted' /\ CopyInv'
          /\ \A q \in Pids : /\ ffmpeg'[q].quality = ffmpeg[q].quality
                             /\ ffmpeg'[q].overlay = ffmpeg[q].overlay
                             /\ ffmpeg'[q].alive => ffmpeg[q].alive /\ q # handle
      BY <2>1, <2>2, KillKeepsInv
    <2>4. TypeOK'
      BY <2>1, <2>3 DEF StreamerInv, TypeOK, Publisher, mainVars
    <2>5. ProcessInv'
      BY <2>1, <2>2, <2>3 DEF StreamerInv, ProcessInv, Holds
    <2> QED
      BY <2>3, <2>4, <2>5 DEF StreamerInv
  <1>4. ASSUME NEW p \in Nat, ffmpeg' = Killed(p), UNCHANGED <<controls, stream, supervisorVars>>,
               mainpc' \in {"running", "read", "terminate", "join", "returned"},
               UNCHANGED <<stopping, target>>, failures' \in Nat
        PROVE  StreamerInv'
    <2>1. /\ ffmpeg' \in Seq(Publisher) /\ Pids' = Pids /\ AppliedIsStarted' /\ CopyInv'
          /\ \A q \in Pids : /\ ffmpeg'[q].quality = ffmpeg[q].quality
                             /\ ffmpeg'[q].overlay = ffmpeg[q].overlay
                             /\ ffmpeg'[q].alive => ffmpeg[q].alive /\ q # p
      BY <1>4, KillKeepsInv DEF supervisorVars
    <2>2. TypeOK'
      BY <1>4, <2>1 DEF StreamerInv, TypeOK, Publisher, supervisorVars
    <2>3. ProcessInv'
      BY <1>4, <2>1 DEF StreamerInv, ProcessInv, supervisorVars
    <2> QED
      BY <2>1, <2>2, <2>3 DEF StreamerInv
  <1>5. CASE StopTerminates
    BY <1>4, <1>5 DEF StopTerminates, StreamerInv, TypeOK
  <1>6. ASSUME NEW p \in Pids, FfmpegExits(p) PROVE StreamerInv'
    <2>1. p \in Nat /\ failures' \in Nat
      BY <1>6 DEF Pids, FfmpegExits, Fails, StreamerInv, TypeOK
    <2> QED
      BY <1>4, <1>6, <2>1 DEF FfmpegExits, mainVars, StreamerInv, TypeOK
  <1>7. CASE StopBegins \/ StopReadsHandle \/ StopReturns \/ UNCHANGED vars
    <2>1. UNCHANGED <<controls, stream, supervisorVars, ffmpeg>>
      BY <1>7 DEF StopBegins, StopReadsHandle, StopReturns, vars
    <2>2. /\ stopping' \in BOOLEAN /\ target' \in Nat /\ failures' = failures
          /\ mainpc' \in {"running", "read", "terminate", "join", "returned"}
      <3>1. CASE StopBegins
        BY <3>1 DEF StopBegins, StreamerInv, TypeOK
      <3>2. CASE StopReadsHandle \/ StopReturns
        BY <3>2 DEF StopReadsHandle, StopReturns, StreamerInv, TypeOK
      <3>3. CASE UNCHANGED vars
        BY <3>3 DEF vars, mainVars, StreamerInv, TypeOK
      <3> QED
        BY <1>7, <3>1, <3>2, <3>3
    <2>3. TypeOK'
      BY <2>1, <2>2 DEF supervisorVars, StreamerInv, TypeOK
    <2> QED
      BY <2>1, <2>3
      DEF supervisorVars, StreamerInv, ProcessInv, AppliedIsStarted, CopyInv, RevisionTellsAll, Pids
  <1>8. ASSUME NEW cmd \in Commands, Apply(cmd) PROVE StreamerInv'
    <2>1. controls' = ApplySafeCommand(controls, cmd) /\ controls \in Controls /\ settings \in Controls
      BY <1>8 DEF Apply, StreamerInv, TypeOK
    <2>2. /\ controls' \in Controls
          /\ controls' = controls \/ controls'.revision = controls.revision + 1
      BY <2>1, StreamerAssumption, ChangeIsNewRevision
    <2>3. UNCHANGED <<stream, supervisorVars, ffmpeg, mainVars, failures>>
      BY <1>8 DEF Apply
    <2>4. CopyInv'
      <3>1. settings' = settings
        BY <2>3 DEF supervisorVars
      <3>2. settings.revision \in Nat /\ controls.revision \in Nat
        BY <2>1 DEF Controls
      <3> QED
        BY <2>2, <3>1, <3>2 DEF StreamerInv, CopyInv, RevisionTellsAll
    <2>5. TypeOK'
      BY <2>2, <2>3 DEF StreamerInv, TypeOK, supervisorVars, mainVars
    <2> QED
      BY <2>3, <2>4, <2>5 DEF supervisorVars, StreamerInv, ProcessInv, AppliedIsStarted, Pids
  <1> QED
    BY <1>1, <1>2, <1>3, <1>5, <1>6, <1>7, <1>8 DEF Next, Supervise, StopGoesOn

-----------------------------------------------------------------------------
\* The status page, the thread's copy of the settings and the ffmpeg that runs
\* agree (streamer.py, state.py), for any sequence of commands.
THEOREM StatusIsTrue == Spec => []StatusTellsTruth
  <1>1. StreamerInv => StatusTellsTruth
    BY DEF StreamerInv, CopyInv, StatusTellsTruth
  <1> QED
    BY <1>1, StreamerInvInit, StreamerInvNext, PTL DEF Spec

\* Two publishers never run at once, and none outlives the supervisor's thread,
\* however often ffmpeg fails and whenever stop() comes.
THEOREM NothingIsLeft == Spec => []NothingLeftRunning
  <1>1. StreamerInv => NothingLeftRunning
    BY DEF StreamerInv, ProcessInv, NothingLeftRunning, Alive, Holds
  <1> QED
    BY <1>1, StreamerInvInit, StreamerInvNext, PTL DEF Spec
=============================================================================
