------------------------------ MODULE Streamer ------------------------------
(***************************************************************************)
(* services/camera-app/streamer.py: the thread of StreamerSupervisor that  *)
(* keeps one ffmpeg publisher running with the settings CameraState holds, *)
(* against commands that change them at any moment, an ffmpeg that may end *)
(* by itself, and the main thread's stop().                                *)
(***************************************************************************)
EXTENDS CameraState, Sequences, FiniteSets

CONSTANTS Commands,     \* the commands the poller's thread may apply
          MaxChanges,   \* bound: changes of the controls
          MaxFailures   \* bound: sources or ffmpegs that fail, ffmpegs that exit

ASSUME StreamerAssumption ==
  Commands \subseteq Command /\ MaxChanges \in Nat /\ MaxFailures \in Nat

VARIABLES controls,   \* state.py's controls and config revision
          stream,     \* state.py's stream entry
          pc,         \* where _run_loop is
          settings,   \* its local copy of the controls
          process,    \* its local Popen object, 0 before the first
          restart,    \* its local restart_requested, with the reason to publish
          handle,     \* self._process, 0 for None
          ffmpeg,     \* every ffmpeg ever started: is it alive, with what settings
          stopping,   \* _stop_event
          mainpc,     \* where stop() is
          target,     \* the process stop() is to terminate
          failures    \* how much of MaxFailures is used

supervisorVars == <<pc, settings, process, restart, handle>>
mainVars       == <<stopping, mainpc, target>>
vars == <<controls, stream, supervisorVars, ffmpeg, mainVars, failures>>

Pids == 1..Len(ffmpeg)
Alive(p) == p \in Pids /\ ffmpeg[p].alive
Killed(p) == IF Alive(p) THEN [ffmpeg EXCEPT ![p].alive = FALSE] ELSE ffmpeg
NoRestart == [requested |-> FALSE, reason |-> "none"]

TypeOK ==
  /\ controls \in Controls
  /\ stream \in [status  : {"idle", "starting", "publishing", "restarting", "retrying", "stopped"},
                 pid     : Nat,
                 quality : QualityLevels \cup {"none"},
                 overlay : BOOLEAN]
  /\ pc \in {"top", "spawn", "register", "starting", "probe", "probing", "probed",
             "watch", "watching", "decide", "restart", "terminate", "wait", "ended", "retry", "exited"}
  /\ settings \in Controls
  /\ process \in Nat /\ handle \in Nat /\ target \in Nat
  /\ restart \in [requested : BOOLEAN, reason : Reason]
  /\ ffmpeg \in Seq([alive : BOOLEAN, quality : QualityLevels, overlay : BOOLEAN])
  /\ stopping \in BOOLEAN
  /\ mainpc \in {"running", "read", "terminate", "join", "returned"}
  /\ failures \in Nat

Init ==
  /\ controls = InitControls
  /\ stream = [status |-> "idle", pid |-> 0, quality |-> "none", overlay |-> FALSE]
  /\ pc = "top"
  /\ settings = InitControls
  /\ process = 0 /\ handle = 0 /\ target = 0
  /\ restart = NoRestart
  /\ ffmpeg = << >>
  /\ stopping = FALSE
  /\ mainpc = "running"
  /\ failures = 0

-----------------------------------------------------------------------------
(* state.py: the mark_stream_* operations.  Starting and publishing also   *)
(* forget the restart reason, restarting publishes one.                    *)

MarkRunning(status) ==
  /\ stream' = [status |-> status, pid |-> process,
                quality |-> settings.quality, overlay |-> settings.overlay]
  /\ controls' = [controls EXCEPT !.reason = "none"]

MarkRestarting ==
  /\ stream' = [stream EXCEPT !.status = "restarting", !.pid = 0]
  /\ controls' = [controls EXCEPT !.reason = restart.reason]

MarkIdle(status) ==
  /\ stream' = [stream EXCEPT !.status = status, !.pid = 0]
  /\ UNCHANGED controls

-----------------------------------------------------------------------------
(* The supervisor's thread.                                                *)

Fails == failures < MaxFailures /\ failures' = failures + 1

LoopEnds ==
  /\ pc = "top" /\ stopping
  /\ pc' = "exited"
  /\ UNCHANGED <<controls, stream, settings, process, restart, handle, ffmpeg, mainVars, failures>>

\* source.validate() passes; the settings are read in one locked operation.
ReadSettings ==
  /\ pc = "top" /\ ~stopping
  /\ settings' = controls
  /\ pc' = "spawn"
  /\ UNCHANGED <<controls, stream, process, restart, handle, ffmpeg, mainVars, failures>>

\* source.validate() or Popen raises.
StartFails ==
  /\ \/ pc = "top" /\ ~stopping
     \/ pc = "spawn"
  /\ Fails
  /\ MarkIdle("retrying")
  /\ pc' = "retry"
  /\ UNCHANGED <<settings, process, restart, handle, ffmpeg, mainVars>>

Spawn ==
  /\ pc = "spawn"
  /\ ffmpeg' = Append(ffmpeg, [alive |-> TRUE, quality |-> settings.quality,
                                               overlay |-> settings.overlay])
  /\ process' = Len(ffmpeg) + 1
  /\ pc' = "register"
  /\ UNCHANGED <<controls, stream, settings, restart, handle, mainVars, failures>>

Register ==
  /\ pc = "register"
  /\ handle' = process
  /\ pc' = "starting"
  /\ UNCHANGED <<controls, stream, settings, process, restart, ffmpeg, mainVars, failures>>

Starting ==
  /\ pc = "starting"
  /\ MarkRunning("starting")
  /\ pc' = "probe"
  /\ UNCHANGED <<settings, process, restart, handle, ffmpeg, mainVars, failures>>

\* _wait_for_reconfigure looks at the stop event and at the process, and then
\* reads the revision; turns of its loop that find nothing are left out.
WaitReturns(changed) ==
  /\ restart' = [NoRestart EXCEPT !.requested = changed]
  /\ pc' = IF pc \in {"probe", "probing"} THEN "probed" ELSE "decide"

Look ==
  /\ pc \in {"probe", "watch"}
  /\ IF stopping \/ ~Alive(process) THEN WaitReturns(FALSE)
     ELSE /\ pc' = IF pc = "probe" THEN "probing" ELSE "watching"
          /\ UNCHANGED restart
  /\ UNCHANGED <<controls, stream, settings, process, handle, ffmpeg, mainVars, failures>>

\* While probing a deadline ends the wait, while publishing nothing does.
ReadRevision ==
  /\ pc \in {"probing", "watching"}
  /\ \/ controls.revision # settings.revision /\ WaitReturns(TRUE)
     \/ /\ controls.revision = settings.revision
        /\ IF pc = "probing" THEN WaitReturns(FALSE)
           ELSE pc' = "watch" /\ UNCHANGED restart
  /\ UNCHANGED <<controls, stream, settings, process, handle, ffmpeg, mainVars, failures>>

\* Mutant: the thread leaves without terminating the process it started.
ProbeAbandoned ==
  /\ pc = "probed" /\ stopping
  /\ pc' = "exited"
  /\ UNCHANGED <<controls, stream, settings, process, restart, handle, ffmpeg, mainVars, failures>>

\* Stopped while probing: terminate, and leave without a mark.
ProbeStopped ==
  /\ pc = "probed" /\ stopping
  /\ ffmpeg' = Killed(handle)
  /\ pc' = "exited"
  /\ UNCHANGED <<controls, stream, settings, process, restart, handle, mainVars, failures>>

\* Mutants: publish the controls as they are now instead of the local copy, and
\* take the revision to compare with anew.
PublishLatest ==
  /\ pc = "probed" /\ ~stopping
  /\ ~restart.requested /\ Alive(process)
  /\ stream' = [status |-> "publishing", pid |-> process,
                quality |-> controls.quality, overlay |-> controls.overlay]
  /\ controls' = [controls EXCEPT !.reason = "none"]
  /\ pc' = "watch"
  /\ UNCHANGED <<settings, process, restart, handle, ffmpeg, mainVars, failures>>

PublishRebased ==
  /\ pc = "probed" /\ ~stopping
  /\ ~restart.requested /\ Alive(process)
  /\ MarkRunning("publishing")
  /\ settings' = controls
  /\ pc' = "watch"
  /\ UNCHANGED <<process, restart, handle, ffmpeg, mainVars, failures>>

Publish ==
  /\ pc = "probed" /\ ~stopping
  /\ ~restart.requested /\ Alive(process)
  /\ MarkRunning("publishing")
  /\ pc' = "watch"
  /\ UNCHANGED <<settings, process, restart, handle, ffmpeg, mainVars, failures>>

ProbeFailed ==
  /\ pc = "probed" /\ ~stopping
  /\ restart.requested \/ ~Alive(process)
  /\ pc' = "decide"
  /\ UNCHANGED <<controls, stream, settings, process, restart, handle, ffmpeg, mainVars, failures>>

\* A restart of a live process reads the reason now and publishes it next.
Decide ==
  /\ pc = "decide"
  /\ IF restart.requested /\ Alive(process)
     THEN /\ pc' = "restart"
          /\ restart' = [restart EXCEPT !.reason =
                           IF controls.reason = "none" THEN "changes" ELSE controls.reason]
     ELSE pc' = "wait" /\ UNCHANGED restart
  /\ UNCHANGED <<controls, stream, settings, process, handle, ffmpeg, mainVars, failures>>

Restarting ==
  /\ pc = "restart"
  /\ MarkRestarting
  /\ pc' = "terminate"
  /\ UNCHANGED <<settings, process, restart, handle, ffmpeg, mainVars, failures>>

\* _terminate_process: terminate, wait, kill if need be, wait.
Terminate ==
  /\ pc = "terminate"
  /\ ffmpeg' = Killed(handle)
  /\ pc' = "wait"
  /\ UNCHANGED <<controls, stream, settings, process, restart, handle, mainVars, failures>>

\* process.wait() returns.
Wait ==
  /\ pc = "wait" /\ ~Alive(process)
  /\ handle' = 0
  /\ pc' = "ended"
  /\ UNCHANGED <<controls, stream, settings, process, restart, ffmpeg, mainVars, failures>>

Ended ==
  /\ pc = "ended"
  /\ \/ stopping /\ MarkIdle("stopped") /\ pc' = "exited"
     \/ ~stopping /\ restart.requested /\ pc' = "top" /\ UNCHANGED <<stream, controls>>
     \/ ~stopping /\ ~restart.requested /\ MarkIdle("retrying") /\ pc' = "retry"
  /\ UNCHANGED <<settings, process, restart, handle, ffmpeg, mainVars, failures>>

\* _wait_before_retry.
Retry ==
  /\ pc = "retry"
  /\ pc' = "top"
  /\ UNCHANGED <<controls, stream, settings, process, restart, handle, ffmpeg, mainVars, failures>>

-----------------------------------------------------------------------------
(* stop(), in the main thread.                                             *)

StopBegins ==
  /\ mainpc = "running"
  /\ stopping' = TRUE
  /\ mainpc' = "read"
  /\ UNCHANGED <<controls, stream, supervisorVars, ffmpeg, target, failures>>

StopReadsHandle ==
  /\ mainpc = "read"
  /\ target' = handle
  /\ mainpc' = "terminate"
  /\ UNCHANGED <<controls, stream, supervisorVars, ffmpeg, stopping, failures>>

StopTerminates ==
  /\ mainpc = "terminate"
  /\ ffmpeg' = Killed(target)
  /\ mainpc' = "join"
  /\ UNCHANGED <<controls, stream, supervisorVars, stopping, target, failures>>

StopReturns ==
  /\ mainpc = "join" /\ pc = "exited"
  /\ mainpc' = "returned"
  /\ UNCHANGED <<controls, stream, supervisorVars, ffmpeg, stopping, target, failures>>

-----------------------------------------------------------------------------
(* The environment: commands, and an ffmpeg that ends by itself.           *)

Apply(cmd) ==
  /\ controls.revision < MaxChanges
  /\ controls' = ApplySafeCommand(controls, cmd)
  /\ UNCHANGED <<stream, supervisorVars, ffmpeg, mainVars, failures>>

FfmpegExits(p) ==
  /\ Alive(p)
  /\ Fails
  /\ ffmpeg' = Killed(p)
  /\ UNCHANGED <<controls, stream, supervisorVars, mainVars>>

Supervise ==
  \/ LoopEnds \/ ReadSettings \/ Spawn \/ Register \/ Starting \/ Look
  \/ ReadRevision \/ ProbeStopped
  \/ Publish \/ ProbeFailed \/ Decide \/ Restarting \/ Terminate \/ Wait \/ Ended \/ Retry

StopGoesOn == StopReadsHandle \/ StopTerminates \/ StopReturns

Next ==
  \/ Supervise \/ StartFails
  \/ StopBegins \/ StopGoesOn
  \/ \E cmd \in Commands : Apply(cmd)
  \/ \E p \in Pids : FfmpegExits(p)

Spec == Init /\ [][Next]_vars

\* Both threads are scheduled.  Nobody has to stop the camera or command it.
FairSpec == Spec /\ WF_vars(Supervise) /\ WF_vars(StopGoesOn)

-----------------------------------------------------------------------------
\* What /status shows as applied is what the ffmpeg it names was started with.
AppliedIsStarted ==
  stream.status \in {"starting", "publishing"} =>
    /\ stream.pid \in Pids
    /\ ffmpeg[stream.pid].quality = stream.quality
    /\ ffmpeg[stream.pid].overlay = stream.overlay

\* If the supervisor sees no newer revision, it runs the latest controls:
\* there is no change that a comparison of revisions misses.
RevisionTellsAll ==
  settings.revision = controls.revision =>
    settings.quality = controls.quality /\ settings.overlay = controls.overlay

\* The supervisor knows what it runs: the state has its type, and the status
\* page, the local copy of the settings and the process agree.
StatusTellsTruth == TypeOK /\ AppliedIsStarted /\ RevisionTellsAll

\* However commands, exits and stop() interleave, two publishers never push to
\* the same RTSP path at once: a process that the thread no longer watches is
\* dead.  Once the thread ended nothing is left running, even if stop() found no
\* process to terminate.
NothingLeftRunning ==
  \A p \in Pids : Alive(p) =>
    p = process /\ pc \notin {"top", "spawn", "ended", "retry", "exited"}

Streaming ==
  /\ stream.status = "publishing" /\ Alive(stream.pid)
  /\ stream.quality = controls.quality /\ stream.overlay = controls.overlay

\* After the last command and the last failure, the stream is published with
\* the latest settings for good, unless the camera is being stopped.
Converges == <>[](stopping \/ Streaming)
=============================================================================
