----------------------------- MODULE CameraState -----------------------------
(***************************************************************************)
(* services/camera-app/state.py: the operations of CameraState, each of    *)
(* which runs under the state's RLock and is therefore one atomic update   *)
(* of a record.  Timestamps, URLs and texts are left out; the remaining    *)
(* fields are the ones the other threads of the camera read.               *)
(***************************************************************************)
EXTENDS Naturals

QualityLevels == {"low", "medium", "high"}

(***************************************************************************)
(* A command is its (normalised) name and the one parameter it reads.      *)
(* "unset" stands for a missing `enabled`, "invalid" for a value of the    *)
(* wrong type or an unknown quality, "blank" for an empty note.            *)
(***************************************************************************)
Command ==
  [name : {"noop", "get_status"}, arg : {"unset"}]
    \cup [name : {"set_quality"}, arg : QualityLevels \cup {"invalid"}]
    \cup [name : {"toggle_overlay"}, arg : {"on", "off", "unset", "invalid"}]
    \cup [name : {"record_marker"}, arg : {"note", "blank"}]

-----------------------------------------------------------------------------
(* The controls, with the revision and the restart reason that every       *)
(* change of them stamps on the stream.                                    *)

Reason == {"none", "quality", "overlay", "changes"}

Controls ==
  [quality : QualityLevels, overlay : BOOLEAN, revision : Nat, reason : Reason]

InitControls ==
  [quality |-> "high", overlay |-> FALSE, revision |-> 0, reason |-> "none"]

\* apply_safe_command raises ValueError exactly when this is false.
Accepts(cmd) ==
  /\ cmd.arg # "invalid"
  /\ cmd.name = "record_marker" => cmd.arg # "blank"

WithQuality(k, q) ==
  IF q = k.quality THEN k
  ELSE [k EXCEPT !.quality = q, !.revision = @ + 1, !.reason = "quality"]

WithOverlay(k, on) ==
  IF on = k.overlay THEN k
  ELSE [k EXCEPT !.overlay = on, !.revision = @ + 1, !.reason = "overlay"]

\* A toggle without `enabled` negates the present value: it is not idempotent.
ApplySafeCommand(k, cmd) ==
  CASE ~Accepts(cmd) -> k
    [] Accepts(cmd) /\ cmd.name = "set_quality" -> WithQuality(k, cmd.arg)
    [] Accepts(cmd) /\ cmd.name = "toggle_overlay" ->
         WithOverlay(k, IF cmd.arg = "unset" THEN ~k.overlay ELSE cmd.arg = "on")
    [] OTHER -> k

-----------------------------------------------------------------------------
(* The poller's entry: its status, consecutive_failures, whether           *)
(* last_error is set, and last_task_status.                                *)

Poller ==
  [status   : {"idle", "polling", "executing", "error", "stopped"},
   failures : Nat,
   error    : BOOLEAN,
   task     : {"none", "received", "completed", "failed"}]

InitPoller == [status |-> "idle", failures |-> 0, error |-> FALSE, task |-> "none"]

MarkPolling(p)        == [p EXCEPT !.status = "polling", !.error = FALSE]
MarkPollIdle(p)       == [p EXCEPT !.status = "idle", !.error = FALSE, !.failures = 0]
MarkTaskReceived(p)   == [p EXCEPT !.status = "executing", !.task = "received", !.error = FALSE]
MarkTaskFinished(p, ok) ==
  [p EXCEPT !.status = "idle", !.task = IF ok THEN "completed" ELSE "failed"]
MarkResultReported(p) == [p EXCEPT !.error = FALSE, !.failures = 0]
MarkPollFailed(p)     == [p EXCEPT !.status = "error", !.error = TRUE, !.failures = @ + 1]
MarkPollerStopped(p)  == [p EXCEPT !.status = "stopped"]
=============================================================================
