----------------------------- MODULE MCStreamer -----------------------------
(* Instances of Streamer for TLC: a change of quality and the change back, *)
(* and a toggle.                                                           *)
EXTENDS Streamer

MCCommands ==
  {[name |-> "set_quality", arg |-> "low"], [name |-> "set_quality", arg |-> "high"],
   [name |-> "toggle_overlay", arg |-> "unset"]}
=============================================================================
