--------------------------- MODULE MCControlPlane ---------------------------
(* Instances of ControlPlane for TLC: a command that succeeds and is not   *)
(* idempotent, and one that apply_safe_command refuses.                    *)
EXTENDS ControlPlane, TLC

Toggle == [name |-> "toggle_overlay", arg |-> "unset"]
BadNote == [name |-> "record_marker", arg |-> "blank"]

MCCommands == {Toggle, BadNote}
MCOneCommand == {Toggle}
MCSymmetry == Permutations(Cameras)
=============================================================================
