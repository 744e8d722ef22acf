---------------------------- MODULE MCCollector ----------------------------
(* Instances of Collector for TLC.  MCUnit is how the systemd unit calls   *)
(* it: resume --retry-failed --finalize.                                   *)
EXTENDS Collector

MCUnit == {UnitOptions}
MCOptions == MCUnit \cup {[retry |-> FALSE, finalize |-> FALSE]}
MCTestRuns == {NumRuns}
=============================================================================
