---------------------------- MODULE MCNvrConsole ----------------------------
(* Instances of NvrConsole for TLC.                                        *)
EXTENDS NvrConsole, TLC

CONSTANTS r1, r2, r3, n1, n2

Alike == Permutations(Requests) \cup Permutations(Names)
=============================================================================
