---------------------------- MODULE MCCaptureRun ----------------------------
(* Instances of CaptureRun for TLC.                                        *)
EXTENDS CaptureRun
=============================================================================
