------------------------------ MODULE MCTraffic ------------------------------
(* Instances for TLC of the camera's own traffic, the beacon threads        *)
(* (Heartbeat), the infected-scan worker (Recon) and the scenario traffic   *)
(* generator (ScenarioTraffic), and of the script that captures many runs   *)
(* of such traffic (BulkCollector).  They share no state, so a run looks    *)
(* at one of them.                                                          *)
EXTENDS Heartbeat, Recon, ScenarioTraffic, BulkCollector

VARIABLE looksAt

Scanning == [enabled |-> TRUE, targets |-> <<"10.0.0.5", "10.0.0.6">>, ports |-> <<80, 554>>,
             max |-> 0, blockExternal |-> TRUE, logged |-> TRUE]

\* Rotations with more pairs than attempts and with fewer, capped, not checked,
\* not logged, without targets, with a public address and with a name that ends the thread.
MCScanConfigs ==
  {Scanning, [Scanning EXCEPT !.enabled = FALSE], [Scanning EXCEPT !.targets = << >>],
   [Scanning EXCEPT !.targets = <<"8.8.8.8", "cam-2">>, !.ports = <<80>>],
   [Scanning EXCEPT !.targets = <<"cam-2">>, !.blockExternal = FALSE, !.logged = FALSE, !.max = 1],
   [Scanning EXCEPT !.targets = <<"10.0.0.5", "cam..2">>, !.ports = <<80>>]}

Vertical == [mode |-> "vertical_scan", targets |-> <<"8.8.8.8", "cam-2">>,
             ports |-> <<80, 554>>, max |-> 0, allowExternal |-> FALSE, logged |-> TRUE]

\* Every mode, whole and cut short; no targets; and no checks.
MCTrafficOptions ==
  [mode : {"vertical_scan", "horizontal_scan", "udp_scan"}, targets : {Vertical.targets},
   ports : {<<80, 554>>}, max : {2, 3}, allowExternal : {FALSE}, logged : {TRUE}]
  \cup {Vertical, [Vertical EXCEPT !.targets = << >>],
        [Vertical EXCEPT !.mode = "service_probe", !.targets = <<"cam..2">>, !.max = 9],
        [Vertical EXCEPT !.allowExternal = TRUE, !.logged = FALSE, !.mode = "horizontal_scan"]}

MCScenarios == <<"baseline", "udp-scan", "low-and-slow">>

\* All of it, all but the slow scan captured long, and two scenarios only.
Bulk == [selected |-> {}, baselineRepeats |-> 1, repeats |-> 1, tests |-> {},
         baselineSeconds |-> 600, attackSeconds |-> 300, longOnly |-> {}, pairs |-> 30,
         windowSeconds |-> 60]
MCBulkOptions ==
  {Bulk, [Bulk EXCEPT !.longOnly = {"udp-scan"}, !.baselineRepeats = 0],
   [Bulk EXCEPT !.selected = {"baseline", "udp-scan"}, !.attackSeconds = 0, !.repeats = 2, !.tests = {1}]}

NoScan == ScanInit /\ scanConfig = Scanning
NoTraffic == TrafficInit /\ options = Vertical
NoBulk == BulkInit /\ bulkArgs = Bulk

MCInit ==
  \/ looksAt = "beacons" /\ Init /\ NoScan /\ NoTraffic /\ NoBulk
  \/ looksAt = "scan" /\ Init /\ ScanInit /\ NoTraffic /\ NoBulk
  \/ looksAt = "scenario" /\ Init /\ NoScan /\ TrafficInit /\ NoBulk
  \/ looksAt = "bulk" /\ Init /\ NoScan /\ NoTraffic /\ BulkInit

MCNext ==
  \/ looksAt = "beacons" /\ Next /\ UNCHANGED <<scanVars, trafficVars, bulkVars, looksAt>>
  \/ looksAt = "scan" /\ ScanNext /\ UNCHANGED <<vars, trafficVars, bulkVars, looksAt>>
  \/ looksAt = "scenario" /\ TrafficNext /\ UNCHANGED <<vars, scanVars, bulkVars, looksAt>>
  \/ looksAt = "bulk" /\ BulkNext /\ UNCHANGED <<vars, scanVars, trafficVars, looksAt>>

\* The scan's threads are scheduled; somebody calls the bulk collector again
\* and again.  The properties of the others need no fairness.
MCFairness ==
  /\ WF_scanVars(looksAt = "scan" /\ ScanThread) /\ WF_scanVars(looksAt = "scan" /\ ScanMain)
  /\ WF_bulkVars(looksAt = "bulk" /\ BulkWork)
  /\ SF_bulkVars(looksAt = "bulk" /\ BulkStart(TRUE))

MCSpec ==
  MCInit /\ [][MCNext]_<<vars, scanVars, trafficVars, bulkVars, looksAt>> /\ MCFairness
=============================================================================
