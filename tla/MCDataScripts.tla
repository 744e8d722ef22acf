--------------------------- MODULE MCDataScripts ---------------------------
(* Instances for TLC of the scripts that build features and datasets         *)
(* (Labels with Windows, Dataset with its SequenceReport) and that report    *)
(* what a model finds (Alerts).  They share nothing but files, so a run      *)
(* tries one of them on its inputs.                                          *)
EXTENDS Labels, SequenceReport, Alerts

VARIABLE script

\* Flows on both sides of the bounds of windows two seconds long, and with gaps
\* longer than the rolling contexts; a camera that scans and an NVR that uses
\* the same ports.
MCFlows ==
  [ts : {0, 5, 9, 14}, dur : {0}, src : {"camera"}, dst : {"hub"}, port : {80},
   proto : {"udp"}, failed : {FALSE}]
    \cup [ts : {1, 2, 3}, dur : {0, 2}, src : {"camera", "nvr"}, dst : {"hub"}, port : {554},
          proto : {"tcp"}, failed : {TRUE}]
    \cup [ts : {1, 2}, dur : {0}, src : {"camera"}, dst : {"cloud"}, port : {80},
          proto : {"tcp"}, failed : {FALSE}]

Scan == [run |-> "this", start |-> 1, end |-> 2, label |-> "attack", phase |-> "port_scan",
         source |-> "cam-1", target |-> "hub-1", port |-> 554, proto |-> "tcp"]

\* Events that end at a window's bound or cross it, one that is a point in
\* time, one without target and one of another run.
MCEvents ==
  {Scan, [Scan EXCEPT !.end = 3],
   [Scan EXCEPT !.start = 2, !.end = 2, !.label = "scanning", !.phase = "slow_scan"],
   [Scan EXCEPT !.start = 2, !.end = 3, !.port = NoPort, !.target = Unset, !.phase = Unset],
   [Scan EXCEPT !.label = "normal", !.port = 80, !.target = "web-1", !.run = Unset],
   [Scan EXCEPT !.run = "other", !.phase = "slow_scan"]}

\* Three targets, so that a test run may have a class no training run has; four
\* windows, for sequences that are padded, full or skipped.
MCCases ==
  {[starts |-> 0..2, labels |-> {"attack", "normal;scanning"},
    targets |-> {"normal", "port_scan", "dns_probe"},
    length |-> 2, stride |-> 1, padStart |-> FALSE],
   [starts |-> 0..3, labels |-> {"attack"}, targets |-> {"normal", "port_scan"},
    length |-> 3, stride |-> 2, padStart |-> TRUE]}

MCGates == [total |-> 2, train |-> 1, test |-> 1, share |-> 100]

NoLabels == Init /\ ~includeEmpty /\ truth = << >> /\ rows = << >>
NoDataset == NothingRead /\ files = {} /\ args = CHOOSE c \in Cases : TRUE
NoAlerts == AlertsInit /\ input = << >> /\ thresholds = [model |-> 160, alert |-> 160]

ScriptsInit ==
  \/ script = "features" /\ LabelsInit /\ NoDataset /\ NoAlerts
  \/ script = "dataset" /\ NoLabels /\ DatasetInit /\ NoAlerts
  \/ script = "alerts" /\ NoLabels /\ NoDataset /\ AlertsInit

ScriptsNext ==
  \/ script = "features" /\ LabelsNext /\ UNCHANGED <<datasetVars, alertVars, script>>
  \/ script = "dataset" /\ DatasetNext /\ UNCHANGED <<labelVars, alertVars, script>>
  \/ script = "alerts" /\ AlertsNext /\ UNCHANGED <<labelVars, datasetVars, script>>

ScriptsSpec ==
  ScriptsInit /\ [][ScriptsNext]_<<labelVars, datasetVars, alertVars, script>>
=============================================================================
