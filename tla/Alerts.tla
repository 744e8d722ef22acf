-------------------------------- MODULE Alerts --------------------------------
(* scripts/run_ndr_scan_detection.py scores windows with the exported model *)
(* and writes alerts and a summary; scripts/validate_ndr_alerts.py decides  *)
(* whether the two files can be handed on.  Probabilities and thresholds    *)
(* are counted in units of 1/200, two of which are a unit of the last digit *)
(* that is kept of a confidence.                                            *)
EXTENDS Integers, Sequences, FiniteSets, Functions

CONSTANTS Probabilities,   \* what the model may say of a window
          Thresholds,      \* for --threshold and --alert-threshold
          MaxRows          \* bound: windows of an input

Whole == 200

ASSUME AlertsAssumption ==
  /\ Probabilities \subseteq 0..Whole /\ MaxRows \in Nat
  /\ Thresholds \subseteq {t \in 0..Whole : t % 2 = 0}

VARIABLES thresholds,    \* [model, alert]
          input,         \* the probabilities of the windows to score
          predictions,   \* the predictions file
          alerts,        \* the alerts file
          alertSummary,  \* the summary file
          detection      \* where the script is

alertVars == <<thresholds, input, predictions, alerts, alertSummary, detection>>

\* Python's round: a half goes to the even neighbour.
Rounded(p) == IF p % 2 = 0 THEN p ELSE IF ((p - 1) \div 2) % 2 = 0 THEN p - 1 ELSE p + 1

\* The exported predictor.
Predicted(probabilities, threshold) ==
  [i \in DOMAIN probabilities |->
     [probability |-> probabilities[i],
      name |-> IF probabilities[i] >= threshold THEN "scanning" ELSE "normal"]]

Severity(p) ==
  CASE p >= 196 -> "critical" [] p \in 180..195 -> "high" [] p \in 160..179 -> "medium" [] OTHER -> "low"

\* Mutant: a window at the threshold is not reported.
AlertsAbove(rows, threshold) ==
  [i \in {j \in DOMAIN rows : rows[j].probability > threshold} |->
     [severity |-> Severity(rows[i].probability), confidence |-> Rounded(rows[i].probability),
      threshold |-> threshold, label |-> rows[i].name]]

\* The alerts, each under the number of the row it reports.
BuildAlerts(rows, threshold) ==
  [i \in {j \in DOMAIN rows : rows[j].probability >= threshold} |->
     [severity |-> Severity(rows[i].probability), confidence |-> Rounded(rows[i].probability),
      threshold |-> threshold, label |-> rows[i].name]]

\* build_summary counts the alerts, and those of every severity.
Counts(list) ==
  [s \in {list[i].severity : i \in DOMAIN list} |->
     Cardinality({i \in DOMAIN list : list[i].severity = s})]

Inputs == UNION {[1..n -> Probabilities] : n \in 0..MaxRows}
NoSummary == [emitted |-> -1]

AlertsInit ==
  /\ thresholds \in [model : Thresholds, alert : Thresholds] /\ input \in Inputs
  /\ predictions = << >> /\ alerts = << >> /\ alertSummary = NoSummary
  /\ detection = "predict"

Predict ==
  /\ detection = "predict"
  /\ predictions' = Predicted(input, thresholds.model)
  /\ detection' = "alerts"
  /\ UNCHANGED <<thresholds, input, alerts, alertSummary>>

WriteAlerts ==
  /\ detection = "alerts"
  /\ alerts' = BuildAlerts(predictions, thresholds.alert)
  /\ detection' = "summary"
  /\ UNCHANGED <<thresholds, input, predictions, alertSummary>>

WriteSummary ==
  /\ detection = "summary"
  /\ alertSummary' = [emitted |-> Cardinality(DOMAIN alerts), counts |-> Counts(alerts)]
  /\ detection' = "done"
  /\ UNCHANGED <<thresholds, input, predictions, alerts>>

\* The script is killed, maybe when it has written the alerts of the first rows.
DetectionKilled ==
  /\ detection \in {"predict", "alerts", "summary"} /\ detection' = "killed"
  /\ \/ UNCHANGED alerts
     \/ /\ detection = "alerts"
        /\ LET all == BuildAlerts(predictions, thresholds.alert)
           IN \E n \in 0..Len(predictions) : alerts' = Restrict(all, DOMAIN all \cap 1..n)
  /\ UNCHANGED <<thresholds, input, predictions, alertSummary>>

\* It is called again, for other windows and with other thresholds.
Detect ==
  /\ detection \in {"done", "killed"} /\ detection' = "predict"
  /\ thresholds' \in [model : Thresholds, alert : Thresholds] /\ input' \in Inputs
  /\ UNCHANGED <<predictions, alerts, alertSummary>>

AlertsNext == Predict \/ WriteAlerts \/ WriteSummary \/ DetectionKilled \/ Detect

AlertsSpec == AlertsInit /\ [][AlertsNext]_alertVars

-----------------------------------------------------------------------------
\* validate_alert_record and validate_alerts, with --allow-empty.
ValidRecord(a) ==
  /\ a.severity \in {"low", "medium", "high", "critical"}
  /\ a.confidence \in 0..Whole /\ a.confidence >= a.threshold
  /\ a.label = "scanning"

ValidationPasses ==
  /\ alertSummary # NoSummary
  /\ \A i \in DOMAIN alerts : ValidRecord(alerts[i])
  /\ alertSummary.emitted = Cardinality(DOMAIN alerts) /\ alertSummary.counts = Counts(alerts)

\* A detection that ends reports windows the model calls scanning, all of them
\* if the thresholds are one, and is validated, whatever an earlier one that was
\* killed has left, as long as alerts are not asked for below the model's
\* threshold; then it is a window that scores in between that fails.
AlertsPassValidation ==
  LET scanning == {i \in DOMAIN predictions : predictions[i].name = "scanning"}
  IN /\ detection = "done" /\ thresholds.alert >= thresholds.model =>
          /\ ValidationPasses
          /\ Cardinality(DOMAIN alerts) <= Cardinality(scanning)
          /\ thresholds.alert = thresholds.model => DOMAIN alerts = scanning
     /\ detection = "done" /\ ~ValidationPasses =>
          \E i \in DOMAIN predictions :
            predictions[i].name = "normal" /\ predictions[i].probability >= thresholds.alert

-----------------------------------------------------------------------------
(* Why it holds.                                                           *)

\* What each step of a detection has written is of its own input, and stays.
AlertsInv ==
  /\ thresholds \in [model : Thresholds, alert : Thresholds] /\ input \in Inputs
  /\ detection \in {"predict", "alerts", "summary", "done", "killed"}
  /\ detection \in {"alerts", "summary", "done"} => predictions = Predicted(input, thresholds.model)
  /\ detection \in {"summary", "done"} => alerts = BuildAlerts(predictions, thresholds.alert)
  /\ detection = "done" =>
       alertSummary = [emitted |-> Cardinality(DOMAIN alerts), counts |-> Counts(alerts)]
=============================================================================
