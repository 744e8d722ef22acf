---------------------------- MODULE ScenarioLog ----------------------------
(* The scenario logger (services/common/scenario_logger.py): every service *)
(* appends records to the events file, and what it did to the network to   *)
(* the ground truth file.  Its state is the two files.                     *)
EXTENDS Integers, Sequences, SequencesExt

CONSTANT MaxUnwritten   \* bound: appends that an OSError loses

ASSUME ScenarioLogAssumption == MaxUnwritten \in Nat

\* _append_jsonl: what a file and the number of lost records may become.  A
\* logger that is switched off writes nothing; a failure is only logged.
AppendJsonl(enabled, file, unwritten, record) ==
  {<<IF enabled THEN Append(file, record) ELSE file, unwritten>>}
    \cup IF enabled /\ unwritten < MaxUnwritten THEN {<<file, unwritten + 1>>} ELSE {}
=============================================================================
