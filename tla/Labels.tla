------------------------------- MODULE Labels -------------------------------
(***************************************************************************)
(* scripts/build_window_features.py: ground-truth events name containers,  *)
(* flows have addresses.  Every name is resolved to the address that most  *)
(* of the flows matching its events have, and each window takes its label  *)
(* and phases from the events it matches.  scripts/build_scan_dataset.py   *)
(* then maps labels, keeps some, and derives a subtype where it is absent. *)
(***************************************************************************)
EXTENDS Windows

CONSTANTS EventSet,      \* the events a ground-truth file may hold
          MaxEvents,     \* bound: events of the file
          DefaultLabel   \* --default-label

Unset  == ""   \* a field the event does not have
NoPort == 0

\* An event without window_end has end = start; `run` tells whose it is.
Event == [run : {"this", "other", Unset}, start : Nat, end : Nat, label : STRING,
          phase : STRING, source : STRING, target : STRING, port : Nat, proto : STRING]

ASSUME LabelsAssumption ==
  EventSet \subseteq Event /\ MaxEvents \in Nat /\ DefaultLabel \in STRING

VARIABLES truth,   \* the ground-truth file
          rows     \* what is written for each window: labels, phases, subtype

labelVars == <<vars, truth, rows>>

\* load_ground_truth: what it keeps of the file, as positions in it.
Loaded == {i \in DOMAIN truth : truth[i].run # "other" /\ truth[i].label # Unset}

Events == {truth[i] : i \in Loaded}

-----------------------------------------------------------------------------
\* Mutant: a point is treated like an interval.
PlainOverlap(left, leftEnd, right, rightEnd) == left < rightEnd /\ right < leftEnd

\* intervals_overlap: an event without length is a point.
Overlap(left, leftEnd, right, rightEnd) ==
  IF right = rightEnd THEN left <= right /\ right < leftEnd
  ELSE left < rightEnd /\ right < leftEnd

FlowMatches(f, e) ==
  /\ IF f.dur = 0 THEN e.start <= f.ts /\ f.ts <= e.end
     ELSE Overlap(f.ts, f.ts + f.dur, e.start, e.end)
  /\ e.port \in {NoPort, f.port}
  /\ e.proto \in {Unset, f.proto}

\* Counter.most_common(1) over the addresses that (event, flow) pairs vote for in
\* this order: the one with the most votes, among equals the one first seen.
Precedes(p, q) == p[1] < q[1] \/ (p[1] = q[1] /\ p[2] <= q[2])

MostCommon(votes) ==
  LET For(a) == {p \in DOMAIN votes : votes[p] = a}
      seen   == Range(votes)
      best   == {a \in seen : \A b \in seen : Cardinality(For(a)) >= Cardinality(For(b))}
  IN IF seen = {} THEN Unset
     ELSE CHOOSE a \in best :
            \E p \in For(a) : \A b \in best : \A q \in For(b) : Precedes(p, q)

Pairs == Loaded \X DOMAIN flows

SourceIp(name) ==
  IF name = Unset THEN Unset
  ELSE LET votes == {p \in Pairs : /\ truth[p[1]].source = name
                                   /\ FlowMatches(flows[p[2]], truth[p[1]])}
       IN MostCommon([p \in votes |-> flows[p[2]].src])

TargetIp(name) ==
  IF name = Unset THEN Unset
  ELSE LET votes == {p \in Pairs : /\ truth[p[1]].target = name
                                   /\ FlowMatches(flows[p[2]], truth[p[1]])
                                   /\ SourceIp(truth[p[1]].source) \in {Unset, flows[p[2]].src}}
       IN MostCommon([p \in votes |-> flows[p[2]].dst])

WindowMatches(k, e) ==
  /\ Overlap(k[2], k[2] + Width, e.start, e.end)
  /\ e.port \in {NoPort} \cup windows[k].ports
  /\ e.proto \in {Unset} \cup windows[k].protos
  /\ SourceIp(e.source) \in {Unset, k[1]}
  /\ TargetIp(e.target) \in {Unset} \cup windows[k].dsts

Matches(k) == {e \in Events : WindowMatches(k, e)}

-----------------------------------------------------------------------------
IsNormal(labels) == labels \in {{"normal"}, {"benign"}}
IsScan(labels)   == labels \in {{"attack"}, {"scanning"}, {"scan"}}

\* subtype_for_label.  A set of labels stands for their join.
SubtypeFor(labels, phases) ==
  CASE IsNormal(labels) -> {"normal"}
    [] ~IsNormal(labels) /\ Cardinality(phases) = 1 -> phases
    [] ~IsNormal(labels) /\ Cardinality(phases) > 1 -> {"mixed_scan"}
    [] IsScan(labels) /\ phases = {} -> {"unknown_scan"}
    [] OTHER -> labels

\* label_for_window
RowFor(k) ==
  LET found  == {e.label : e \in Matches(k)}
      phases == {e.phase : e \in Matches(k)} \ {Unset}
      labels == CASE found = {} -> {DefaultLabel}
                  [] "attack" \in found -> {"attack"}
                  [] OTHER -> found
  IN [labels |-> labels, phases |-> phases, subtype |-> SubtypeFor(labels, phases)]

\* merge_rows: attack is mapped to scanning; only these labels are kept.
MapLabel(labels) == IF labels = {"attack"} THEN {"scanning"} ELSE labels
Kept(row) == MapLabel(row.labels) \in {{"normal"}, {"scanning"}}

\* derive_scan_subtype, for a row whose file has no subtype.
DeriveSubtype(labels, phases) ==
  LET byPhase == IF Cardinality(phases) = 1 THEN phases ELSE {"mixed_scan"}
      byLabel == IF IsScan(labels) THEN {"unknown_scan"} ELSE labels
  IN IF IsNormal(labels) THEN {"normal"} ELSE IF phases # {} THEN byPhase ELSE byLabel

-----------------------------------------------------------------------------
LabelsInit ==
  /\ Init
  /\ truth \in UNION {[1..n -> EventSet] : n \in 0..MaxEvents}
  /\ rows = << >>

Label ==
  /\ pc = "built" /\ rows = << >> /\ windows # << >>
  /\ rows' = [k \in DOMAIN windows |-> RowFor(k)]
  /\ UNCHANGED <<vars, truth>>

\* Bound: a ground truth takes the place of a flow.
LabelsNext ==
  \/ Label
  \/ /\ Next /\ UNCHANGED <<truth, rows>>
     /\ truth # << >> => Len(flows') < MaxFlows

LabelsSpec == LabelsInit /\ [][LabelsNext]_labelVars

-----------------------------------------------------------------------------
\* The flow carries out the event: it starts during it, between the endpoints
\* its names were resolved to, with its port and protocol.
CarriesOut(f, e) ==
  /\ e.start <= f.ts /\ (f.ts < e.end \/ (f.ts = e.start /\ e.start = e.end))
  /\ e.port \in {NoPort, f.port} /\ e.proto \in {Unset, f.proto}
  /\ SourceIp(e.source) \in {Unset, f.src} /\ TargetIp(e.target) \in {Unset, f.dst}

\* No attack is missed: the window of a flow that carries out an event is
\* labelled with the event's label, or as an attack, and has the event's phase;
\* also at the bounds of windows, and for events that are only a point in time.
AttackFound ==
  rows # << >> => \A i \in DOMAIN flows, e \in Events :
    CarriesOut(flows[i], e) =>
      LET row == rows[KeyOf(flows[i])]
      IN /\ e.label \in row.labels \/ row.labels = {"attack"}
         /\ e.phase \in row.phases \cup {Unset}

\* An event whose traffic is in the log labels windows of one source only: it
\* is when nothing was seen of an event that its name binds no source.
OneCulprit ==
  rows # << >> => \A e \in Events :
    e.source # Unset /\ (\E i \in DOMAIN flows : FlowMatches(flows[i], e)) =>
      \A j, k \in DOMAIN rows : WindowMatches(j, e) /\ WindowMatches(k, e) => j[1] = k[1]

\* The two scripts agree: what build_scan_dataset derives from a row it keeps,
\* after mapping the label, is what build_window_features wrote.
SubtypesAgree ==
  \A k \in DOMAIN rows : Kept(rows[k]) =>
    DeriveSubtype(MapLabel(rows[k].labels), rows[k].phases) = rows[k].subtype

\* The labels tell who attacked, and how: no attack is missed, none is blamed on
\* two, and both scripts name it alike.
LabelsTellAttacks == AttackFound /\ OneCulprit /\ SubtypesAgree

-----------------------------------------------------------------------------
(* Why it holds.                                                           *)

\* The rows are derived from windows that no longer change.
RowsInv ==
  /\ truth \in Seq(EventSet)
  /\ rows # << >> => pc = "built" /\ rows = [k \in DOMAIN windows |-> RowFor(k)]

LabelsInv == WindowsInv /\ RowsInv
=============================================================================
