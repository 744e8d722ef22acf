-------------------------- MODULE ScenarioTraffic --------------------------
(* The traffic generator of the labelled scenarios (services/camera-app/   *)
(* scenario_traffic.py): it plans the attempts of a mode, makes them one   *)
(* by one and labels each in the events and the ground truth file.         *)
EXTENDS ScenarioLog, ScanTargets, FiniteSets, FiniteSetsExt

CONSTANT TrafficOptions   \* the command lines to try

\* targets and ports are lists that may be empty or repeat an element.
ASSUME ScenarioTrafficAssumption ==
  \A o \in TrafficOptions :
    /\ o.mode \in {"vertical_scan", "horizontal_scan", "service_probe", "udp_scan"}
    /\ o.targets \in Seq(Range(o.targets)) /\ o.ports \in Seq(Range(o.ports))
    /\ o.max \in Nat /\ {o.allowExternal, o.logged} \subseteq BOOLEAN

VARIABLES options,
          program,     \* where the program is
          results,     \* of the attempts it has made; the last is at hand
          trafficEvents, trafficTruth,   \* the two files
          labelled, lost   \* history: attempts whose ground truth was written, or not

trafficVars == <<options, program, results, trafficEvents, trafficTruth, labelled, lost>>

made == Len(results)

\* Mutant: every mode goes target by target.
TargetByTarget(mode, targets, ports) ==
  [k \in 1..(Len(targets) * Len(ports)) |->
     [target |-> targets[((k - 1) \div Len(ports)) + 1],
      port   |-> ports[((k - 1) % Len(ports)) + 1],
      proto  |-> IF mode = "udp_scan" THEN "udp" ELSE "tcp"]]

\* build_attempts: a horizontal scan goes port by port, the others target by
\* target.
BuildAttempts(mode, targets, ports) ==
  LET across == mode = "horizontal_scan"
      inner  == IF across THEN Len(targets) ELSE Len(ports)
      Outer(k) == ((k - 1) \div inner) + 1
      Inner(k) == ((k - 1) % inner) + 1
  IN [k \in 1..(Len(targets) * Len(ports)) |->
        [target |-> targets[IF across THEN Inner(k) ELSE Outer(k)],
         port   |-> ports[IF across THEN Outer(k) ELSE Inner(k)],
         proto  |-> IF mode = "udp_scan" THEN "udp" ELSE "tcp"]]

Plan ==
  LET all == BuildAttempts(options.mode, options.targets, options.ports)
  IN IF options.max > 0 THEN SubSeq(all, 1, Min({options.max, Len(all)})) ELSE all

TrafficInit ==
  /\ options \in TrafficOptions
  /\ program = "start" /\ results = << >>
  /\ trafficEvents = << >> /\ trafficTruth = << >> /\ labelled = {} /\ lost = {}

Goes(from, to) == program = from /\ program' = to

\* The bound counts the records that the ground truth has lost.
WriteTrafficEvent(record) ==
  \E o \in AppendJsonl(options.logged, trafficEvents, Cardinality(lost), record) :
    trafficEvents' = o[1]

TrafficStart ==
  /\ IF Plan = << >> THEN Goes("start", "refused") /\ UNCHANGED trafficEvents
     ELSE Goes("start", "top") /\ WriteTrafficEvent([type |-> "start", attempts |-> 0])
  /\ UNCHANGED <<options, results, trafficTruth, labelled, lost>>

\* How an attempt can end: blocked, or as its protocol does.
Endings(target) ==
  UNION {IF ~v THEN {"blocked"}
         ELSE IF options.mode = "udp_scan" THEN UdpResults ELSE TcpResults : v \in Verdicts(target, ~options.allowExternal)}

Attempt ==
  /\ program = "top" /\ made < Len(Plan)
  /\ LET next == Plan[made + 1]
     IN IF next.target \in Unencodable
        THEN program' = "dead" /\ UNCHANGED results
        ELSE program' = "event" /\ \E outcome \in Endings(next.target) : results' = Append(results, outcome)
  /\ UNCHANGED <<options, trafficEvents, trafficTruth, labelled, lost>>

\* What log_attempt writes of an attempt, in both files.
Label(i) == [of |-> Plan[i], result |-> results[i]]

LogTrafficEvent ==
  /\ Goes("event", "truth")
  /\ WriteTrafficEvent([type |-> "attempt", label |-> Label(made)])
  /\ UNCHANGED <<options, results, trafficTruth, labelled, lost>>

LogTrafficTruth ==
  /\ Goes("truth", "top")
  /\ \E o \in AppendJsonl(options.logged, trafficTruth, Cardinality(lost), Label(made)) :
       /\ trafficTruth' = o[1]
       /\ IF o[2] = Cardinality(lost) THEN labelled' = labelled \cup {made} /\ UNCHANGED lost
                                     ELSE lost' = lost \cup {made} /\ UNCHANGED labelled
  /\ UNCHANGED <<options, results, trafficEvents>>

TrafficStop ==
  /\ made = Len(Plan)
  /\ Goes("top", "done")
  /\ WriteTrafficEvent([type |-> "stop", attempts |-> made])
  /\ UNCHANGED <<options, results, trafficTruth, labelled, lost>>

\* A signal ends it anywhere.
TrafficKilled ==
  /\ program \notin {"refused", "dead", "done"} /\ program' = "dead"
  /\ UNCHANGED <<options, results, trafficEvents, trafficTruth, labelled, lost>>

TrafficNext ==
  TrafficStart \/ Attempt \/ LogTrafficEvent \/ LogTrafficTruth \/ TrafficStop \/ TrafficKilled

TrafficSpec == TrafficInit /\ [][TrafficNext]_trafficVars

-----------------------------------------------------------------------------
Ceiling(a, b) == (a + b - 1) \div b

\* The plan of lists without repetitions has no pair twice, all of them unless it
\* is capped, and a capped scan is as wide as its mode says: a horizontal one
\* reaches as many targets as it can, the others use up a target's ports first.
PlanFitsMode ==
  LET plan  == Plan
      width == Cardinality({plan[k].target : k \in DOMAIN plan})
      pairs == Range(options.targets) \X Range(options.ports)
  IN plan # << >> /\ IsInjective(options.targets) /\ IsInjective(options.ports) =>
     /\ IsInjective(plan)
     /\ options.max = 0 => {<<plan[k].target, plan[k].port>> : k \in DOMAIN plan} = pairs
     /\ width = IF options.mode = "horizontal_scan"
                THEN Min({Len(plan), Len(options.targets)})
                ELSE Ceiling(Len(plan), Len(options.ports))

\* The labels are the plan as far as the program came, in order, each attempt
\* once and with its own result; only those that could not be written are missing
\* and the one a signal cut short; a stop event counts them all.
PlaceOf(i) == Cardinality({j \in labelled : j <= i})

LabelsFollowPlan ==
  /\ labelled \cap lost = {}
  /\ (1..made) \ (labelled \cup lost) \subseteq
       (IF program \in {"event", "truth", "dead"} THEN {made} ELSE {})
  /\ options.logged =>
       /\ Len(trafficTruth) = Cardinality(labelled)
       /\ \A i \in labelled : i \in 1..made /\ trafficTruth[PlaceOf(i)] = Label(i)
  /\ \A i \in DOMAIN trafficEvents : trafficEvents[i].type = "stop" =>
       trafficEvents[i].attempts = Len(Plan) /\ labelled \cup lost = 1..Len(Plan)

\* What the generator did is labelled, and what it does is what the mode says.
TrafficAccounted == PlanFitsMode /\ LabelsFollowPlan

-----------------------------------------------------------------------------
(* Why it holds.                                                           *)

TrafficResult == {"blocked"} \cup TcpResults \cup UdpResults
TrafficLabel  == [of : Range(Plan), result : TrafficResult]
TrafficRecord == [type : {"start", "stop"}, attempts : Nat] \cup [type : {"attempt"}, label : TrafficLabel]

\* The attempt at hand is the last of those begun, and not in the ground truth.
TrafficInv ==
  /\ options \in TrafficOptions
  /\ program \in {"start", "refused", "top", "event", "truth", "done", "dead"}
  /\ results \in Seq(TrafficResult) /\ made <= Len(Plan)
  /\ trafficEvents \in Seq(TrafficRecord) /\ trafficTruth \in Seq(TrafficLabel)
  /\ labelled \subseteq 1..made /\ lost \subseteq 1..made
  /\ program \in {"event", "truth"} => made > 0 /\ made \notin labelled \cup lost
  /\ LabelsFollowPlan
=============================================================================
