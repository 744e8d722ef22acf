------------------------------- MODULE Windows -------------------------------
(***************************************************************************)
(* scripts/build_window_features.py: the flows of one conn.log are grouped *)
(* by source and time window, gaps may be filled with empty windows, and   *)
(* each window gets a rolling context of the source's last windows.        *)
(* Timestamps are whole seconds.  Of a window's statistics the model keeps *)
(* what labelling and the rolling context read.                            *)
(***************************************************************************)
EXTENDS Integers, Sequences, FiniteSets, Functions

CONSTANTS FlowSet,       \* the flows a log may hold
          Width,         \* --window-seconds
          MaxFlows       \* bound: length of the log

\* An address or a protocol that the log does not have is a dash or "unknown".
Flow == [ts : Nat, dur : Nat, src : STRING \ {""}, dst : STRING \ {""}, port : Nat,
         proto : STRING, failed : BOOLEAN]

ASSUME WindowsAssumption ==
  /\ FlowSet \subseteq Flow
  /\ Width \in Nat \ {0} /\ MaxFlows \in Nat

VARIABLES flows,    \* what read_flows returned
          added,    \* how many of them the loop of build_windows has added
          includeEmpty,   \* --include-empty
          windows,  \* a window per <<source, start>>
          pc

vars == <<includeEmpty, flows, added, windows, pc>>

Sources == {f.src : f \in FlowSet}
Window == [count : Nat, failed : Nat, dsts : SUBSET {f.dst : f \in FlowSet},
           ports : SUBSET {f.port : f \in FlowSet}, protos : SUBSET {f.proto : f \in FlowSet}]

TypeOK ==
  /\ includeEmpty \in BOOLEAN
  /\ flows \in Seq(FlowSet)
  /\ added \in 0..Len(flows)
  /\ DOMAIN windows \subseteq Sources \X Nat
  /\ \A k \in DOMAIN windows : windows[k] \in Window
  /\ pc \in {"read", "build", "fill", "built"}

Init ==
  /\ includeEmpty \in BOOLEAN
  /\ flows = << >> /\ added = 0 /\ windows = << >> /\ pc = "read"

-----------------------------------------------------------------------------
StartOf(f) == (f.ts \div Width) * Width

NoFlows == [count |-> 0, failed |-> 0, dsts |-> {}, ports |-> {}, protos |-> {}]

\* WindowStats.add
With(w, f) ==
  [count  |-> w.count + 1,
   failed |-> w.failed + (IF f.failed THEN 1 ELSE 0),
   dsts   |-> w.dsts \cup {f.dst},
   ports  |-> w.ports \cup {f.port},
   protos |-> w.protos \cup {f.proto}]

\* What setdefault returns for a key.
WindowAt(k) == IF k \in DOMAIN windows THEN windows[k] ELSE NoFlows

Read(f) ==
  /\ pc = "read" /\ Len(flows) < MaxFlows
  /\ flows' = Append(flows, f)
  /\ UNCHANGED <<includeEmpty, added, windows, pc>>

ReadEnds ==
  /\ pc = "read"
  /\ pc' = "build"
  /\ UNCHANGED <<includeEmpty, flows, added, windows>>

KeyOf(f) == <<f.src, StartOf(f)>>

Build ==
  /\ pc = "build" /\ added < Len(flows)
  /\ added' = added + 1
  /\ LET f   == flows[added + 1]
         key == KeyOf(f)
     IN windows' = [k \in DOMAIN windows \cup {key} |->
                      IF k = key THEN With(WindowAt(k), f) ELSE windows[k]]
  /\ UNCHANGED <<includeEmpty, flows, pc>>

BuildEnds ==
  /\ pc = "build" /\ added = Len(flows)
  /\ pc' = IF includeEmpty THEN "fill" ELSE "built"
  /\ UNCHANGED <<includeEmpty, flows, added, windows>>

StartsOf(s) == {k[2] : k \in {j \in DOMAIN windows : j[1] = s}}

\* Every start from the first to the last window of a source.
Span(s) ==
  {t \in UNION {0..b : b \in StartsOf(s)} : t % Width = 0 /\ \E a \in StartsOf(s) : a <= t}

Fill ==
  /\ pc = "fill"
  /\ windows' = [k \in DOMAIN windows \cup UNION {{s} \X Span(s) : s \in Sources} |-> WindowAt(k)]
  /\ pc' = "built"
  /\ UNCHANGED <<includeEmpty, flows, added>>

Next == (\E f \in FlowSet : Read(f)) \/ ReadEnds \/ Build \/ BuildEnds \/ Fill

Spec == Init /\ [][Next]_vars
-----------------------------------------------------------------------------
(* add_rolling_context: a row's history is its window and the n - 1 rows   *)
(* of the same source before it.                                           *)

RollingSizes == {3, 6}

Before(k, j) == {m \in DOMAIN windows : m[1] = k[1] /\ j[2] < m[2] /\ m[2] <= k[2]}

\* Mutant: one row too few.
ShortHistory(k, n) ==
  {j \in DOMAIN windows : j[1] = k[1] /\ j[2] <= k[2] /\ Cardinality(Before(k, j)) < n - 1}

History(k, n) ==
  {j \in DOMAIN windows : j[1] = k[1] /\ j[2] <= k[2] /\ Cardinality(Before(k, j)) < n}

\* A sum, by counting the units of every term.
SumOf(f) == Cardinality(UNION {{j} \X (1..f[j]) : j \in DOMAIN f})

\* rolling_values
Rolling(k, n) ==
  LET history == History(k, n)
  IN [count  |-> SumOf([j \in history |-> windows[j].count]),
      failed |-> SumOf([j \in history |-> windows[j].failed]),
      dsts   |-> UNION {windows[j].dsts : j \in history}]

-----------------------------------------------------------------------------
\* The flows of source s, of those added so far, that start in [from, to).
FlowsIn(s, from, to) ==
  {i \in 1..added : flows[i].src = s /\ from <= flows[i].ts /\ flows[i].ts < to}

Members(k) == FlowsIn(k[1], k[2], k[2] + Width)

\* What a window must hold, read off the log.
Summarises(w, members) ==
  /\ w.count = Cardinality(members)
  /\ w.failed = Cardinality({i \in members : flows[i].failed})
  /\ w.dsts = {flows[i].dst : i \in members}
  /\ w.ports = {flows[i].port : i \in members}
  /\ w.protos = {flows[i].proto : i \in members}

\* No flow is lost, counted twice or put in another source's window: a window
\* is the summary of exactly the flows its source began in its interval, every
\* flow added has such a window, and the intervals of a source do not overlap.
EachFlowOnce ==
  /\ \A k \in DOMAIN windows : k[2] % Width = 0 /\ Summarises(windows[k], Members(k))
  /\ \A i \in 1..added : \E k \in DOMAIN windows : i \in Members(k)

\* With --include-empty the windows of a source follow one another without a
\* gap, and they begin and end with a window that has flows.
NoGaps ==
  includeEmpty /\ pc = "built" =>
    \A j, k \in DOMAIN windows : j[1] = k[1] /\ j[2] < k[2] =>
      /\ <<j[1], j[2] + Width>> \in DOMAIN windows
      /\ \E a, b \in DOMAIN windows :
           /\ a[1] = j[1] /\ b[1] = j[1] /\ a[2] <= j[2] /\ k[2] <= b[2]
           /\ windows[a].count > 0 /\ windows[b].count > 0

\* The windows divide the log: they have their type, every flow is in one of
\* them, and where gaps are filled none is left.
WindowsDivideLog == TypeOK /\ EachFlowOnce /\ NoGaps

\* The rolling context of n windows never misses a flow of the last n window
\* lengths; without gaps it is the summary of exactly these flows.
RollingReachesBack ==
  pc = "built" =>
    \A k \in DOMAIN windows, n \in RollingSizes :
      LET recent == FlowsIn(k[1], k[2] - (n - 1) * Width, k[2] + Width)
          rolled == Rolling(k, n)
      IN /\ rolled.count >= Cardinality(recent)
         /\ {flows[i].dst : i \in recent} \subseteq rolled.dsts
         /\ includeEmpty =>
              /\ rolled.count = Cardinality(recent)
              /\ rolled.failed = Cardinality({i \in recent : flows[i].failed})
              /\ rolled.dsts = {flows[i].dst : i \in recent}

\* What a row of the features says is what the log says, of its window and of
\* those before it.
RowsTellLog == WindowsDivideLog /\ RollingReachesBack

-----------------------------------------------------------------------------
(* Why it holds.                                                           *)

\* The loop of build_windows has a window for every flow it has come to, and
\* none without; it has come to all when the windows are filled or written.
BuildInv ==
  /\ pc = "read" => added = 0 /\ DOMAIN windows = {}
  /\ pc \in {"fill", "built"} => added = Len(flows)
  /\ \A i \in 1..added : KeyOf(flows[i]) \in DOMAIN windows
  /\ pc # "built" => \A k \in DOMAIN windows : windows[k].count > 0

WindowsInv == WindowsDivideLog /\ BuildInv
=============================================================================
