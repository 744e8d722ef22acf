-------------------------- MODULE DataScripts_proofs --------------------------
(***************************************************************************)
(* Proofs about the scripts after a collection, for any flows, events,     *)
(* windows, arguments and probabilities.  The windows divide the log and   *)
(* look back no further than they say, no attack is missed and none is     *)
(* blamed on two sources, no run is on both sides of the split, the        *)
(* sequences are those the plan counts and the report says so, and what a  *)
(* detection reports passes the validation.                                *)
(***************************************************************************)
EXTENDS Labels, SequenceReport, Alerts, FiniteSetTheorems, WellFoundedInduction, TLAPS

-----------------------------------------------------------------------------
(* Numbers and counting.                                                   *)

\* Division with a remainder, which is unique.
LEMMA Divides ==
  ASSUME NEW n \in Nat, NEW m \in Nat \ {0}
  PROVE  n \div m \in Nat /\ n % m \in 0..(m - 1) /\ n = (n \div m) * m + (n % m)
  OBVIOUS

LEMMA OneRemainder ==
  \A m \in Nat \ {0} : \A q, p \in Nat : \A r, s \in 0..(m - 1) :
    q * m + r = p * m + s => q = p /\ r = s
  OBVIOUS

LEMMA NoRemainder ==
  \A m \in Nat \ {0} : \A q, p \in Nat : \A r \in 0..(m - 1) : q * m = p * m + r => r = 0
  OBVIOUS

\* A window begins at a multiple of its width; no other one holds the same time.
LEMMA StartIs ==
  ASSUME NEW t \in Nat, NEW m \in Nat \ {0}
  PROVE  LET s == (t \div m) * m
         IN /\ s \in Nat /\ s % m = 0 /\ s <= t /\ t < s + m
            /\ \A u \in Nat : u % m = 0 /\ u <= t /\ t < u + m => u = s
  <1> DEFINE q == t \div m
             s == q * m
  <1>1. q \in Nat /\ t % m \in 0..(m - 1) /\ t = s + (t % m)
    BY Divides
  <1> HIDE DEF q
  <1>2. s \in Nat /\ s <= t /\ t < s + m
    BY <1>1
  <1>3. s % m = 0
    <2> DEFINE p == s \div m
               r == s % m
    <2>1. p \in Nat /\ r \in 0..(m - 1) /\ s = p * m + r
      BY <1>2, Divides
    <2> HIDE DEF p, r
    <2>2. r = 0
      BY <1>1, <2>1, NoRemainder
    <2> QED
      BY <2>2 DEF r
  <1>4. ASSUME NEW u \in Nat, u % m = 0, u <= t, t < u + m PROVE u = s
    <2> DEFINE p == u \div m
    <2>1. p \in Nat /\ u = p * m + 0
      BY <1>4, Divides
    <2> HIDE DEF p
    <2>2. t - u \in 0..(m - 1) /\ t - s \in 0..(m - 1)
      BY <1>2, <1>4
    <2>3. p * m + (t - u) = q * m + (t - s)
      BY <1>2, <2>1
    <2> HIDE DEF s
    <2>4. p = q
      BY <1>1, <2>1, <2>2, <2>3, OneRemainder
    <2> QED
      BY <2>1, <2>4 DEF s
  <1> QED
    BY <1>2, <1>3, <1>4 DEF q

\* Multiples of a number differ by at least that number.
LEMMA MultiplesApart ==
  ASSUME NEW m \in Nat \ {0}, NEW a \in Nat, NEW b \in Nat, a % m = 0, b % m = 0, a < b
  PROVE  a + m <= b /\ (a + m) % m = 0
  <1> DEFINE q == a \div m
             p == b \div m
  <1>1. q \in Nat /\ p \in Nat /\ a = q * m /\ b = p * m
    <2>1. q \in Nat /\ a = q * m + (a % m)
      BY Divides
    <2>2. p \in Nat /\ b = p * m + (b % m)
      BY Divides
    <2> HIDE DEF q, p
    <2> QED
      BY <2>1, <2>2
  <1> HIDE DEF q, p
  <1>2. q < p
    <2>1. SUFFICES ASSUME p <= q PROVE FALSE
      BY <1>1
    <2>2. p * m <= q * m
      BY <1>1, <2>1
    <2> QED
      BY <1>1, <2>2
  <1>3. (q + 1) * m <= p * m
    BY <1>1, <1>2
  <1>4. a + m = (q + 1) * m
    BY <1>1
  <1>5. (a + m) % m = 0
    <2> DEFINE n == a + m
               r == n % m
               d == n \div m
    <2>1. n \in Nat
      OBVIOUS
    <2>2. d \in Nat /\ r \in 0..(m - 1) /\ n = d * m + r
      BY <2>1, Divides
    <2>3. n = (q + 1) * m /\ q + 1 \in Nat
      BY <1>1, <1>4
    <2> HIDE DEF d, r, n
    <2>4. r = 0
      BY <2>2, <2>3, NoRemainder
    <2> QED
      BY <2>4 DEF r, n
  <1> QED
    BY <1>1, <1>3, <1>4, <1>5

\* A set of positions that gains one.
LEMMA CountIs ==
  ASSUME NEW n \in Nat, NEW S, S \subseteq 1..n
  PROVE  IsFiniteSet(S) /\ Cardinality(S) \in Nat /\ Cardinality(S) <= n
  <1>1. IsFiniteSet(1..n) /\ Cardinality(1..n) = n
    BY FS_Interval
  <1>2. IsFiniteSet(S) /\ Cardinality(S) <= Cardinality(1..n)
    BY <1>1, FS_Subset
  <1> QED
    BY <1>1, <1>2, FS_CardinalityType

LEMMA CountGrows ==
  ASSUME NEW n \in Nat, NEW S, S \subseteq 1..n, NEW x, x \notin S
  PROVE  Cardinality(S \cup {x}) = Cardinality(S) + 1
  BY CountIs, FS_AddElement

-----------------------------------------------------------------------------
(* The windows.                                                            *)

LEMMA FlowIs ==
  \A f \in Flow : f.ts \in Nat /\ f.src # Unset
  BY DEF Flow, Unset

\* The window of a flow is the only one that may hold it.
LEMMA KeyIs ==
  ASSUME NEW f \in FlowSet
  PROVE  /\ KeyOf(f) \in Sources \X Nat /\ KeyOf(f)[1] = f.src
         /\ KeyOf(f)[2] % Width = 0 /\ KeyOf(f)[2] <= f.ts /\ f.ts < KeyOf(f)[2] + Width
         /\ \A k \in Sources \X Nat :
              f.src = k[1] /\ k[2] % Width = 0 /\ k[2] <= f.ts /\ f.ts < k[2] + Width => k = KeyOf(f)
  <1>1. f.ts \in Nat /\ f.src \in Sources /\ Width \in Nat \ {0}
    BY WindowsAssumption DEF Flow, Sources
  <1> DEFINE s == StartOf(f)
  <1>2. /\ s \in Nat /\ s % Width = 0 /\ s <= f.ts /\ f.ts < s + Width
        /\ \A u \in Nat : u % Width = 0 /\ u <= f.ts /\ f.ts < u + Width => u = s
    BY <1>1, StartIs DEF StartOf
  <1> HIDE DEF s
  <1>3. KeyOf(f) = <<f.src, s>>
    BY DEF KeyOf, s
  <1> QED
    BY <1>1, <1>2, <1>3

\* The members of a window are flows that have been added.
LEMMA MembersAre ==
  ASSUME TypeOK, NEW k \in Sources \X Nat, k[2] % Width = 0
  PROVE  /\ Members(k) \subseteq 1..added /\ added \in Nat
         /\ \A i \in 1..added : flows[i] \in FlowSet /\ (i \in Members(k) <=> KeyOf(flows[i]) = k)
  <1>1. added \in Nat /\ \A i \in 1..added : flows[i] \in FlowSet
    BY DEF TypeOK
  <1>2. ASSUME NEW i \in 1..added PROVE i \in Members(k) <=> KeyOf(flows[i]) = k
    BY <1>1, KeyIs DEF Members, FlowsIn
  <1> QED
    BY <1>1, <1>2 DEF Members, FlowsIn

\* A window with one more flow.
LEMMA WithIs ==
  ASSUME NEW w \in Window, NEW f \in FlowSet
  PROVE  With(w, f) \in Window /\ With(w, f).count > 0
  <1>1. w.count + 1 \in Nat /\ w.count + 1 > 0 /\ w.failed + (IF f.failed THEN 1 ELSE 0) \in Nat
    BY DEF Window
  <1>2. /\ w.dsts \cup {f.dst} \in SUBSET {g.dst : g \in FlowSet}
        /\ w.ports \cup {f.port} \in SUBSET {g.port : g \in FlowSet}
        /\ w.protos \cup {f.proto} \in SUBSET {g.proto : g \in FlowSet}
    BY DEF Window
  <1> QED
    BY <1>1, <1>2 DEF With, Window

\* It is the summary of the flows it had and the new one.
LEMMA Summarised ==
  ASSUME TypeOK, NEW w \in Window, NEW M, M \subseteq 1..added, Summarises(w, M),
         NEW n, n \notin M
  PROVE  Summarises(With(w, flows[n]), M \cup {n})
  <1>1. added \in Nat
    BY DEF TypeOK
  <1>2. Cardinality(M \cup {n}) = Cardinality(M) + 1
    BY <1>1, CountGrows
  <1> DEFINE F == {i \in M : flows[i].failed}
  <1>3. Cardinality({i \in M \cup {n} : flows[i].failed}) =
          Cardinality(F) + (IF flows[n].failed THEN 1 ELSE 0)
    <2>1. F \subseteq 1..added /\ n \notin F
      OBVIOUS
    <2>2. CASE flows[n].failed
      <3>1. {i \in M \cup {n} : flows[i].failed} = F \cup {n}
        BY <2>2
      <3> HIDE DEF F
      <3>2. Cardinality(F \cup {n}) = Cardinality(F) + 1
        BY <1>1, <2>1, CountGrows
      <3> QED
        BY <2>2, <3>1, <3>2
    <2>3. CASE ~flows[n].failed
      <3>1. {i \in M \cup {n} : flows[i].failed} = F
        BY <2>3
      <3> HIDE DEF F
      <3>2. Cardinality(F) \in Nat
        BY <1>1, <2>1, CountIs
      <3>3. Cardinality({i \in M \cup {n} : flows[i].failed}) = Cardinality(F)
        BY <3>1
      <3> QED
        BY <2>3, <3>2, <3>3
    <2> QED
      BY <2>2, <2>3
  <1>4. /\ {flows[i].dst : i \in M \cup {n}} = {flows[i].dst : i \in M} \cup {flows[n].dst}
        /\ {flows[i].port : i \in M \cup {n}} = {flows[i].port : i \in M} \cup {flows[n].port}
        /\ {flows[i].proto : i \in M \cup {n}} = {flows[i].proto : i \in M} \cup {flows[n].proto}
    OBVIOUS
  <1> QED
    BY <1>2, <1>3, <1>4 DEF Summarises, With

\* The window that setdefault makes is the summary of nothing.
LEMMA NoFlowsIs == NoFlows \in Window /\ Summarises(NoFlows, {})
  <1>1. Cardinality({}) = 0
    BY FS_EmptySet
  <1>2. {i \in {} : flows[i].failed} = {}
    OBVIOUS
  <1> QED
    BY <1>1, <1>2 DEF NoFlows, Window, Summarises

\* Adding a flow to its window.
LEMMA BuildNext ==
  ASSUME WindowsInv, Build PROVE WindowsInv'
  <1> USE DEF WindowsInv, WindowsDivideLog
  <1>0. PICK n, f : n = added + 1 /\ f = flows[n]
    OBVIOUS
  <1> DEFINE key == KeyOf(f)
  <1>1. /\ pc = "build" /\ pc' = "build" /\ added < Len(flows) /\ added' = n
        /\ UNCHANGED <<includeEmpty, flows>>
        /\ windows' = [k \in DOMAIN windows \cup {key} |->
                         IF k = key THEN With(WindowAt(k), f) ELSE windows[k]]
    BY <1>0 DEF Build
  <1>2. added \in Nat /\ n \in 1..Len(flows) /\ f \in FlowSet /\ 1..n = 1..added \cup {n} /\ n \notin 1..added
    BY <1>0, <1>1 DEF TypeOK
  <1>3. /\ key \in Sources \X Nat /\ key[2] % Width = 0
        /\ DOMAIN windows' = DOMAIN windows \cup {key}
        /\ windows'[key] = With(WindowAt(key), f)
        /\ \A k \in DOMAIN windows : k # key => windows'[k] = windows[k]
    BY <1>1, <1>2, KeyIs
  <1>4. \A k \in DOMAIN windows : k \in Sources \X Nat /\ k[2] % Width = 0 /\ windows[k] \in Window
    BY DEF TypeOK, EachFlowOnce
  <1>5. WindowAt(key) \in Window /\ Summarises(WindowAt(key), Members(key))
    <2>1. CASE key \in DOMAIN windows
      BY <1>4, <2>1 DEF WindowAt, EachFlowOnce
    <2>2. CASE key \notin DOMAIN windows
      <3>1. Members(key) = {}
        BY <1>3, <2>2, MembersAre DEF BuildInv
      <3> QED
        BY <2>2, <3>1, NoFlowsIs DEF WindowAt
    <2> QED
      BY <2>1, <2>2
  <1>6. windows'[key] \in Window /\ windows'[key].count > 0
    BY <1>2, <1>3, <1>5, WithIs
  <1>7. /\ Members(key)' = Members(key) \cup {n}
        /\ \A k \in DOMAIN windows : k # key => Members(k)' = Members(k)
    <2>1. ASSUME NEW k \in Sources \X Nat, k[2] % Width = 0
          PROVE  Members(k)' = IF k = key THEN Members(k) \cup {n} ELSE Members(k)
      <3>1. f.src = k[1] /\ k[2] <= f.ts /\ f.ts < k[2] + Width <=> k = key
        BY <1>2, <2>1, KeyIs
      <3>2. Members(k)' = {i \in 1..n : flows[i].src = k[1] /\ k[2] <= flows[i].ts /\ flows[i].ts < k[2] + Width}
        BY <1>1 DEF Members, FlowsIn
      <3>3. Members(k) = {i \in 1..added : flows[i].src = k[1] /\ k[2] <= flows[i].ts /\ flows[i].ts < k[2] + Width}
        BY DEF Members, FlowsIn
      <3> HIDE DEF key
      <3> QED
        BY <1>0, <1>2, <3>1, <3>2, <3>3
    <2> QED
      BY <1>3, <1>4, <2>1
  <1>8. \A k \in DOMAIN windows' : k[2] % Width = 0 /\ Summarises(windows'[k], Members(k)')
    <2>1. n \notin Members(key) /\ Members(key) \subseteq 1..added
      BY <1>2, <1>3, MembersAre
    <2>2. Summarises(windows'[key], Members(key)')
      <3> DEFINE w == WindowAt(key)
                 M == Members(key)
      <3>1. w \in Window /\ Summarises(w, M) /\ M \subseteq 1..added /\ n \notin M /\ TypeOK
        BY <1>5, <2>1
      <3> HIDE DEF w, M
      <3>2. Summarises(With(w, flows[n]), M \cup {n})
        BY <3>1, Summarised
      <3>3. windows'[key] = With(w, flows[n]) /\ Members(key)' = M \cup {n}
        BY <1>0, <1>3, <1>7 DEF w, M
      <3> QED
        BY <3>2, <3>3
    <2> HIDE DEF key
    <2>3. ASSUME NEW k \in DOMAIN windows, k # key PROVE Summarises(windows'[k], Members(k)')
      BY <1>3, <1>7, <2>3 DEF EachFlowOnce
    <2> QED
      BY <1>3, <1>4, <2>2, <2>3
  <1>9. TypeOK'
    BY <1>1, <1>2, <1>3, <1>4, <1>6 DEF TypeOK
  <1>10. \A i \in 1..added' : KeyOf(flows[i]) \in DOMAIN windows'
    BY <1>0, <1>1, <1>2, <1>3 DEF BuildInv
  <1>11. BuildInv'
    BY <1>1, <1>3, <1>6, <1>10 DEF BuildInv, KeyOf, StartOf
  <1>12. EachFlowOnce'
    <2>1. ASSUME NEW i \in 1..n PROVE \E k \in DOMAIN windows' : i \in Members(k)'
      <3>1. CASE i = n
        BY <1>0, <1>3, <1>7, <3>1
      <3>2. CASE i # n
        <4>1. i \in 1..added /\ KeyOf(flows[i]) \in DOMAIN windows
          BY <1>2, <3>2 DEF BuildInv
        <4>2. i \in Members(KeyOf(flows[i]))
          BY <1>4, <4>1, MembersAre
        <4> QED
          BY <1>3, <1>7, <4>1, <4>2
      <3> QED
        BY <3>1, <3>2
    <2>2. \A k \in DOMAIN windows' : Summarises(windows'[k], Members(k)') <=> Summarises(windows[k], Members(k))'
      BY <1>1 DEF Summarises
    <2> QED
      BY <1>1, <1>8, <2>1, <2>2 DEF EachFlowOnce
  <1>13. NoGaps'
    BY <1>1 DEF NoGaps
  <1> QED
    BY <1>9, <1>11, <1>12, <1>13

\* The starts that a source's windows span.
LEMMA SpanIs ==
  ASSUME WindowsInv, NEW s \in Sources
  PROVE  /\ Span(s) \subseteq {t \in Nat : t % Width = 0}
         /\ \A t \in Nat : t \in Span(s) <=>
              t % Width = 0 /\ \E a, b \in StartsOf(s) : a <= t /\ t <= b
         /\ \A t : t \in StartsOf(s) <=> <<s, t>> \in DOMAIN windows
  <1>1. \A k \in DOMAIN windows : k \in Sources \X Nat
    BY DEF WindowsInv, WindowsDivideLog, TypeOK
  <1>2. \A t : t \in StartsOf(s) <=> <<s, t>> \in DOMAIN windows
    BY <1>1 DEF StartsOf
  <1>3. ASSUME NEW t \in StartsOf(s) PROVE t \in Nat
    <2>1. <<s, t>> \in Sources \X Nat
      BY <1>1, <1>2
    <2> QED
      BY <2>1
  <1>4. \A t : t \in Span(s) <=>
          /\ \E b \in StartsOf(s) : t \in 0..b
          /\ t % Width = 0 /\ \E a \in StartsOf(s) : a <= t
    BY DEF Span
  <1>5. Span(s) \subseteq {t \in Nat : t % Width = 0}
    BY <1>3, <1>4
  <1>6. ASSUME NEW t \in Nat
        PROVE  t \in Span(s) <=> t % Width = 0 /\ \E a, b \in StartsOf(s) : a <= t /\ t <= b
    BY <1>3, <1>4
  <1> QED
    BY <1>2, <1>5, <1>6

\* Filling the gaps.
LEMMA FillNext ==
  ASSUME WindowsInv, Fill PROVE WindowsInv'
  <1> USE DEF WindowsInv, WindowsDivideLog
  <1> DEFINE filled == UNION {{s} \X Span(s) : s \in Sources}
  <1>1. /\ pc = "fill" /\ pc' = "built" /\ UNCHANGED <<includeEmpty, flows, added>>
        /\ windows' = [k \in DOMAIN windows \cup filled |-> WindowAt(k)]
    BY DEF Fill
  <1>2. \A k \in DOMAIN windows : k \in Sources \X Nat /\ k[2] % Width = 0 /\ windows[k] \in Window
    BY DEF TypeOK, EachFlowOnce
  <1>3. \A k \in filled : k \in Sources \X Nat /\ k[2] % Width = 0 /\ k[2] \in Span(k[1])
    BY SpanIs
  <1>4. \A s \in Sources : \A t \in Span(s) : <<s, t>> \in filled
    OBVIOUS
  <1> HIDE DEF filled
  <1>5. /\ DOMAIN windows' = DOMAIN windows \cup filled
        /\ \A k \in DOMAIN windows : windows'[k] = windows[k]
        /\ \A k \in filled : k \notin DOMAIN windows => windows'[k] = NoFlows
    BY <1>1 DEF WindowAt
  <1>6. \A k : Members(k)' = Members(k)
    BY <1>1 DEF Members, FlowsIn
  <1>7. ASSUME NEW k \in DOMAIN windows'
        PROVE  /\ k \in Sources \X Nat /\ k[2] % Width = 0
               /\ windows'[k] \in Window /\ Summarises(windows'[k], Members(k))
    <2>1. CASE k \in DOMAIN windows
      BY <1>2, <1>5, <2>1 DEF EachFlowOnce
    <2>2. CASE k \notin DOMAIN windows
      <3>1. k \in filled /\ windows'[k] = NoFlows
        BY <1>5, <2>2
      <3>2. Members(k) = {}
        BY <1>3, <2>2, <3>1, MembersAre DEF BuildInv
      <3> QED
        BY <1>3, <3>1, <3>2, NoFlowsIs
    <2> QED
      BY <2>1, <2>2
  <1>8. TypeOK'
    BY <1>1, <1>7 DEF TypeOK
  <1>9. EachFlowOnce'
    <2>1. \A k \in DOMAIN windows' : k[2] % Width = 0 /\ Summarises(windows'[k], Members(k)')
      BY <1>6, <1>7
    <2>2. \A i \in 1..added' : \E k \in DOMAIN windows' : i \in Members(k)'
      BY <1>1, <1>5, <1>6 DEF EachFlowOnce
    <2>3. \A k \in DOMAIN windows' : Summarises(windows'[k], Members(k)') <=> Summarises(windows[k], Members(k))'
      BY <1>1 DEF Summarises
    <2> QED
      BY <2>1, <2>2, <2>3 DEF EachFlowOnce
  <1>10. BuildInv'
    BY <1>1, <1>5 DEF BuildInv, KeyOf, StartOf
  <1>11. NoGaps'
    <2> SUFFICES ASSUME NEW j \in DOMAIN windows', NEW k \in DOMAIN windows',
                        j[1] = k[1], j[2] < k[2]
                 PROVE  /\ <<j[1], j[2] + Width>> \in DOMAIN windows'
                        /\ \E a, b \in DOMAIN windows' :
                             /\ a[1] = j[1] /\ b[1] = j[1] /\ a[2] <= j[2] /\ k[2] <= b[2]
                             /\ windows'[a].count > 0 /\ windows'[b].count > 0
      BY DEF NoGaps
    <2> DEFINE s == j[1]
    <2>1. s \in Sources /\ j[2] \in Nat /\ k[2] \in Nat /\ j[2] % Width = 0 /\ k[2] % Width = 0
      BY <1>7
    <2>2. ASSUME NEW i \in DOMAIN windows', i[1] = s PROVE i[2] \in Span(s)
      <3>1. CASE i \in DOMAIN windows
        <4>1. i = <<s, i[2]>> /\ i[2] \in Nat /\ i[2] % Width = 0
          BY <1>2, <2>2, <3>1
        <4>2. i[2] \in StartsOf(s)
          BY <2>1, <3>1, <4>1, SpanIs
        <4> QED
          BY <2>1, <4>1, <4>2, SpanIs
      <3>2. CASE i \in filled
        BY <1>3, <2>2, <3>2
      <3> QED
        BY <1>5, <3>1, <3>2
    <2> HIDE DEF s
    <2>3. PICK a \in StartsOf(s) : a <= j[2]
      BY <2>1, <2>2, SpanIs DEF s
    <2>4. PICK b \in StartsOf(s) : k[2] <= b
      BY <2>1, <2>2, SpanIs DEF s
    <2>5. <<s, a>> \in DOMAIN windows /\ <<s, b>> \in DOMAIN windows /\ a \in Nat /\ b \in Nat
      BY <1>2, <2>1, <2>3, <2>4, SpanIs
    <2>6. j[2] + Width <= k[2] /\ (j[2] + Width) % Width = 0 /\ Width \in Nat
      BY <2>1, MultiplesApart, WindowsAssumption
    <2>7. j[2] + Width \in Span(s)
      BY <2>1, <2>3, <2>4, <2>5, <2>6, SpanIs
    <2>8. <<s, j[2] + Width>> \in DOMAIN windows'
      BY <1>4, <1>5, <2>1, <2>7
    <2>9. windows[<<s, a>>].count > 0 /\ windows[<<s, b>>].count > 0
      BY <1>1, <2>5 DEF BuildInv
    <2>10. \E x, y \in DOMAIN windows' :
             /\ x[1] = s /\ y[1] = s /\ x[2] <= j[2] /\ k[2] <= y[2]
             /\ windows'[x].count > 0 /\ windows'[y].count > 0
      <3>1. <<s, a>> \in DOMAIN windows' /\ <<s, b>> \in DOMAIN windows'
        BY <1>5, <2>5
      <3>2. windows'[<<s, a>>].count > 0 /\ windows'[<<s, b>>].count > 0
        BY <1>5, <2>5, <2>9
      <3>3. <<s, a>>[1] = s /\ <<s, b>>[1] = s /\ <<s, a>>[2] <= j[2] /\ k[2] <= <<s, b>>[2]
        BY <2>3, <2>4
      <3> QED
        BY <3>1, <3>2, <3>3
    <2> QED
      BY <2>8, <2>10 DEF s
  <1> QED
    BY <1>8, <1>9, <1>10, <1>11

LEMMA WindowsInit ==
  Init => WindowsInv
  <1> SUFFICES ASSUME Init PROVE WindowsInv
    OBVIOUS
  <1>1. DOMAIN windows = {} /\ flows = << >> /\ added = 0 /\ pc = "read" /\ includeEmpty \in BOOLEAN
    BY DEF Init
  <1>2. TypeOK
    BY <1>1 DEF TypeOK
  <1>3. EachFlowOnce /\ NoGaps /\ BuildInv
    BY <1>1 DEF EachFlowOnce, NoGaps, BuildInv
  <1> QED
    BY <1>2, <1>3 DEF WindowsInv, WindowsDivideLog

LEMMA WindowsNext ==
  WindowsInv /\ [Next]_vars => WindowsInv'
  <1> SUFFICES ASSUME WindowsInv, [Next]_vars PROVE WindowsInv'
    OBVIOUS
  <1>1. ASSUME NEW f \in FlowSet, Read(f) PROVE WindowsInv'
    <2>1. /\ pc = "read" /\ flows' = Append(flows, f)
          /\ UNCHANGED <<includeEmpty, added, windows, pc>>
      BY <1>1 DEF Read
    <2>2. added = 0 /\ DOMAIN windows = {} /\ added' = 0 /\ DOMAIN windows' = {} /\ pc' = "read"
      BY <2>1 DEF WindowsInv, BuildInv
    <2>3. TypeOK'
      BY <2>1, <2>2 DEF WindowsInv, WindowsDivideLog, TypeOK
    <2>4. EachFlowOnce' /\ NoGaps' /\ BuildInv'
      BY <2>2 DEF EachFlowOnce, NoGaps, BuildInv
    <2> QED
      BY <2>3, <2>4 DEF WindowsInv, WindowsDivideLog
  <1>2. ASSUME UNCHANGED <<includeEmpty, flows, added, windows>>,
               \/ pc' = pc
               \/ pc = "read" /\ pc' = "build"
               \/ pc = "build" /\ added = Len(flows) /\ pc' = IF includeEmpty THEN "fill" ELSE "built"
        PROVE  WindowsInv'
    <2>1. TypeOK'
      BY <1>2 DEF WindowsInv, WindowsDivideLog, TypeOK
    <2>2. EachFlowOnce'
      <3>1. \A k : Members(k)' = Members(k)
        BY <1>2 DEF Members, FlowsIn
      <3>2. \A k \in DOMAIN windows' : Summarises(windows'[k], Members(k)') <=> Summarises(windows[k], Members(k))'
        BY <1>2 DEF Summarises
      <3>3. \A k \in DOMAIN windows' : k[2] % Width = 0 /\ Summarises(windows'[k], Members(k)')
        BY <1>2, <3>1 DEF WindowsInv, WindowsDivideLog, EachFlowOnce
      <3> QED
        BY <1>2, <3>1, <3>2, <3>3 DEF WindowsInv, WindowsDivideLog, EachFlowOnce
    <2>3. NoGaps'
      BY <1>2 DEF WindowsInv, WindowsDivideLog, NoGaps
    <2>4. BuildInv'
      BY <1>2 DEF WindowsInv, WindowsDivideLog, BuildInv, KeyOf, StartOf
    <2> QED
      BY <2>1, <2>2, <2>3, <2>4 DEF WindowsInv, WindowsDivideLog
  <1>3. CASE ReadEnds
    BY <1>2, <1>3 DEF ReadEnds
  <1>4. CASE Build
    BY <1>4, BuildNext
  <1>5. CASE BuildEnds
    BY <1>2, <1>5 DEF BuildEnds
  <1>6. CASE Fill
    BY <1>6, FillNext
  <1>7. CASE UNCHANGED vars
    BY <1>2, <1>7 DEF vars
  <1> QED
    BY <1>1, <1>3, <1>4, <1>5, <1>6, <1>7 DEF Next

\* The loop of build_windows loses no flow, counts none twice and puts none in
\* the window of another source or time, and where --include-empty fills the
\* gaps none is left: for any log, in any order, and any --window-seconds.
THEOREM WindowsDivide == Spec => []WindowsDivideLog
  <1>1. WindowsInv => WindowsDivideLog
    BY DEF WindowsInv
  <1> QED
    BY <1>1, WindowsInit, WindowsNext, PTL DEF Spec

-----------------------------------------------------------------------------
(* The addresses that names stand for.                                     *)

LEMMA LeastIs ==
  ASSUME NEW S, S \subseteq Nat, S # {}
  PROVE  \E x \in S : \A y \in S : x <= y
  <1> DEFINE Less == {pair \in Nat \X Nat : pair[1] < pair[2]}
  <1>1. IsWellFoundedOn(Less, Nat)
    BY NatLessThanWellFounded, Zenon DEF OpToRel
  <1>2. PICK x \in S : \A y \in S : ~ (<<y, x>> \in Less)
    <2> HIDE DEF Less
    <2> QED
      BY <1>1, WFMin
  <1>3. ASSUME NEW y \in S PROVE x <= y
    <2>1. x \in Nat /\ y \in Nat
      OBVIOUS
    <2>2. ~ (y < x)
      BY <1>2, <2>1
    <2> QED
      BY <2>1, <2>2
  <1> QED
    BY <1>3

\* Of several pairs one comes first.
LEMMA FirstPair ==
  ASSUME NEW Q, Q \subseteq Nat \X Nat, Q # {}
  PROVE  \E p \in Q : \A q \in Q : Precedes(p, q)
  <1>1. PICK x \in {q[1] : q \in Q} : \A y \in {q[1] : q \in Q} : x <= y
    <2>1. {q[1] : q \in Q} \subseteq Nat /\ {q[1] : q \in Q} # {}
      OBVIOUS
    <2> QED
      BY <2>1, LeastIs
  <1> DEFINE R == {q \in Q : q[1] = x}
  <1>2. PICK z \in {q[2] : q \in R} : \A y \in {q[2] : q \in R} : z <= y
    <2>1. {q[2] : q \in R} \subseteq Nat /\ {q[2] : q \in R} # {}
      BY <1>1
    <2> HIDE DEF R
    <2> QED
      BY <2>1, LeastIs
  <1>3. PICK p \in Q : p[1] = x /\ p[2] = z
    BY <1>2
  <1>4. ASSUME NEW q \in Q PROVE Precedes(p, q)
    <2>1. p[1] <= q[1]
      BY <1>1, <1>3
    <2>2. q[1] = p[1] => p[2] <= q[2]
      BY <1>2, <1>3
    <2>3. p[1] \in Nat /\ q[1] \in Nat
      OBVIOUS
    <2> QED
      BY <2>1, <2>2, <2>3 DEF Precedes
  <1> QED
    BY <1>4

\* Where there are votes, the most common address is one voted for.
LEMMA MostCommonIs ==
  ASSUME NEW m \in Nat, NEW n \in Nat, NEW votes,
         DOMAIN votes \subseteq (1..m) \X (1..n), DOMAIN votes # {}
  PROVE  \E p \in DOMAIN votes : MostCommon(votes) = votes[p]
  <1> DEFINE V      == DOMAIN votes
             For(a) == {p \in V : votes[p] = a}
             seen   == Range(votes)
             best   == {a \in seen : \A b \in seen : Cardinality(For(a)) >= Cardinality(For(b))}
             First(a) == \E p \in For(a) : \A b \in best : \A q \in For(b) : Precedes(p, q)
  <1>0. seen = {votes[p] : p \in V} /\ seen # {}
    BY DEF Range
  <1>1. MostCommon(votes) = CHOOSE a \in best : First(a)
    BY <1>0 DEF MostCommon
  <1> HIDE DEF seen, V
  <1>2. IsFiniteSet(V)
    <2>0. IsFiniteSet(1..m) /\ IsFiniteSet(1..n)
      BY FS_Interval
    <2>1. IsFiniteSet((1..m) \X (1..n))
      BY <2>0, FS_Product
    <2> QED
      BY <2>1, FS_Subset DEF V
  <1>3. \A a : For(a) \subseteq V
    OBVIOUS
  <1>4. \A a : Cardinality(For(a)) \in Nat /\ Cardinality(For(a)) <= Cardinality(V)
    <2> HIDE DEF For
    <2> QED
      BY <1>2, <1>3, FS_Subset, FS_CardinalityType
  <1>5. Cardinality(V) \in Nat
    BY <1>2, FS_CardinalityType
  <1>6. seen # {} /\ \A a \in seen : For(a) # {}
    BY <1>0
  <1>7. best # {}
    <2> DEFINE behind == {Cardinality(V) - Cardinality(For(a)) : a \in seen}
    <2> HIDE DEF seen, For
    <2>1. behind \subseteq Nat /\ behind # {}
      BY <1>4, <1>5, <1>6
    <2> HIDE DEF behind
    <2>2. PICK x \in behind : \A y \in behind : x <= y
      BY <2>1, LeastIs
    <2>3. PICK a \in seen : x = Cardinality(V) - Cardinality(For(a))
      BY <2>2 DEF behind
    <2>4. ASSUME NEW b \in seen PROVE Cardinality(For(a)) >= Cardinality(For(b))
      <3>1. Cardinality(V) - Cardinality(For(b)) \in behind
        BY DEF behind
      <3>2. Cardinality(V) - Cardinality(For(a)) <= Cardinality(V) - Cardinality(For(b))
        BY <2>2, <2>3, <3>1
      <3> QED
        BY <1>4, <1>5, <3>2
    <2> QED
      BY <2>4
  <1>8. \E a \in best : First(a)
    <2> DEFINE Q == {q \in V : \E b \in best : q \in For(b)}
    <2>1. best \subseteq seen
      OBVIOUS
    <2>2. Q \subseteq Nat \X Nat
      BY DEF V
    <2> HIDE DEF best, seen, For
    <2>3. Q # {}
      BY <1>3, <1>6, <1>7, <2>1
    <2>4. PICK p \in Q : \A q \in Q : Precedes(p, q)
      <3> HIDE DEF Q
      <3> QED
        BY <2>2, <2>3, FirstPair
    <2>5. PICK a \in best : p \in For(a)
      BY <2>4
    <2>6. \A b \in best : \A q \in For(b) : Precedes(p, q)
      BY <1>3, <2>4
    <2> QED
      BY <2>5, <2>6
  <1> HIDE DEF First
  <1>9. MostCommon(votes) \in best
    <2> HIDE DEF best
    <2> QED
      BY <1>1, <1>8
  <1> QED
    BY <1>0, <1>9 DEF V

-----------------------------------------------------------------------------
(* The labels.                                                             *)

LEMMA TruthIs ==
  ASSUME RowsInv
  PROVE  /\ Loaded \subseteq 1..Len(truth) /\ Len(truth) \in Nat
         /\ \A i \in Loaded : truth[i] \in Event
         /\ \A e \in Events : e \in Event /\ \E i \in Loaded : truth[i] = e
  BY LabelsAssumption DEF RowsInv, Loaded, Events

\* Only phases that are named count, and there are finitely many of them.
LEMMA PhasesAre ==
  ASSUME RowsInv, NEW k
  PROVE  LET phases == {e.phase : e \in Matches(k)} \ {Unset}
         IN Cardinality(phases) \in Nat /\ (Cardinality(phases) = 0 <=> phases = {})
  <1> DEFINE all == {truth[i].phase : i \in Loaded}
             f   == [i \in Loaded |-> truth[i].phase]
             phases == {e.phase : e \in Matches(k)} \ {Unset}
  <1>1. IsFiniteSet(Loaded)
    BY TruthIs, CountIs
  <1>2. f \in Surjection(Loaded, all)
    BY DEF Surjection
  <1>3. IsFiniteSet(all)
    <2> HIDE DEF all, f
    <2> QED
      BY <1>1, <1>2, FS_Surjection
  <1>4. phases \subseteq all
    BY TruthIs DEF Matches
  <1> HIDE DEF phases, all
  <1>5. IsFiniteSet(phases)
    BY <1>3, <1>4, FS_Subset
  <1>6. Cardinality(phases) \in Nat /\ (Cardinality(phases) = 0 <=> phases = {})
    BY <1>5, FS_CardinalityType, FS_EmptySet
  <1> QED
    BY <1>6 DEF phases

LEMMA AttackIsFound ==
  ASSUME LabelsInv PROVE AttackFound
  <1> SUFFICES ASSUME rows # << >>, NEW i \in DOMAIN flows, NEW e \in Events, CarriesOut(flows[i], e)
               PROVE  LET row == rows[KeyOf(flows[i])]
                      IN /\ e.label \in row.labels \/ row.labels = {"attack"}
                         /\ e.phase \in row.phases \cup {Unset}
    BY DEF AttackFound
  <1> DEFINE f   == flows[i]
             key == KeyOf(flows[i])
  <1>1. /\ pc = "built" /\ rows = [k \in DOMAIN windows |-> RowFor(k)]
        /\ i \in 1..added /\ TypeOK /\ f \in FlowSet
    BY DEF LabelsInv, RowsInv, WindowsInv, WindowsDivideLog, BuildInv, TypeOK
  <1>2. key \in DOMAIN windows /\ key[2] % Width = 0 /\ Summarises(windows[key], Members(key))
    BY <1>1 DEF LabelsInv, WindowsInv, WindowsDivideLog, BuildInv, EachFlowOnce
  <1>3. /\ key \in Sources \X Nat /\ key[1] = f.src
        /\ key[2] <= f.ts /\ f.ts < key[2] + Width
    BY <1>1, KeyIs
  <1>4. i \in Members(key)
    BY <1>1, <1>2, <1>3, MembersAre
  <1> HIDE DEF key
  <1>5. f.dst \in windows[key].dsts /\ f.port \in windows[key].ports /\ f.proto \in windows[key].protos
    BY <1>2, <1>4 DEF Summarises
  <1>6. e \in Event /\ f.ts \in Nat /\ Width \in Nat \ {0}
    <2>1. e \in Event
      BY TruthIs DEF LabelsInv
    <2>2. Width \in Nat \ {0} /\ f \in Flow
      BY <1>1, WindowsAssumption
    <2> HIDE DEF f
    <2>3. f.ts \in Nat
      BY <2>2, FlowIs
    <2> QED
      BY <2>1, <2>2, <2>3
  <1>7. Overlap(key[2], key[2] + Width, e.start, e.end)
    <2>1. e.start \in Nat /\ e.end \in Nat /\ key[2] \in Nat
      BY <1>3, <1>6 DEF Event
    <2>2. e.start <= f.ts /\ (f.ts < e.end \/ (f.ts = e.start /\ e.start = e.end))
      BY DEF CarriesOut
    <2> HIDE DEF f
    <2> QED
      BY <1>3, <1>6, <2>1, <2>2 DEF Overlap
  <1>8. WindowMatches(key, e)
    BY <1>3, <1>5, <1>7 DEF WindowMatches, CarriesOut
  <1>9. e \in Matches(key)
    BY <1>8 DEF Matches
  <1>10. rows[key] = RowFor(key)
    BY <1>1, <1>2
  <1>11. e.label \in RowFor(key).labels \/ RowFor(key).labels = {"attack"}
    BY <1>9 DEF RowFor
  <1>12. e.phase \in RowFor(key).phases \cup {Unset}
    BY <1>9 DEF RowFor
  <1> QED
    BY <1>10, <1>11, <1>12 DEF key

LEMMA OneIsBlamed ==
  ASSUME LabelsInv PROVE OneCulprit
  <1> SUFFICES ASSUME NEW e \in Events, e.source # Unset, NEW i \in DOMAIN flows, FlowMatches(flows[i], e),
                      NEW j, NEW k, WindowMatches(j, e), WindowMatches(k, e)
               PROVE  j[1] = k[1]
    BY DEF OneCulprit
  <1> DEFINE votes == {p \in Pairs : /\ truth[p[1]].source = e.source
                                     /\ FlowMatches(flows[p[2]], truth[p[1]])}
             ballot == [p \in votes |-> flows[p[2]].src]
  <1>1. /\ Loaded \subseteq 1..Len(truth) /\ Len(truth) \in Nat
        /\ \E n \in Loaded : truth[n] = e
    BY TruthIs DEF LabelsInv
  <1>2. Len(flows) \in Nat /\ DOMAIN flows = 1..Len(flows) /\ \A n \in DOMAIN flows : flows[n] \in Flow
    BY WindowsAssumption DEF LabelsInv, WindowsInv, WindowsDivideLog, TypeOK
  <1>3. votes \subseteq (1..Len(truth)) \X (1..Len(flows))
    BY <1>1, <1>2 DEF Pairs
  <1>4. votes # {}
    <2>1. PICK n \in Loaded : truth[n] = e
      BY <1>1
    <2>2. <<n, i>> \in votes
      BY <2>1 DEF Pairs
    <2> QED
      BY <2>2
  <1>5. SourceIp(e.source) = MostCommon(ballot)
    BY DEF SourceIp
  <1> HIDE DEF votes
  <1>6. PICK p \in votes : SourceIp(e.source) = flows[p[2]].src
    <2>1. DOMAIN ballot = votes /\ \A p \in votes : ballot[p] = flows[p[2]].src
      OBVIOUS
    <2> HIDE DEF ballot
    <2>2. DOMAIN ballot \subseteq (1..Len(truth)) \X (1..Len(flows)) /\ DOMAIN ballot # {}
      BY <1>3, <1>4, <2>1
    <2>3. Len(truth) \in Nat /\ Len(flows) \in Nat
      BY <1>1, <1>2
    <2>4. \E p \in DOMAIN ballot : MostCommon(ballot) = ballot[p]
      BY <2>2, <2>3, MostCommonIs
    <2> QED
      BY <1>5, <2>1, <2>4
  <1>7. SourceIp(e.source) # Unset
    <2>1. flows[p[2]] \in Flow
      BY <1>2, <1>3
    <2>2. flows[p[2]].src # Unset
      BY <2>1, FlowIs
    <2> QED
      BY <1>6, <2>2
  <1> QED
    BY <1>7 DEF WindowMatches

LEMMA SubtypesDoAgree ==
  ASSUME LabelsInv PROVE SubtypesAgree
  <1> SUFFICES ASSUME NEW k \in DOMAIN rows, Kept(rows[k])
               PROVE  DeriveSubtype(MapLabel(rows[k].labels), rows[k].phases) = rows[k].subtype
    BY DEF SubtypesAgree
  <1> DEFINE labels == rows[k].labels
             phases == rows[k].phases
  <1>1. rows[k] = RowFor(k)
    <2>1. rows # << >>
      OBVIOUS
    <2> QED
      BY <2>1 DEF LabelsInv, RowsInv
  <1>2. rows[k].subtype = SubtypeFor(labels, phases)
    BY <1>1 DEF RowFor
  <1>3. Cardinality(phases) \in Nat /\ (Cardinality(phases) = 0 <=> phases = {})
    <2>1. phases = {e.phase : e \in Matches(k)} \ {Unset}
      BY <1>1 DEF RowFor
    <2> HIDE DEF phases
    <2> QED
      BY <2>1, PhasesAre DEF LabelsInv
  <1>4. \/ labels = {"normal"} /\ MapLabel(labels) = {"normal"}
        \/ labels \in {{"attack"}, {"scanning"}} /\ MapLabel(labels) = {"scanning"}
    BY DEF Kept, MapLabel
  <1> HIDE DEF labels, phases
  <1>5. CASE labels = {"normal"} /\ MapLabel(labels) = {"normal"}
    <2>1. IsNormal(labels) /\ ~ IsScan(labels)
      BY <1>5 DEF IsNormal, IsScan
    <2>2. SubtypeFor(labels, phases) = {"normal"}
      BY <2>1 DEF SubtypeFor
    <2>3. DeriveSubtype(labels, phases) = {"normal"}
      BY <2>1 DEF DeriveSubtype
    <2> QED
      BY <1>2, <1>5, <2>2, <2>3 DEF labels, phases
  <1>6. CASE labels \in {{"attack"}, {"scanning"}} /\ MapLabel(labels) = {"scanning"}
    <2>1. ~ IsNormal(labels) /\ IsScan(labels) /\ ~ IsNormal({"scanning"}) /\ IsScan({"scanning"})
      BY <1>6 DEF IsNormal, IsScan
    <2>2. DeriveSubtype({"scanning"}, phases) =
            IF phases = {} THEN {"unknown_scan"}
            ELSE IF Cardinality(phases) = 1 THEN phases ELSE {"mixed_scan"}
      BY <2>1 DEF DeriveSubtype
    <2>3. CASE phases = {}
      <3>1. SubtypeFor(labels, phases) = {"unknown_scan"}
        BY <1>3, <2>1, <2>3 DEF SubtypeFor
      <3> QED
        BY <1>2, <1>6, <2>2, <2>3, <3>1 DEF labels, phases
    <2>4. CASE Cardinality(phases) = 1
      <3>1. SubtypeFor(labels, phases) = phases
        BY <1>3, <2>1, <2>4 DEF SubtypeFor
      <3> QED
        BY <1>2, <1>3, <1>6, <2>2, <2>4, <3>1 DEF labels, phases
    <2>5. CASE Cardinality(phases) > 1
      <3>1. SubtypeFor(labels, phases) = {"mixed_scan"}
        BY <1>3, <2>1, <2>5 DEF SubtypeFor
      <3> QED
        BY <1>2, <1>3, <1>6, <2>2, <2>5, <3>1 DEF labels, phases
    <2> QED
      BY <1>3, <2>3, <2>4, <2>5
  <1> QED
    BY <1>4, <1>5, <1>6

LEMMA LabelsStart ==
  LabelsInit => LabelsInv
  <1> SUFFICES ASSUME LabelsInit PROVE LabelsInv
    OBVIOUS
  <1>1. PICK n \in 0..MaxEvents : truth \in [1..n -> EventSet]
    BY DEF LabelsInit
  <1>2. n \in Nat
    BY LabelsAssumption
  <1>3. truth \in Seq(EventSet)
    BY <1>1, <1>2
  <1> QED
    BY <1>3, WindowsInit DEF LabelsInit, LabelsInv, RowsInv

\* A window's row is read off the log, its window and the events.
LEMMA RowIsKept ==
  ASSUME UNCHANGED <<flows, windows, truth>>, NEW k
  PROVE  RowFor(k)' = RowFor(k)
  <1>1. Loaded' = Loaded
    BY DEF Loaded
  <1>2. Events' = Events /\ Pairs' = Pairs
    BY <1>1 DEF Events, Pairs
  <1>3. \A name : SourceIp(name)' = SourceIp(name)
    BY <1>2 DEF SourceIp
  <1>4. \A name : TargetIp(name)' = TargetIp(name)
    BY <1>2, <1>3 DEF TargetIp
  <1>5. \A e : WindowMatches(k, e)' <=> WindowMatches(k, e)
    BY <1>3, <1>4 DEF WindowMatches
  <1>6. Matches(k)' = Matches(k)
    BY <1>2, <1>5 DEF Matches
  <1> QED
    BY <1>6 DEF RowFor

LEMMA LabelsStep ==
  LabelsInv /\ [LabelsNext]_labelVars => LabelsInv'
  <1> SUFFICES ASSUME LabelsInv, [LabelsNext]_labelVars PROVE LabelsInv'
    OBVIOUS
  <1> USE DEF LabelsInv
  <1>1. CASE Label
    <2>1. UNCHANGED <<vars, truth>> /\ UNCHANGED <<flows, windows, truth, pc>>
      BY <1>1 DEF Label, vars
    <2>2. WindowsInv'
      BY <2>1, WindowsNext
    <2>3. pc = "built" /\ rows' = [k \in DOMAIN windows |-> RowFor(k)]
      BY <1>1 DEF Label
    <2>4. rows' = [k \in DOMAIN windows' |-> RowFor(k)']
      BY <2>1, <2>3, RowIsKept
    <2>5. RowsInv'
      BY <2>1, <2>3, <2>4 DEF RowsInv
    <2> QED
      BY <2>2, <2>5
  <1>2. CASE UNCHANGED <<truth, rows>> /\ [Next]_vars
    <2>1. WindowsInv'
      BY <1>2, WindowsNext
    <2>2. CASE rows = << >>
      BY <1>2, <2>1, <2>2 DEF RowsInv
    <2>3. CASE rows # << >>
      <3>1. UNCHANGED <<flows, windows, pc>>
        <4>1. pc = "built"
          BY <2>3 DEF RowsInv
        <4> QED
          BY <1>2, <4>1 DEF Next, Read, ReadEnds, Build, BuildEnds, Fill, vars
      <3>2. [k \in DOMAIN windows |-> RowFor(k)]' = [k \in DOMAIN windows |-> RowFor(k)]
        BY <1>2, <3>1, RowIsKept
      <3> QED
        BY <1>2, <2>1, <3>1, <3>2 DEF RowsInv
    <2> QED
      BY <2>2, <2>3
  <1>3. CASE UNCHANGED labelVars
    BY <1>2, <1>3 DEF labelVars
  <1> QED
    BY <1>1, <1>2, <1>3 DEF LabelsNext

\* The windows divide the log and the rows written are those of the windows and
\* the events as they stand, at every moment of build_window_features.py.
THEOREM LabelsInvariant == LabelsSpec => []LabelsInv
  BY LabelsStart, LabelsStep, PTL DEF LabelsSpec

\* No attack is missed, also at the bounds of windows and for events that are a
\* point in time; none that left traffic is blamed on two sources; and the
\* subtype build_scan_dataset.py derives is the one build_window_features.py
\* wrote: for any log, any events and any --window-seconds.
THEOREM LabelsAreTrue == LabelsSpec => []LabelsTellAttacks
  <1>1. LabelsInv => LabelsTellAttacks
    BY AttackIsFound, OneIsBlamed, SubtypesDoAgree DEF LabelsTellAttacks
  <1> QED
    BY <1>1, LabelsInvariant, PTL

-----------------------------------------------------------------------------
(* The alerts.                                                             *)

\* Rounding loses less than half a unit of an even threshold's digit.
LEMMA RoundedIs ==
  ASSUME NEW p \in 0..Whole
  PROVE  /\ Rounded(p) \in 0..Whole
         /\ \A t \in 0..Whole : t % 2 = 0 /\ p >= t => Rounded(p) >= t
  <1>1. p \in Nat /\ p <= 200
    BY DEF Whole
  <1>2. CASE p % 2 = 0
    BY <1>2 DEF Rounded
  <1>3. CASE p % 2 # 0
    <2>1. Rounded(p) \in {p - 1, p + 1}
      BY <1>3 DEF Rounded
    <2>2. p >= 1 /\ p <= 199
      BY <1>1, <1>3
    <2>3. ASSUME NEW t \in 0..Whole, t % 2 = 0, p >= t PROVE p - 1 >= t
      <3>1. p # t
        BY <1>3, <2>3
      <3> QED
        BY <1>1, <2>3, <3>1 DEF Whole
    <2> QED
      BY <1>1, <2>1, <2>2, <2>3 DEF Whole
  <1> QED
    BY <1>2, <1>3

\* The windows scored, and what was predicted of them.
LEMMA PredictionsAre ==
  ASSUME AlertsInv, detection \in {"alerts", "summary", "done"}
  PROVE  /\ thresholds.model \in 0..Whole /\ thresholds.alert \in 0..Whole /\ thresholds.alert % 2 = 0
         /\ IsFiniteSet(DOMAIN predictions)
         /\ \A i \in DOMAIN predictions :
              /\ predictions[i].probability \in 0..Whole
              /\ predictions[i].name = IF predictions[i].probability >= thresholds.model
                                       THEN "scanning" ELSE "normal"
  <1>1. thresholds.model \in Thresholds /\ thresholds.alert \in Thresholds
    BY DEF AlertsInv
  <1>2. PICK n \in 0..MaxRows : input \in [1..n -> Probabilities]
    BY DEF AlertsInv, Inputs
  <1>3. predictions = Predicted(input, thresholds.model)
    BY DEF AlertsInv
  <1>4. DOMAIN predictions = 1..n /\ \A i \in 1..n : predictions[i].probability = input[i]
    BY <1>2, <1>3 DEF Predicted
  <1>5. n \in Nat
    BY AlertsAssumption
  <1>6. IsFiniteSet(1..n)
    BY <1>5, FS_Interval
  <1>7. \A i \in 1..n : predictions[i].name = IF input[i] >= thresholds.model THEN "scanning" ELSE "normal"
    BY <1>2, <1>3 DEF Predicted
  <1> QED
    BY <1>1, <1>2, <1>4, <1>6, <1>7, AlertsAssumption

\* When a detection is done, the alerts are of the windows at the threshold or
\* above it, and they are validated if the model calls all of these scanning.
LEMMA DoneIs ==
  ASSUME AlertsInv, detection = "done"
  PROVE  /\ DOMAIN alerts = {i \in DOMAIN predictions : predictions[i].probability >= thresholds.alert}
         /\ (\A i \in DOMAIN alerts : predictions[i].name = "scanning") => ValidationPasses
  <1>1. alerts = BuildAlerts(predictions, thresholds.alert)
    BY DEF AlertsInv
  <1>2. alertSummary = [emitted |-> Cardinality(DOMAIN alerts), counts |-> Counts(alerts)]
    BY DEF AlertsInv
  <1>3. DOMAIN alerts = {i \in DOMAIN predictions : predictions[i].probability >= thresholds.alert}
    BY <1>1 DEF BuildAlerts
  <1>4. alertSummary # NoSummary
    <2>1. Cardinality(DOMAIN alerts) \in Nat
      BY <1>3, PredictionsAre, FS_Subset, FS_CardinalityType
    <2> QED
      BY <1>2, <2>1 DEF NoSummary
  <1>5. ASSUME NEW i \in DOMAIN alerts, predictions[i].name = "scanning" PROVE ValidRecord(alerts[i])
    <2> DEFINE p == predictions[i].probability
    <2>1. alerts[i] = [severity |-> Severity(p), confidence |-> Rounded(p),
                       threshold |-> thresholds.alert, label |-> "scanning"]
      BY <1>1, <1>3, <1>5 DEF BuildAlerts
    <2>2. p \in 0..Whole /\ p >= thresholds.alert
      BY <1>3, PredictionsAre
    <2> HIDE DEF p
    <2>3. Severity(p) \in {"low", "medium", "high", "critical"}
      <3>1. p >= 196 \/ (p \in 180..195 /\ ~ (p >= 196)) \/ (p \in 160..179 /\ ~ (p >= 196)) \/ p < 160
        BY <2>2 DEF Whole
      <3> QED
        BY <2>2, <3>1 DEF Severity, Whole
    <2>4. Rounded(p) \in 0..Whole /\ Rounded(p) >= thresholds.alert
      BY <2>2, RoundedIs, PredictionsAre
    <2> QED
      BY <2>1, <2>3, <2>4 DEF ValidRecord
  <1> QED
    BY <1>2, <1>3, <1>4, <1>5 DEF ValidationPasses

LEMMA AlertsDoPass ==
  ASSUME AlertsInv PROVE AlertsPassValidation
  <1> DEFINE scanning == {i \in DOMAIN predictions : predictions[i].name = "scanning"}
  <1>1. ASSUME detection = "done", thresholds.alert >= thresholds.model
        PROVE  /\ ValidationPasses
               /\ Cardinality(DOMAIN alerts) <= Cardinality(scanning)
               /\ thresholds.alert = thresholds.model => DOMAIN alerts = scanning
    <2>1. \A i \in DOMAIN predictions :
            predictions[i].probability >= thresholds.alert => predictions[i].name = "scanning"
      <3>1. /\ thresholds.model \in Int /\ thresholds.alert \in Int
            /\ \A i \in DOMAIN predictions : predictions[i].probability \in Int
            /\ \A i \in DOMAIN predictions :
                 predictions[i].probability >= thresholds.model => predictions[i].name = "scanning"
        BY <1>1, PredictionsAre DEF Whole
      <3> QED
        BY <1>1, <3>1
    <2>2. ValidationPasses /\ DOMAIN alerts \subseteq scanning
      BY <1>1, <2>1, DoneIs
    <2>3. Cardinality(DOMAIN alerts) <= Cardinality(scanning)
      <3>1. IsFiniteSet(scanning)
        BY <1>1, PredictionsAre, FS_Subset
      <3> HIDE DEF scanning
      <3> QED
        BY <2>2, <3>1, FS_Subset
    <2>4. thresholds.alert = thresholds.model => DOMAIN alerts = scanning
      BY <1>1, DoneIs, PredictionsAre
    <2> QED
      BY <2>2, <2>3, <2>4
  <1>2. ASSUME detection = "done", ~ ValidationPasses
        PROVE  \E i \in DOMAIN predictions :
                 predictions[i].name = "normal" /\ predictions[i].probability >= thresholds.alert
    <2>1. PICK i \in DOMAIN alerts : predictions[i].name # "scanning"
      BY <1>2, DoneIs
    <2> QED
      BY <1>2, <2>1, DoneIs, PredictionsAre
  <1> QED
    BY <1>1, <1>2 DEF AlertsPassValidation

LEMMA AlertsStart ==
  AlertsInit => AlertsInv
  BY DEF AlertsInit, AlertsInv

LEMMA AlertsStep ==
  AlertsInv /\ [AlertsNext]_alertVars => AlertsInv'
  <1> SUFFICES ASSUME AlertsInv, [AlertsNext]_alertVars PROVE AlertsInv'
    OBVIOUS
  <1>1. CASE Predict
    BY <1>1 DEF AlertsInv, Predict
  <1>2. CASE WriteAlerts
    BY <1>2 DEF AlertsInv, WriteAlerts
  <1>3. CASE WriteSummary
    <2>1. Counts(alerts)' = Counts(alerts)
      BY <1>3 DEF WriteSummary
    <2> QED
      BY <1>3, <2>1 DEF AlertsInv, WriteSummary
  <1>4. CASE DetectionKilled
    BY <1>4 DEF AlertsInv, DetectionKilled
  <1>5. CASE Detect
    BY <1>5 DEF AlertsInv, Detect
  <1>6. CASE UNCHANGED alertVars
    BY <1>6 DEF AlertsInv, alertVars
  <1> QED
    BY <1>1, <1>2, <1>3, <1>4, <1>5, <1>6 DEF AlertsNext

\* What a detection that ends hands on passes validate_ndr_alerts.py, for any
\* probabilities and thresholds of two digits and whatever an earlier one that
\* was killed has left, unless alerts are asked for below the model's threshold.
THEOREM AlertsAreValid == AlertsSpec => []AlertsPassValidation
  <1>1. AlertsInv => AlertsPassValidation
    BY AlertsDoPass
  <1> QED
    BY <1>1, AlertsStart, AlertsStep, PTL DEF AlertsSpec


-----------------------------------------------------------------------------
(* The merged rows, and a source's rows in order of time.                  *)

\* Rows as the scripts have them: finitely many, one for a source and a start.
GoodRows(R) ==
  /\ IsFiniteSet(R)
  /\ \A r \in R : r.start \in Nat
  /\ \A r, s \in R : r.entity = s.entity /\ r.start = s.start => r = s

\* A case is as it is called.
LEMMA CaseIs ==
  ASSUME args \in Cases
  PROVE  /\ args.starts \subseteq Nat /\ IsFiniteSet(args.starts)
         /\ args.length \in Nat \ {0} /\ args.stride \in Nat \ {0} /\ args.padStart \in BOOLEAN
  <1>1. args \in Case /\ IsFiniteSet(args.starts)
    BY DatasetAssumption
  <1>2. /\ args.starts \in SUBSET Nat /\ args.length \in Nat \ {0} /\ args.stride \in Nat \ {0}
        /\ args.padStart \in BOOLEAN
    BY <1>1, Zenon DEF Case
  <1> QED
    BY <1>1, <1>2

\* Merging keeps of a row all but its label.
LEMMA MergedIs ==
  ASSUME args \in Cases, files \subseteq Row, IsFiniteSet(files),
         \A f, g \in files : f.entity = g.entity /\ f.start = g.start => f = g
  PROVE  /\ MergedRows \subseteq KeptRow /\ GoodRows(MergedRows)
         /\ \A r \in MergedRows : \E f \in files : f.entity = r.entity /\ f.target = r.target
  <1> DEFINE g == [f \in files |-> [f EXCEPT !.label = MappedLabel(f.label)]]
             all == {g[f] : f \in files}
  <1>1. \A f \in files : /\ f.entity \in Entity /\ f.start \in args.starts /\ f.target \in args.targets
                         /\ g[f] = [entity |-> f.entity, start |-> f.start,
                                    label |-> MappedLabel(f.label), target |-> f.target]
    BY DEF Row
  <1>2. MergedRows = {r \in all : r.label \in {"normal", "scanning"}}
    BY DEF MergedRows
  <1>3. IsFiniteSet(MergedRows)
    <2>1. g \in Surjection(files, all)
      BY DEF Surjection
    <2>2. IsFiniteSet(all)
      BY <2>1, FS_Surjection
    <2> QED
      BY <1>2, <2>2, FS_Subset
  <1>4. \A r \in MergedRows : \E f \in files :
          /\ r = [entity |-> f.entity, start |-> f.start, label |-> MappedLabel(f.label), target |-> f.target]
          /\ MappedLabel(f.label) \in {"normal", "scanning"}
    <2> HIDE DEF g
    <2>1. \A r \in MergedRows : \E f \in files : r = g[f] /\ r.label \in {"normal", "scanning"}
      BY <1>2
    <2>2. ASSUME NEW f \in files PROVE g[f].label = MappedLabel(f.label)
      <3>1. PICK l : l = MappedLabel(f.label)
        OBVIOUS
      <3>2. g[f] = [entity |-> f.entity, start |-> f.start, label |-> l, target |-> f.target]
        BY <1>1, <3>1
      <3>3. g[f].label = l
        BY ONLY <3>2
      <3> QED
        BY <3>1, <3>3
    <2>3. ASSUME NEW r \in MergedRows
          PROVE  \E f \in files :
                   /\ r = [entity |-> f.entity, start |-> f.start, label |-> MappedLabel(f.label),
                           target |-> f.target]
                   /\ MappedLabel(f.label) \in {"normal", "scanning"}
      <3>1. PICK f \in files : r = g[f] /\ r.label \in {"normal", "scanning"}
        BY <2>1
      <3>2. r = [entity |-> f.entity, start |-> f.start, label |-> MappedLabel(f.label),
                 target |-> f.target]
        BY <1>1, <3>1
      <3>3. MappedLabel(f.label) \in {"normal", "scanning"}
        BY <2>2, <3>1
      <3> QED
        BY <3>2, <3>3
    <2> QED
      BY <2>3
  <1> HIDE DEF g, all
  <1>5. MergedRows \subseteq KeptRow
    BY <1>1, <1>4 DEF KeptRow
  <1>6. \A r \in MergedRows : r.start \in Nat
    BY <1>5, CaseIs DEF KeptRow
  <1>7. ASSUME NEW r \in MergedRows, NEW s \in MergedRows, r.entity = s.entity, r.start = s.start
        PROVE  r = s
    <2>1. PICK f \in files :
            r = [entity |-> f.entity, start |-> f.start, label |-> MappedLabel(f.label), target |-> f.target]
      BY <1>4
    <2>2. PICK h \in files :
            s = [entity |-> h.entity, start |-> h.start, label |-> MappedLabel(h.label), target |-> h.target]
      BY <1>4
    <2>3. f = h
      <3>1. r.entity = f.entity /\ r.start = f.start /\ s.entity = h.entity /\ s.start = h.start
        BY <2>1, <2>2
      <3> QED
        BY <1>7, <3>1
    <2> QED
      BY <2>1, <2>2, <2>3
  <1>8. \A r \in MergedRows : \E f \in files : f.entity = r.entity /\ f.target = r.target
    BY <1>4
  <1> QED
    BY <1>3, <1>5, <1>6, <1>7, <1>8 DEF GoodRows

\* Some of the rows are rows.
LEMMA SomeRows ==
  ASSUME NEW R, GoodRows(R), NEW S, S \subseteq R PROVE GoodRows(S)
  BY FS_Subset DEF GoodRows

\* A later row of a source has a later place.
LEMMA PlaceGrows ==
  ASSUME NEW R, GoodRows(R), NEW r \in R, NEW s \in R, r.entity = s.entity, r.start < s.start
  PROVE  Place(R, r) < Place(R, s)
  <1> DEFINE mine == Mine(R, s.entity)
             a == {x \in mine : x.start <= r.start}
             b == {x \in mine : x.start <= s.start}
  <1>1. IsFiniteSet(mine) /\ mine \subseteq R
    BY FS_Subset DEF Mine, GoodRows
  <1>2. IsFiniteSet(b) /\ Cardinality(b) \in Nat
    BY <1>1, FS_Subset, FS_CardinalityType
  <1>3. a \subseteq b /\ s \in b /\ s \notin a
    BY <1>1 DEF GoodRows, Mine
  <1>4. IsFiniteSet(a) /\ Cardinality(a) <= Cardinality(b) /\ Cardinality(a) \in Nat
        /\ Cardinality(a) # Cardinality(b)
    BY <1>2, <1>3, FS_Subset, FS_CardinalityType
  <1>5. Place(R, r) = Cardinality(a) /\ Place(R, s) = Cardinality(b)
    BY DEF Place
  <1> HIDE DEF a, b
  <1> QED
    BY <1>2, <1>4, <1>5

\* The places of a source's rows are their numbers, and no two have the same.
LEMMA PlacesAre ==
  ASSUME NEW R, GoodRows(R), NEW e
  PROVE  /\ Cardinality(Mine(R, e)) \in Nat
         /\ \A r \in Mine(R, e) : Place(R, r) \in 1..Cardinality(Mine(R, e))
         /\ \A r, s \in Mine(R, e) : Place(R, r) = Place(R, s) => r = s
         /\ \A r, s \in Mine(R, e) : Place(R, r) < Place(R, s) <=> r.start < s.start
         /\ \A i \in 1..Cardinality(Mine(R, e)) : \E r \in Mine(R, e) : Place(R, r) = i
  <1> DEFINE mine == Mine(R, e)
             n == Cardinality(mine)
  <1>1. IsFiniteSet(mine) /\ n \in Nat /\ mine \subseteq R /\ \A r \in mine : r.entity = e /\ r.start \in Nat
    BY FS_Subset, FS_CardinalityType DEF Mine, GoodRows
  <1>2. ASSUME NEW r \in mine PROVE Place(R, r) \in 1..n
    <2> DEFINE a == {x \in mine : x.start <= r.start}
    <2>1. r \in a /\ a \subseteq mine
      BY <1>1
    <2>2. IsFiniteSet(a) /\ Cardinality(a) <= n /\ Cardinality(a) \in Nat /\ Cardinality(a) # 0
      BY <1>1, <2>1, FS_Subset, FS_CardinalityType, FS_EmptySet
    <2>3. Place(R, r) = Cardinality(a)
      BY <1>1 DEF Place
    <2> HIDE DEF a, mine
    <2> QED
      BY <1>1, <2>2, <2>3
  <1>3. ASSUME NEW r \in mine, NEW s \in mine
        PROVE  /\ Place(R, r) = Place(R, s) => r = s
               /\ Place(R, r) < Place(R, s) <=> r.start < s.start
    <2>1. Place(R, r) \in Nat /\ Place(R, s) \in Nat
      BY <1>1, <1>2
    <2>2. r.start < s.start => Place(R, r) < Place(R, s)
      BY <1>1, PlaceGrows
    <2>3. s.start < r.start => Place(R, s) < Place(R, r)
      BY <1>1, PlaceGrows
    <2>4. r.start = s.start => r = s
      BY <1>1 DEF GoodRows
    <2>5. r.start \in Nat /\ s.start \in Nat
      BY <1>1
    <2> HIDE DEF mine
    <2> QED
      BY <2>1, <2>2, <2>3, <2>4, <2>5
  <1>4. ASSUME NEW i \in 1..n PROVE \E r \in mine : Place(R, r) = i
    <2> DEFINE f == [r \in mine |-> Place(R, r)]
    <2>1. f \in Injection(mine, 1..n)
      <3>1. f \in [mine -> 1..n]
        BY <1>2
      <3>2. \A r, s \in mine : f[r] = f[s] => r = s
        BY <1>3
      <3> HIDE DEF f, mine, n
      <3> QED
        BY <3>1, <3>2 DEF Injection, IsInjective
    <2>2. IsFiniteSet(1..n) /\ Cardinality(1..n) = n
      BY <1>1, FS_Interval
    <2> HIDE DEF f
    <2>3. f \in Surjection(mine, 1..n)
      BY <2>1, <2>2, FS_Injection
    <2>4. \E r \in mine : f[r] = i
      BY <2>3 DEF Surjection
    <2> QED
      BY <2>4 DEF f
  <1> QED
    BY <1>1, <1>2, <1>3, <1>4

\* The rows of a source in order, each at its place.
LEMMA OrderedIs ==
  ASSUME NEW R, GoodRows(R), NEW e
  PROVE  /\ DOMAIN Ordered(R, e) = 1..Cardinality(Mine(R, e))
         /\ \A i \in 1..Cardinality(Mine(R, e)) :
              Ordered(R, e)[i] \in Mine(R, e) /\ Place(R, Ordered(R, e)[i]) = i
         /\ \A r \in Mine(R, e) : Ordered(R, e)[Place(R, r)] = r
  <1>1. \A i \in 1..Cardinality(Mine(R, e)) :
          Ordered(R, e)[i] \in Mine(R, e) /\ Place(R, Ordered(R, e)[i]) = i
    BY PlacesAre DEF Ordered
  <1>2. \A r \in Mine(R, e) : Ordered(R, e)[Place(R, r)] = r
    BY <1>1, PlacesAre
  <1> QED
    BY <1>1, <1>2 DEF Ordered


-----------------------------------------------------------------------------
(* What a sequence is cut from.                                            *)

\* Padding is not a row.
LEMMA PaddingIsNoRow == \A r \in KeptRow : r # Padding
  <1> SUFFICES ASSUME NEW r \in KeptRow, r = Padding PROVE FALSE
    OBVIOUS
  <1>1. "label" \in DOMAIN r
    BY DEF KeptRow
  <1>2. DOMAIN Padding = {"entity", "start"}
    BY DEF Padding
  <1> QED
    BY <1>1, <1>2

\* A sequence ends at the place of a row.
LEMMA EndIs ==
  ASSUME args \in Cases, NEW R, GoodRows(R), NEW e, NEW i \in Ends(R, e)
  PROVE  /\ i \in 1..Cardinality(Mine(R, e)) /\ i \in Nat \ {0}
         /\ ~ args.padStart => args.length <= i
  <1>1. Cardinality(Mine(R, e)) \in Nat
    BY PlacesAre
  <1> QED
    BY <1>1, CaseIs DEF Ends

\* The rows of a sequence, counted from its end.
LEMMA CutIs ==
  ASSUME args \in Cases, NEW R, GoodRows(R), NEW e, NEW i \in Ends(R, e), NEW s, s = Cut(R, e, i)
  PROVE  /\ s.entity = e /\ DOMAIN s.rows = 1..args.length
         /\ \A k \in 1..args.length :
              \/ k + i <= args.length /\ s.rows[k] = Padding
              \/ /\ k + i > args.length /\ k + i - args.length \in 1..i
                 /\ s.rows[k] = Ordered(R, e)[k + i - args.length]
                 /\ s.rows[k] \in Mine(R, e) /\ Place(R, s.rows[k]) = k + i - args.length
         /\ s.rows[args.length] = Ordered(R, e)[i] /\ s.label = Ordered(R, e)[i].target
         /\ s.rows[args.length] \in Mine(R, e) /\ Place(R, s.rows[args.length]) = i
  <1> DEFINE all == Ordered(R, e)
             l == args.length
             n == Cardinality(Mine(R, e))
  <1>1. l \in Nat \ {0} /\ i \in Nat \ {0} /\ n \in Nat /\ i <= n
    BY CaseIs, EndIs, PlacesAre
  <1>2. s = [entity |-> e, rows |-> RowsUpTo(all, i), label |-> all[i].target]
    BY DEF Cut
  <1>3. s.entity = e /\ s.rows = RowsUpTo(all, i) /\ s.label = all[i].target
    BY <1>2
  <1>4. DOMAIN s.rows = 1..l
        /\ \A k \in 1..l : s.rows[k] = IF k + i <= l THEN Padding ELSE all[k + i - l]
    BY <1>3 DEF RowsUpTo
  <1>5. \A j \in 1..n : all[j] \in Mine(R, e) /\ Place(R, all[j]) = j
    BY OrderedIs
  <1> HIDE DEF all, l, n
  <1>6. ASSUME NEW k \in 1..l
        PROVE  \/ k + i <= l /\ s.rows[k] = Padding
               \/ /\ k + i > l /\ k + i - l \in 1..i /\ s.rows[k] = all[k + i - l]
                  /\ s.rows[k] \in Mine(R, e) /\ Place(R, s.rows[k]) = k + i - l
    <2>1. CASE k + i <= l
      BY <1>4, <2>1
    <2>2. CASE ~(k + i <= l)
      <3>1. k + i > l /\ k + i - l \in 1..i /\ k + i - l \in 1..n
        BY <1>1, <2>2
      <3>2. s.rows[k] = all[k + i - l]
        BY <1>4, <2>2
      <3> QED
        BY <1>5, <3>1, <3>2
    <2> QED
      BY <2>1, <2>2
  <1>7. s.rows[l] = all[i]
    <2>1. l \in 1..l /\ ~(l + i <= l) /\ l + i - l = i
      BY <1>1
    <2> QED
      BY <1>4, <2>1
  <1>8. i \in 1..n
    BY <1>1
  <1> QED
    BY <1>3, <1>4, <1>5, <1>6, <1>7, <1>8 DEF all, l, n

\* The rows that are not padding are some of the source's.
LEMMA RowsOfCut ==
  ASSUME args \in Cases, NEW R, GoodRows(R), NEW e, NEW i \in Ends(R, e)
  PROVE  RowsOf(Cut(R, e, i)) \subseteq Mine(R, e)
  <1>1. PICK s : s = Cut(R, e, i)
    OBVIOUS
  <1>2. ASSUME NEW k \in DOMAIN s.rows PROVE s.rows[k] = Padding \/ s.rows[k] \in Mine(R, e)
    <2>1. /\ DOMAIN s.rows = 1..args.length
          /\ \A j \in 1..args.length : s.rows[j] = Padding \/ s.rows[j] \in Mine(R, e)
      BY <1>1, CutIs
    <2> QED
      BY <2>1
  <1> QED
    BY <1>1, <1>2 DEF RowsOf

\* What is cut from rows are sequences.
LEMMA CutIsSequence ==
  ASSUME args \in Cases, NEW R, GoodRows(R), R \subseteq KeptRow, NEW e, NEW i \in Ends(R, e)
  PROVE  Cut(R, e, i) \in Sequence /\ e \in Entity
  <1>1. PICK s : s = Cut(R, e, i)
    OBVIOUS
  <1> DEFINE last == Ordered(R, e)[i]
  <1>2. last \in R /\ last.entity = e /\ last \in KeptRow
    BY <1>1, CutIs DEF Mine
  <1>3. e \in Entity /\ last.target \in args.targets
    BY <1>2 DEF KeptRow
  <1>4. s = [entity |-> e, rows |-> RowsUpTo(Ordered(R, e), i), label |-> last.target]
    BY <1>1 DEF Cut
  <1>5. RowsUpTo(Ordered(R, e), i) \in Seq(KeptRow \cup {Padding})
    <2>1. s.rows = RowsUpTo(Ordered(R, e), i)
      BY <1>4
    <2>2. \A k \in 1..args.length : s.rows[k] \in KeptRow \cup {Padding}
      BY <1>1, CutIs DEF Mine
    <2>3. RowsUpTo(Ordered(R, e), i) = [k \in 1..args.length |-> RowsUpTo(Ordered(R, e), i)[k]]
      BY DEF RowsUpTo
    <2>4. PICK l \in Nat : l = args.length
      BY CaseIs
    <2>5. PICK all, S : all = RowsUpTo(Ordered(R, e), i) /\ S = KeptRow \cup {Padding}
      OBVIOUS
    <2>6. all = [k \in 1..l |-> all[k]] /\ \A k \in 1..l : all[k] \in S
      BY <2>1, <2>2, <2>3, <2>4, <2>5
    <2>7. all \in [1..l -> S]
      BY <2>6
    <2>8. all \in Seq(S)
      BY <2>4, <2>7
    <2> QED
      BY <2>5, <2>8
  <1> HIDE DEF last
  <1>6. s \in Sequence
    BY <1>3, <1>4, <1>5 DEF Sequence
  <1> QED
    BY <1>1, <1>3, <1>6

\* The sequences of some rows are cut from them.
LEMMA SequencesAre ==
  ASSUME NEW R, NEW s \in Sequences(R)
  PROVE  \E e \in {r.entity : r \in R} : \E i \in Ends(R, e) : s = Cut(R, e, i)
  BY DEF Sequences

-----------------------------------------------------------------------------
(* The steps of the two builders.                                          *)

LEMMA DatasetStarts ==
  ASSUME DatasetInit PROVE DatasetInv
  <1>1. PICK present \in SUBSET (Entity \X args.starts) :
          \E f \in [present -> args.labels \X args.targets] :
            files = {[entity |-> k[1], start |-> k[2], label |-> f[k][1], target |-> f[k][2]] :
                       k \in present}
    BY DEF DatasetInit
  <1>2. PICK f \in [present -> args.labels \X args.targets] :
          files = {[entity |-> k[1], start |-> k[2], label |-> f[k][1], target |-> f[k][2]] :
                     k \in present}
    BY <1>1
  <1>3. args \in Cases /\ NothingRead
    BY DEF DatasetInit
  <1> DEFINE row(k) == [entity |-> k[1], start |-> k[2], label |-> f[k][1], target |-> f[k][2]]
  <1>4. \A k \in present : k[1] \in Entity /\ k[2] \in args.starts /\ k = <<k[1], k[2]>>
                           /\ f[k][1] \in args.labels /\ f[k][2] \in args.targets
    OBVIOUS
  <1>5. \A k \in present : row(k) \in Row /\ row(k).entity = k[1] /\ row(k).start = k[2]
    BY <1>4 DEF Row
  <1>6. \A r \in files : \E k \in present : r = row(k)
    BY <1>2
  <1> HIDE DEF row
  <1>7. files \subseteq Row
    BY <1>5, <1>6
  <1>8. ASSUME NEW r \in files, NEW s \in files, r.entity = s.entity, r.start = s.start PROVE r = s
    <2>1. PICK j \in present, k \in present : r = row(j) /\ s = row(k)
      BY <1>6
    <2>2. j[1] = k[1] /\ j[2] = k[2]
      BY <1>5, <1>8, <2>1
    <2>3. j = k
      BY <1>4, <2>2
    <2> QED
      BY <2>1, <2>3
  <1>9. IsFiniteSet(files)
    <2>1. IsFiniteSet(Entity \X args.starts)
      <3>1. IsFiniteSet(Entity)
        BY DatasetAssumption, FS_Product DEF Entity
      <3> QED
        BY <1>3, <3>1, CaseIs, FS_Product
    <2>2. IsFiniteSet(present)
      BY <2>1, FS_Subset
    <2> DEFINE g == [k \in present |-> row(k)]
    <2>3. g \in Surjection(present, files)
      <3>1. \A k \in present : row(k) \in files
        BY <1>2 DEF row
      <3> QED
        BY <1>6, <3>1 DEF Surjection
    <2> QED
      BY <2>2, <2>3, FS_Surjection
  <1> QED
    BY <1>3, <1>7, <1>8, <1>9 DEF NothingRead, DatasetInv

LEMMA DatasetSteps ==
  ASSUME DatasetInv, [DatasetNext]_datasetVars PROVE DatasetInv'
  <1>1. CASE Merge
    <2>1. /\ stage = "merge" /\ stage' = "classes" /\ dataset' = MergedRows
          /\ UNCHANGED <<args, files, classes, train, test, written>>
      BY <1>1 DEF Merge
    <2>2. MergedRows' = MergedRows /\ Row' = Row
      BY <2>1 DEF MergedRows, Row
    <2>3. train = {} /\ test = {}
      BY <2>1 DEF DatasetInv, Sequences, TrainRows, TestRows
    <2> QED
      BY <2>1, <2>2, <2>3 DEF DatasetInv
  <1>2. ASSUME UNCHANGED <<args, files, dataset>>
        PROVE  /\ MergedRows' = MergedRows /\ Row' = Row /\ Classes' = Classes
               /\ Sequences(TrainRows)' = Sequences(TrainRows)
               /\ Sequences(TestRows)' = Sequences(TestRows)
    BY <1>2 DEF MergedRows, Row, Classes, Sequences, TrainRows, TestRows, Ends, Cut, RowsUpTo, Ordered,
                Place, Mine
  <1>3. CASE ReadClasses
    BY <1>2, <1>3 DEF ReadClasses, DatasetInv
  <1>4. CASE BuildTrain
    BY <1>2, <1>4 DEF BuildTrain, DatasetInv, Known
  <1>5. CASE BuildTest
    BY <1>2, <1>5 DEF BuildTest, DatasetInv, Known
  <1>6. CASE WriteTrain
    BY <1>2, <1>6 DEF WriteTrain, DatasetInv, Known
  <1>7. CASE WriteTest
    <2>1. /\ stage = "half" /\ stage' = "done" /\ written' = written \cup {<<"test", test>>}
          /\ UNCHANGED <<args, files, dataset, classes, train, test>>
      BY <1>7 DEF WriteTest
    <2>2. written' = {<<"train", train>>, <<"test", test>>}
      BY <2>1 DEF DatasetInv
    <2> QED
      BY <1>2, <2>1, <2>2 DEF DatasetInv, Known
  <1>8. CASE WriteCut
    BY <1>2, <1>8 DEF WriteCut, DatasetInv, Known
  <1>9. CASE UNCHANGED datasetVars
    BY <1>2, <1>9 DEF datasetVars, DatasetInv, Known
  <1> QED
    BY <1>1, <1>3, <1>4, <1>5, <1>6, <1>7, <1>8, <1>9 DEF DatasetNext


\* What the builders have, as the invariant tells it: the rows of one half, and
\* the sequences cut from them.
LEMMA RowsAre ==
  ASSUME DatasetInv
  PROVE  /\ GoodRows(dataset) /\ dataset \subseteq KeptRow
         /\ GoodRows(TrainRows) /\ TrainRows \subseteq dataset
         /\ GoodRows(TestRows) /\ TestRows \subseteq dataset
         /\ \A r \in dataset : \E f \in files : f.entity = r.entity /\ f.target = r.target
  <1>1. /\ MergedRows \subseteq KeptRow /\ GoodRows(MergedRows)
        /\ \A r \in MergedRows : \E f \in files : f.entity = r.entity /\ f.target = r.target
    BY MergedIs DEF DatasetInv
  <1>2. dataset \subseteq MergedRows
    BY DEF DatasetInv
  <1>3. TrainRows \subseteq dataset /\ TestRows \subseteq dataset
    BY DEF TrainRows, TestRows
  <1> QED
    BY <1>1, <1>2, <1>3, SomeRows

\* A source's rows are all in one half.
LEMMA HalvesAre ==
  /\ \A e \in {r.entity : r \in TrainRows} : e[1] \notin TestRuns /\ Mine(TrainRows, e) = Mine(dataset, e)
  /\ \A e \in {r.entity : r \in TestRows} : e[1] \in TestRuns /\ Mine(TestRows, e) = Mine(dataset, e)
  BY DEF TrainRows, TestRows, Mine

LEMMA CutsOf ==
  ASSUME DatasetInv
  PROVE  /\ \A s \in train : \E e \in {r.entity : r \in TrainRows} : \E i \in Ends(TrainRows, e) :
              s = Cut(TrainRows, e, i)
         /\ \A s \in test : \E e \in {r.entity : r \in TestRows} : \E i \in Ends(TestRows, e) :
              s = Cut(TestRows, e, i)
  <1>1. \A s \in train : s \in Sequences(TrainRows)
    BY DEF DatasetInv
  <1>2. \A s \in test : s \in Sequences(TestRows)
    BY DEF DatasetInv
  <1> QED
    BY <1>1, <1>2, SequencesAre

LEMMA DatasetTyped ==
  ASSUME DatasetInv PROVE DatasetTypeOK
  <1>1. args \in Cases /\ dataset \subseteq KeptRow
    BY RowsAre DEF DatasetInv
  <1>2. classes \subseteq args.targets
    <2>1. \A r \in dataset : r.target \in args.targets
      BY <1>1 DEF KeptRow
    <2>2. Classes \subseteq args.targets
      BY <2>1 DEF Classes, TrainRows
    <2> QED
      BY <2>2 DEF DatasetInv
  <1>3. train \subseteq Sequence
    <2>1. ASSUME NEW s \in train PROVE s \in Sequence
      <3>0. PICK e \in {r.entity : r \in TrainRows} : \E i \in Ends(TrainRows, e) : s = Cut(TrainRows, e, i)
        BY CutsOf
      <3>1. PICK i \in Ends(TrainRows, e) : s = Cut(TrainRows, e, i)
        BY <3>0
      <3>2. GoodRows(TrainRows) /\ TrainRows \subseteq KeptRow
        BY RowsAre
      <3> QED
        BY <1>1, <3>1, <3>2, CutIsSequence
    <2> QED
      BY <2>1
  <1>4. test \subseteq Sequence
    <2>1. ASSUME NEW s \in test PROVE s \in Sequence
      <3>0. PICK e \in {r.entity : r \in TestRows} : \E i \in Ends(TestRows, e) : s = Cut(TestRows, e, i)
        BY CutsOf
      <3>1. PICK i \in Ends(TestRows, e) : s = Cut(TestRows, e, i)
        BY <3>0
      <3>2. GoodRows(TestRows) /\ TestRows \subseteq KeptRow
        BY RowsAre
      <3> QED
        BY <1>1, <3>1, <3>2, CutIsSequence
    <2> QED
      BY <2>1
  <1>5. \A out \in written : out[2] \subseteq Sequence
    <2>1. \A out \in written : out = <<"train", train>> \/ out = <<"test", test>>
      BY DEF DatasetInv
    <2> QED
      BY <1>3, <1>4, <2>1
  <1> QED
    BY <1>1, <1>2, <1>3, <1>4, <1>5 DEF DatasetTypeOK, DatasetInv

LEMMA NothingLeaks ==
  ASSUME DatasetInv PROVE NoLeak
  <1>1. ASSUME NEW s \in train, NEW r \in RowsOf(s) PROVE r.entity[1] \notin TestRuns
    <2>0. PICK e \in {x.entity : x \in TrainRows} : \E i \in Ends(TrainRows, e) : s = Cut(TrainRows, e, i)
      BY CutsOf
    <2>1. PICK i \in Ends(TrainRows, e) : s = Cut(TrainRows, e, i)
      BY <2>0
    <2>2. r \in Mine(TrainRows, e)
      BY <2>1, RowsOfCut, RowsAre DEF DatasetInv
    <2> QED
      BY <2>2 DEF Mine, TrainRows
  <1>2. ASSUME NEW s \in test, NEW r \in RowsOf(s) PROVE r.entity[1] \in TestRuns
    <2>0. PICK e \in {x.entity : x \in TestRows} : \E i \in Ends(TestRows, e) : s = Cut(TestRows, e, i)
      BY CutsOf
    <2>1. PICK i \in Ends(TestRows, e) : s = Cut(TestRows, e, i)
      BY <2>0
    <2>2. r \in Mine(TestRows, e)
      BY <2>1, RowsOfCut, RowsAre DEF DatasetInv
    <2> QED
      BY <2>2 DEF Mine, TestRows
  <1>3. ASSUME NEW c \in classes
        PROVE  \E f \in files : f.target = c /\ f.entity[1] \notin TestRuns
    <2>1. PICK r \in TrainRows : r.target = c
      BY DEF DatasetInv, Classes
    <2>2. PICK f \in files : f.entity = r.entity /\ f.target = r.target
      BY RowsAre
    <2> QED
      BY <2>1, <2>2 DEF TrainRows
  <1> QED
    BY <1>1, <1>2, <1>3 DEF NoLeak

LEMMA FilesDoPair ==
  ASSUME DatasetInv PROVE FilesArePair
  <1>1. written # {} => Known(train) /\ Known(test)
    BY DEF DatasetInv
  <1>2. stage = "exit" => written = {}
    BY DEF DatasetInv
  <1>3. stage = "cut" => <<"test", test>> \notin written
    BY DEF DatasetInv
  <1>4. stage = "done" => {out[1] : out \in written} = {"train", "test"}
    <2>1. SUFFICES ASSUME stage = "done" PROVE {out[1] : out \in written} = {"train", "test"}
      OBVIOUS
    <2>2. written = {<<"train", train>>, <<"test", test>>}
      BY <2>1 DEF DatasetInv
    <2> QED
      BY <2>2
  <1> QED
    BY <1>1, <1>2, <1>3, <1>4 DEF FilesArePair

\* Everything the two builders have is what they make of the feature files: the
\* merged rows, the classes of the training rows, the sequences of each half, and
\* in the files nothing but these.
THEOREM DatasetInvariant == DatasetSpec => []DatasetInv
  <1>1. DatasetInit => DatasetInv
    BY DatasetStarts
  <1>2. DatasetInv /\ [DatasetNext]_datasetVars => DatasetInv'
    BY DatasetSteps
  <1> QED
    BY <1>1, <1>2, PTL DEF DatasetSpec

\* Training and test are kept apart, for any windows of any runs: no row of a
\* test run is in a training sequence or the other way round, no class is known
\* from a test run only, and the two files that were written belong together.
THEOREM SplitStaysClean == DatasetSpec => []SplitIsClean
  <1>1. DatasetInv => SplitIsClean
    BY DatasetTyped, NothingLeaks, FilesDoPair DEF SplitIsClean
  <1> QED
    BY <1>1, DatasetInvariant, PTL


-----------------------------------------------------------------------------
(* The sequences are stretches of what a source did.                       *)

\* What SequencesAreStretches says of a sequence.
IsStretch(s) ==
  /\ Len(s.rows) = args.length
  /\ \A i \in 1..(args.length - 1) : s.rows[i] # Padding =>
       /\ s.rows[i].start < s.rows[i + 1].start
       /\ ~\E r \in dataset : /\ r.entity = s.entity
                              /\ s.rows[i].start < r.start /\ r.start < s.rows[i + 1].start
  /\ \A r \in RowsOf(s) : r.entity = s.entity
  /\ s.rows[args.length] # Padding /\ s.label = s.rows[args.length].target
  /\ s.rows[1] = Padding =>
       Cardinality({r \in dataset : r.entity = s.entity /\ r.start <= s.rows[args.length].start})
         < args.length

LEMMA CutIsStretch ==
  ASSUME args \in Cases, NEW R, GoodRows(R), R \subseteq KeptRow, NEW e, Mine(R, e) = Mine(dataset, e),
         NEW i \in Ends(R, e), NEW s, s = Cut(R, e, i)
  PROVE  IsStretch(s)
  <1> DEFINE l == args.length
             n == Cardinality(Mine(R, e))
  <1>1. l \in Nat \ {0} /\ i \in Nat \ {0} /\ n \in Nat /\ i <= n
    BY CaseIs, EndIs, PlacesAre
  <1>2. /\ s.entity = e /\ DOMAIN s.rows = 1..l
        /\ \A k \in 1..l :
             \/ k + i <= l /\ s.rows[k] = Padding
             \/ k + i > l /\ s.rows[k] \in Mine(R, e) /\ Place(R, s.rows[k]) = k + i - l
        /\ s.rows[l] = Ordered(R, e)[i] /\ s.label = Ordered(R, e)[i].target
        /\ s.rows[l] \in Mine(R, e) /\ Place(R, s.rows[l]) = i
    BY CutIs
  <1>3. \A r \in Mine(R, e) : r # Padding /\ r.entity = e /\ r.start \in Nat
    BY PaddingIsNoRow DEF Mine, GoodRows
  <1>4. Len(s.rows) = l
    <2>1. s.rows \in Seq(KeptRow \cup {Padding})
      BY CutIsSequence DEF Sequence
    <2>2. PICK q, m : q = s.rows /\ m = l
      OBVIOUS
    <2>3. q \in Seq(KeptRow \cup {Padding}) /\ DOMAIN q = 1..m
      BY <1>2, <2>1, <2>2
    <2>4. Len(q) \in Nat /\ DOMAIN q = 1..Len(q)
      BY <2>3
    <2>5. Len(q) = m
      BY <1>1, <2>2, <2>3, <2>4
    <2> QED
      BY <2>2, <2>5
  <1> HIDE DEF l, n
  <1>5. ASSUME NEW k \in 1..(l - 1), s.rows[k] # Padding
        PROVE  /\ s.rows[k].start < s.rows[k + 1].start
               /\ ~\E r \in dataset : /\ r.entity = s.entity
                                      /\ s.rows[k].start < r.start /\ r.start < s.rows[k + 1].start
    <2> DEFINE a == s.rows[k]
               b == s.rows[k + 1]
    <2>1. k \in 1..l /\ k + 1 \in 1..l /\ k \in Nat
      BY <1>1
    <2>2. k + i > l /\ a \in Mine(R, e) /\ Place(R, a) = k + i - l
      BY <1>2, <1>5, <2>1
    <2>3. b \in Mine(R, e) /\ Place(R, b) = (k + 1) + i - l
      <3>1. ~((k + 1) + i <= l)
        BY <1>1, <2>1, <2>2
      <3> QED
        BY <1>2, <2>1, <3>1
    <2> HIDE DEF a, b
    <2>4. Place(R, b) = Place(R, a) + 1 /\ Place(R, a) \in Int
      BY <1>1, <2>1, <2>2, <2>3
    <2>5. a.start < b.start
      <3>1. Place(R, a) < Place(R, b)
        BY <2>4
      <3> QED
        BY <2>2, <2>3, <3>1, PlacesAre
    <2>6. ASSUME NEW r \in dataset, r.entity = s.entity, a.start < r.start, r.start < b.start
          PROVE  FALSE
      <3>1. r \in Mine(R, e)
        BY <1>2, <2>6 DEF Mine
      <3>2. Place(R, a) < Place(R, r) /\ Place(R, r) < Place(R, b)
        BY <2>2, <2>3, <2>6, <3>1, PlacesAre
      <3>3. Place(R, r) \in Int
        BY <3>1, PlacesAre
      <3> QED
        BY <2>4, <3>2, <3>3
    <2> QED
      BY <2>5, <2>6 DEF a, b
  <1>6. \A r \in RowsOf(s) : r.entity = s.entity
    BY <1>2, <1>3, RowsOfCut
  <1>7. s.rows[l] # Padding /\ s.label = s.rows[l].target
    BY <1>2, <1>3
  <1>8. ASSUME s.rows[1] = Padding
        PROVE  Cardinality({r \in dataset : r.entity = s.entity /\ r.start <= s.rows[l].start}) < l
    <2>1. 1 + i <= l
      <3>1. 1 \in 1..l
        BY <1>1
      <3> QED
        BY <1>2, <1>3, <1>8, <3>1
    <2>2. {r \in dataset : r.entity = s.entity /\ r.start <= s.rows[l].start} =
            {x \in Mine(R, e) : x.start <= s.rows[l].start}
      BY <1>2 DEF Mine
    <2>3. Place(R, s.rows[l]) = Cardinality({x \in Mine(R, e) : x.start <= s.rows[l].start})
      BY <1>2, <1>3 DEF Place
    <2>4. Cardinality({r \in dataset : r.entity = s.entity /\ r.start <= s.rows[l].start}) = i
      BY <1>2, <2>2, <2>3
    <2> QED
      BY <1>1, <2>1, <2>4
  <1> QED
    BY <1>4, <1>5, <1>6, <1>7, <1>8 DEF IsStretch, l

LEMMA AllAreStretches ==
  ASSUME DatasetInv PROVE SequencesAreStretches
  <1>1. args \in Cases /\ dataset \subseteq KeptRow
    BY RowsAre DEF DatasetInv
  <1>2. ASSUME NEW s \in train PROVE IsStretch(s)
    <2>1. PICK e \in {r.entity : r \in TrainRows} : \E i \in Ends(TrainRows, e) : s = Cut(TrainRows, e, i)
      BY CutsOf
    <2>2. GoodRows(TrainRows) /\ TrainRows \subseteq KeptRow /\ Mine(TrainRows, e) = Mine(dataset, e)
      BY RowsAre, HalvesAre
    <2> QED
      BY <1>1, <2>1, <2>2, CutIsStretch
  <1>3. ASSUME NEW s \in test PROVE IsStretch(s)
    <2>1. PICK e \in {r.entity : r \in TestRows} : \E i \in Ends(TestRows, e) : s = Cut(TestRows, e, i)
      BY CutsOf
    <2>2. GoodRows(TestRows) /\ TestRows \subseteq KeptRow /\ Mine(TestRows, e) = Mine(dataset, e)
      BY RowsAre, HalvesAre
    <2> QED
      BY <1>1, <2>1, <2>2, CutIsStretch
  <1>4. \A s \in train \cup test : IsStretch(s)
    BY <1>2, <1>3
  <1> QED
    BY <1>4 DEF IsStretch, SequencesAreStretches

-----------------------------------------------------------------------------
(* How many there are.                                                     *)

\* The positions at which sequences end, counted.
LEMMA EndsCounted ==
  ASSUME NEW first \in Nat \ {0}, NEW n \in Nat, NEW stride \in Nat \ {0},
         NEW S, S = {i \in first..n : (i - first) % stride = 0}
  PROVE  /\ IsFiniteSet(S)
         /\ Cardinality(S) = IF n < first THEN 0 ELSE ((n - first) \div stride) + 1
  <1>1. CASE n < first
    <2>1. S = {}
      BY <1>1
    <2> QED
      BY <1>1, <2>1, FS_EmptySet
  <1>2. CASE n >= first
    <2>1. PICK x \in Nat : n = first + x /\ n - first = x
      <3>1. n - first \in Nat /\ n = first + (n - first)
        BY <1>2
      <3> QED
        BY <3>1
    <2> DEFINE q == x \div stride
               g == [k \in 0..q |-> first + k * stride]
    <2>2. q \in Nat /\ x % stride \in 0..(stride - 1) /\ x = q * stride + (x % stride)
      BY Divides
    <2>3. ASSUME NEW k \in 0..q PROVE first + k * stride \in S
      <3> HIDE DEF q
      <3>1. k \in Nat /\ k <= q
        BY <2>2
      <3>2. PICK p : p = k * stride
        OBVIOUS
      <3>3. p \in Nat /\ p <= q * stride
        BY <2>2, <3>1, <3>2
      <3>4. p <= x
        <4>1. PICK y, r \in Nat : y = q * stride /\ r = x % stride
          BY <2>2
        <4>2. y \in Int
          BY <2>2, <4>1
        <4> QED
          BY <2>2, <3>3, <4>1, <4>2
      <3>5. p % stride = 0
        <4>1. p % stride \in 0..(stride - 1) /\ p \div stride \in Nat
              /\ p = (p \div stride) * stride + (p % stride)
          BY <3>3, Divides
        <4>2. k * stride + 0 = (p \div stride) * stride + (p % stride) /\ 0 \in 0..(stride - 1)
          BY <3>1, <3>2, <3>3, <4>1
        <4> QED
          BY <3>1, <4>1, <4>2, OneRemainder
      <3>6. first + p \in first..n /\ (first + p) - first = p
        BY <2>1, <3>3, <3>4
      <3> QED
        BY <3>2, <3>5, <3>6
    <2>4. ASSUME NEW j \in 0..q, NEW k \in 0..q, first + j * stride = first + k * stride PROVE j = k
      <3> HIDE DEF q
      <3>1. j \in Nat /\ k \in Nat
        BY <2>2
      <3>2. PICK a, b : a = j * stride /\ b = k * stride
        OBVIOUS
      <3>3. a \in Nat /\ b \in Nat
        BY <3>1, <3>2
      <3>4. a = b
        BY <2>4, <3>2, <3>3
      <3>5. j * stride + 0 = k * stride + 0 /\ 0 \in 0..(stride - 1)
        BY <3>1, <3>2, <3>3, <3>4
      <3> QED
        BY <3>1, <3>5, OneRemainder
    <2>5. ASSUME NEW i \in S PROVE \E k \in 0..q : first + k * stride = i
      <3>1. PICK y \in Nat : i = first + y /\ i - first = y /\ y <= x
        <4>1. i - first \in Nat /\ i = first + (i - first) /\ i - first <= x
          BY <2>1
        <4> QED
          BY <4>1
      <3> DEFINE k == y \div stride
      <3>2. k \in Nat /\ y = k * stride + (y % stride) /\ y % stride = 0
        BY <3>1, Divides
      <3> HIDE DEF k, q
      <3>3. PICK p : p = k * stride
        OBVIOUS
      <3>4. y = p
        <4>1. p \in Nat
          BY <3>2, <3>3
        <4> QED
          BY <3>2, <3>3, <4>1
      <3>5. k <= q
        <4>1. SUFFICES ASSUME q + 1 <= k PROVE FALSE
          BY <2>2, <3>2
        <4>2. (q + 1) * stride <= k * stride
          BY <2>2, <3>2, <4>1
        <4>3. q * stride + stride <= x
          <5>1. (q + 1) * stride = q * stride + stride
            BY <2>2
          <5>2. PICK a : a = q * stride
            OBVIOUS
          <5>3. a \in Nat
            BY <2>2, <5>2
          <5> QED
            BY <3>1, <3>3, <3>4, <4>2, <5>1, <5>2, <5>3
        <4> QED
          BY <2>2, <4>3
      <3> QED
        BY <2>2, <3>1, <3>2, <3>3, <3>4, <3>5
    <2>6. IsFiniteSet(0..q) /\ Cardinality(0..q) = q + 1
      <3> HIDE DEF q
      <3>1. 0 \in Int /\ q \in Int /\ ~(0 > q) /\ q - 0 + 1 = q + 1
        BY <2>2
      <3> QED
        BY <3>1, FS_Interval
    <2>7. g \in Bijection(0..q, S)
      <3>1. g \in [0..q -> S]
        BY <2>3
      <3>2. \A j, k \in 0..q : g[j] = g[k] => j = k
        BY <2>4
      <3>3. \A i \in S : \E k \in 0..q : g[k] = i
        BY <2>5
      <3> HIDE DEF g, q
      <3> QED
        BY <3>1, <3>2, <3>3 DEF Bijection, Injection, Surjection, IsInjective
    <2> HIDE DEF g
    <2>8. IsFiniteSet(S) /\ Cardinality(S) = q + 1
      BY <2>6, <2>7, FS_Bijection DEF ExistsBijection
    <2>9. ~(n < first)
      BY <1>2
    <2> QED
      BY <2>1, <2>8, <2>9
  <1> QED
    BY <1>1, <1>2


\* Sequences that end elsewhere are different.
LEMMA CutsDiffer ==
  ASSUME args \in Cases, NEW R, GoodRows(R), NEW e, NEW i \in Ends(R, e), NEW d, NEW j \in Ends(R, d),
         Cut(R, e, i) = Cut(R, d, j)
  PROVE  e = d /\ i = j
  <1>1. PICK s : s = Cut(R, e, i) /\ s = Cut(R, d, j)
    OBVIOUS
  <1>2. s.entity = e /\ Place(R, s.rows[args.length]) = i
    BY <1>1, CutIs
  <1>3. s.entity = d /\ Place(R, s.rows[args.length]) = j
    BY <1>1, CutIs
  <1> QED
    BY <1>2, <1>3

\* A source has as many sequences as there are places at which one ends.
LEMMA SequencesOfSource ==
  ASSUME args \in Cases, NEW R, GoodRows(R), NEW e \in {r.entity : r \in R}
  PROVE  Cardinality({s \in Sequences(R) : s.entity = e}) = Cardinality(Ends(R, e))
  <1> DEFINE n == Cardinality(Mine(R, e))
             first == IF args.padStart THEN 1 ELSE args.length
             all == {s \in Sequences(R) : s.entity = e}
             g == [i \in Ends(R, e) |-> Cut(R, e, i)]
             k == args.stride
  <1>1. IsFiniteSet(Ends(R, e))
    <2>1. n \in Nat /\ first \in Nat \ {0} /\ k \in Nat \ {0}
      BY PlacesAre, CaseIs
    <2>2. Ends(R, e) = {i \in first..n : (i - first) % k = 0}
      BY DEF Ends
    <2> HIDE DEF n, first, k
    <2> QED
      BY <2>1, <2>2, EndsCounted
  <1>2. ASSUME NEW i \in Ends(R, e) PROVE Cut(R, e, i) \in all
    BY CutIs DEF Sequences
  <1>3. ASSUME NEW s \in all PROVE \E i \in Ends(R, e) : Cut(R, e, i) = s
    <2>1. PICK d \in {r.entity : r \in R} : \E i \in Ends(R, d) : s = Cut(R, d, i)
      BY SequencesAre
    <2>2. d = e
      BY <2>1, CutIs
    <2> QED
      BY <2>1, <2>2
  <1>4. \A i, j \in Ends(R, e) : Cut(R, e, i) = Cut(R, e, j) => i = j
    BY CutsDiffer
  <1>5. g \in Bijection(Ends(R, e), all)
    <2>1. g \in [Ends(R, e) -> all]
      BY <1>2
    <2>2. \A i, j \in Ends(R, e) : g[i] = g[j] => i = j
      BY <1>4
    <2>3. \A s \in all : \E i \in Ends(R, e) : g[i] = s
      BY <1>3
    <2> HIDE DEF g, all
    <2> QED
      BY <2>1, <2>2, <2>3 DEF Bijection, Injection, Surjection, IsInjective
  <1> HIDE DEF g
  <1> QED
    BY <1>1, <1>5, FS_Bijection DEF ExistsBijection

\* That is as many as the planner expects of so many windows.
LEMMA EndsAsPlanned ==
  ASSUME args \in Cases, NEW R, GoodRows(R), NEW e \in {r.entity : r \in R}
  PROVE  LET n == Cardinality(Mine(R, e))
         IN Cardinality(Ends(R, e)) =
              IF args.padStart THEN (n + args.stride - 1) \div args.stride ELSE EstimatedSequences(n)
  <1> DEFINE n == Cardinality(Mine(R, e))
             k == args.stride
             first == IF args.padStart THEN 1 ELSE args.length
  <1>1. n \in Nat /\ first \in Nat \ {0} /\ k \in Nat \ {0}
    BY PlacesAre, CaseIs
  <1>2. n # 0
    <2>1. Mine(R, e) # {} /\ IsFiniteSet(Mine(R, e))
      BY FS_Subset DEF Mine, GoodRows
    <2> QED
      BY <2>1, FS_EmptySet
  <1>3. Cardinality(Ends(R, e)) = IF n < first THEN 0 ELSE ((n - first) \div k) + 1
    <2>1. Ends(R, e) = {i \in first..n : (i - first) % k = 0}
      BY DEF Ends
    <2> HIDE DEF n, first, k
    <2> QED
      BY <1>1, <2>1, EndsCounted
  <1>4. CASE args.padStart
    <2>1. first = 1
      BY <1>4
    <2> HIDE DEF n, first, k
    <2>2. PICK x \in Nat : n = x + 1
      <3>1. n - 1 \in Nat /\ n = (n - 1) + 1
        BY <1>1, <1>2
      <3> QED
        BY <3>1
    <2>3. n - first = x /\ ~(n < first) /\ n + k - 1 = x + k
      BY <1>1, <2>1, <2>2
    <2>4. (x + k) \div k = (x \div k) + 1
      <3> DEFINE q == x \div k
                 r == x % k
                 p == (x + k) \div k
                 s == (x + k) % k
      <3>1. q \in Nat /\ r \in 0..(k - 1) /\ x = q * k + r
        BY <1>1, Divides
      <3>2. x + k \in Nat
        BY <1>1
      <3>3. p \in Nat /\ s \in 0..(k - 1) /\ x + k = p * k + s
        BY <1>1, <3>2, Divides
      <3> HIDE DEF q, r, p, s
      <3>4. (q + 1) * k + r = x + k
        BY <1>1, <3>1
      <3>5. q + 1 \in Nat
        BY <3>1
      <3>6. p = q + 1
        BY <1>1, <3>1, <3>3, <3>4, <3>5, OneRemainder
      <3> QED
        BY <3>6 DEF p, q
    <2>5. Cardinality(Ends(R, e)) = (n + k - 1) \div k
      BY <1>3, <2>3, <2>4
    <2> QED
      BY <1>4, <2>5 DEF n, k
  <1>5. CASE ~ args.padStart
    <2>1. first = args.length
      BY <1>5
    <2> QED
      BY <1>3, <1>5, <2>1 DEF EstimatedSequences
  <1> QED
    BY <1>4, <1>5

LEMMA CountsArePlanned ==
  ASSUME DatasetInv PROVE CountsAsPlanned
  <1> SUFFICES ASSUME stage \in {"write", "half", "done", "cut"}, NEW e \in {r.entity : r \in dataset}
               PROVE  Cardinality({s \in train \cup test : s.entity = e}) =
                        LET n == Cardinality({r \in dataset : r.entity = e})
                        IN IF args.padStart THEN (n + args.stride - 1) \div args.stride
                           ELSE EstimatedSequences(n)
    BY DEF CountsAsPlanned
  <1>1. /\ train = Sequences(TrainRows) /\ test = Sequences(TestRows) /\ args \in Cases
        /\ GoodRows(TrainRows) /\ GoodRows(TestRows)
    BY RowsAre DEF DatasetInv
  <1>2. Mine(dataset, e) = {r \in dataset : r.entity = e}
    BY DEF Mine
  <1>3. ASSUME NEW s \in train PROVE s.entity[1] \notin TestRuns
    <2>1. PICK d \in {r.entity : r \in TrainRows} : \E i \in Ends(TrainRows, d) : s = Cut(TrainRows, d, i)
      BY CutsOf
    <2> QED
      BY <1>1, <2>1, HalvesAre, CutIs
  <1>4. ASSUME NEW s \in test PROVE s.entity[1] \in TestRuns
    <2>1. PICK d \in {r.entity : r \in TestRows} : \E i \in Ends(TestRows, d) : s = Cut(TestRows, d, i)
      BY CutsOf
    <2> QED
      BY <1>1, <2>1, HalvesAre, CutIs
  <1>5. CASE e[1] \notin TestRuns
    <2>1. e \in {r.entity : r \in TrainRows}
      BY <1>5 DEF TrainRows
    <2>2. {s \in train \cup test : s.entity = e} = {s \in Sequences(TrainRows) : s.entity = e}
      BY <1>1, <1>4, <1>5
    <2>3. Mine(TrainRows, e) = {r \in dataset : r.entity = e}
      BY <1>2, <2>1, HalvesAre
    <2>4. Cardinality({s \in train \cup test : s.entity = e}) = Cardinality(Ends(TrainRows, e))
      BY <1>1, <2>1, <2>2, SequencesOfSource
    <2>5. Cardinality(Ends(TrainRows, e)) =
            LET n == Cardinality({r \in dataset : r.entity = e})
            IN IF args.padStart THEN (n + args.stride - 1) \div args.stride ELSE EstimatedSequences(n)
      BY <1>1, <2>1, <2>3, EndsAsPlanned
    <2> QED
      BY <2>4, <2>5
  <1>6. CASE e[1] \in TestRuns
    <2>1. e \in {r.entity : r \in TestRows}
      BY <1>6 DEF TestRows
    <2>2. {s \in train \cup test : s.entity = e} = {s \in Sequences(TestRows) : s.entity = e}
      BY <1>1, <1>3, <1>6
    <2>3. Mine(TestRows, e) = {r \in dataset : r.entity = e}
      BY <1>2, <2>1, HalvesAre
    <2>4. Cardinality({s \in train \cup test : s.entity = e}) = Cardinality(Ends(TestRows, e))
      BY <1>1, <2>1, <2>2, SequencesOfSource
    <2>5. Cardinality(Ends(TestRows, e)) =
            LET n == Cardinality({r \in dataset : r.entity = e})
            IN IF args.padStart THEN (n + args.stride - 1) \div args.stride ELSE EstimatedSequences(n)
      BY <1>1, <2>1, <2>3, EndsAsPlanned
    <2> QED
      BY <2>4, <2>5
  <1> QED
    BY <1>5, <1>6

\* Of what each source did the sequences show all that was planned, as it was, for
\* any windows, length and stride: each is a stretch of the source's windows with
\* none left out, padded only before its first, with the label of its last, and
\* there are as many as the planner of the collection expects.
THEOREM SequencesArePlanned == DatasetSpec => []SequencesAsPlanned
  <1>1. DatasetInv => SequencesAsPlanned
    BY AllAreStretches, CountsArePlanned DEF SequencesAsPlanned
  <1> QED
    BY <1>1, DatasetInvariant, PTL


-----------------------------------------------------------------------------
(* The report counts what was built.                                       *)

\* The places it counts from 0 are those at which sequences end.
LEMMA CountedIs ==
  ASSUME args \in Cases, NEW R, GoodRows(R)
  PROVE  /\ \A p \in Counted(R) : /\ p = <<p[1], p[2]>> /\ p[2] \in Int
                                  /\ p[1] \in {r.entity : r \in R} /\ p[2] + 1 \in Ends(R, p[1])
         /\ \A e \in {r.entity : r \in R} : \A i \in Ends(R, e) :
              i \in Int /\ <<e, i - 1>> \in Counted(R)
  <1>1. ASSUME NEW e
        PROVE  /\ \A end \in Endings(R, e) : end \in Int /\ end + 1 \in Ends(R, e)
               /\ \A i \in Ends(R, e) : i \in Int /\ i - 1 \in Endings(R, e)
    <2> DEFINE n == Cardinality(Mine(R, e))
               k == args.stride
               first == IF args.padStart THEN 1 ELSE args.length
               zero == IF args.padStart THEN 0 ELSE args.length - 1
    <2>1. n \in Nat /\ first \in Nat \ {0} /\ k \in Nat \ {0}
      BY PlacesAre, CaseIs
    <2>2. first = zero + 1 /\ zero \in Nat
      BY CaseIs
    <2>3. /\ Ends(R, e) = {i \in first..n : (i - first) % k = 0}
          /\ Endings(R, e) = {end \in zero..(n - 1) : (end - zero) % k = 0}
      BY DEF Ends, Endings
    <2> HIDE DEF n, k, first, zero
    <2>4. ASSUME NEW end \in Endings(R, e) PROVE end \in Int /\ end + 1 \in Ends(R, e)
      <3>1. end \in zero..(n - 1) /\ (end - zero) % k = 0
        BY <2>3
      <3>2. end \in Int /\ end + 1 \in first..n /\ (end + 1) - first = end - zero
        BY <2>1, <2>2, <3>1
      <3> QED
        BY <2>3, <3>1, <3>2
    <2>5. ASSUME NEW i \in Ends(R, e) PROVE i \in Int /\ i - 1 \in Endings(R, e)
      <3>1. i \in first..n /\ (i - first) % k = 0
        BY <2>3
      <3>2. i \in Int /\ i - 1 \in zero..(n - 1) /\ (i - 1) - zero = i - first
        BY <2>1, <2>2, <3>1
      <3> QED
        BY <2>3, <3>1, <3>2
    <2> QED
      BY <2>4, <2>5
  <1>2. ASSUME NEW p \in Counted(R)
        PROVE  /\ p = <<p[1], p[2]>> /\ p[2] \in Int
               /\ p[1] \in {r.entity : r \in R} /\ p[2] + 1 \in Ends(R, p[1])
    <2>1. PICK e \in {r.entity : r \in R} : p \in {<<e, end>> : end \in Endings(R, e)}
      BY DEF Counted
    <2>2. PICK end \in Endings(R, e) : p = <<e, end>>
      BY <2>1
    <2> QED
      BY <1>1, <2>2
  <1>3. ASSUME NEW e \in {r.entity : r \in R}, NEW i \in Ends(R, e)
        PROVE  i \in Int /\ <<e, i - 1>> \in Counted(R)
    BY <1>1 DEF Counted
  <1> QED
    BY <1>2, <1>3

\* There are as many of some of them as of the sequences that end there.
CutAt(R, p) == Cut(R, p[1], p[2] + 1)

LEMMA CountedBy ==
  ASSUME args \in Cases, NEW R, GoodRows(R), NEW S, S \subseteq Counted(R),
         NEW T, T = {CutAt(R, p) : p \in S}
  PROVE  Cardinality(S) = Cardinality(T)
  <1>1. IsFiniteSet(Counted(R))
    <2> DEFINE h == [p \in Counted(R) |-> Ordered(R, p[1])[p[2] + 1]]
    <2>1. ASSUME NEW p \in Counted(R)
          PROVE  h[p] \in R /\ h[p].entity = p[1] /\ Place(R, h[p]) = p[2] + 1
      <3>1. p[2] + 1 \in 1..Cardinality(Mine(R, p[1]))
        BY CountedIs, EndIs
      <3> QED
        BY <3>1, OrderedIs DEF Mine
    <2>2. ASSUME NEW p \in Counted(R), NEW q \in Counted(R), h[p] = h[q] PROVE p = q
      <3>1. p[1] = q[1] /\ p[2] + 1 = q[2] + 1
        BY <2>1, <2>2
      <3>2. p[2] = q[2]
        BY <3>1, CountedIs
      <3> QED
        BY <3>1, <3>2, CountedIs
    <2>3. h \in Injection(Counted(R), R)
      <3>1. h \in [Counted(R) -> R]
        BY <2>1
      <3> HIDE DEF h
      <3> QED
        BY <2>2, <3>1 DEF Injection, IsInjective
    <2> HIDE DEF h
    <2> QED
      BY <2>3, FS_Injection DEF GoodRows
  <1>2. IsFiniteSet(S)
    BY <1>1, FS_Subset
  <1> DEFINE g == [p \in S |-> CutAt(R, p)]
  <1>3. g \in Bijection(S, T)
    <2>1. ASSUME NEW p \in S, NEW q \in S, CutAt(R, p) = CutAt(R, q) PROVE p = q
      <3>1. p[2] + 1 \in Ends(R, p[1]) /\ q[2] + 1 \in Ends(R, q[1])
        BY CountedIs
      <3>2. p[1] = q[1] /\ p[2] + 1 = q[2] + 1
        BY <2>1, <3>1, CutsDiffer DEF CutAt
      <3>3. p[2] = q[2]
        BY <3>2, CountedIs
      <3> QED
        BY <3>2, <3>3, CountedIs
    <2>2. g \in [S -> T] /\ \A t \in T : \E p \in S : g[p] = t
      OBVIOUS
    <2>3. \A p, q \in S : g[p] = g[q] => p = q
      BY <2>1
    <2> HIDE DEF g
    <2> QED
      BY <2>2, <2>3 DEF Bijection, Injection, Surjection, IsInjective
  <1> HIDE DEF g
  <1> QED
    BY <1>2, <1>3, FS_Bijection DEF ExistsBijection

\* So the report's counters are those of the sequences.
LEMMA CountersAre ==
  ASSUME args \in Cases, NEW R, GoodRows(R)
  PROVE  /\ Total(R) = Cardinality(Sequences(R))
         /\ \A run : Estimate(R, run) = CountOf(Sequences(R), run)
         /\ \A t : EstimatedTargets(R, t) = Cardinality({s \in Sequences(R) : s.label = t})
  <1>1. ASSUME NEW p \in Counted(R)
        PROVE  /\ CutAt(R, p) \in Sequences(R) /\ CutAt(R, p).entity = p[1]
               /\ CutAt(R, p).label = Ordered(R, p[1])[p[2] + 1].target
    <2>1. p[1] \in {r.entity : r \in R} /\ p[2] + 1 \in Ends(R, p[1])
      BY CountedIs
    <2>2. PICK s : s = CutAt(R, p)
      OBVIOUS
    <2>3. s = Cut(R, p[1], p[2] + 1)
      BY <2>2 DEF CutAt
    <2>4. s.entity = p[1] /\ s.label = Ordered(R, p[1])[p[2] + 1].target
      BY <2>1, <2>3, CutIs
    <2>5. s \in Sequences(R)
      BY <2>1, <2>3 DEF Sequences
    <2> QED
      BY <2>2, <2>4, <2>5
  <1>2. ASSUME NEW s \in Sequences(R) PROVE \E p \in Counted(R) : s = CutAt(R, p)
    <2>1. PICK e \in {r.entity : r \in R} : \E i \in Ends(R, e) : s = Cut(R, e, i)
      BY SequencesAre
    <2>2. PICK i \in Ends(R, e) : s = Cut(R, e, i)
      BY <2>1
    <2>3. i \in Int /\ <<e, i - 1>> \in Counted(R)
      BY CountedIs
    <2>4. (i - 1) + 1 = i
      BY <2>3
    <2>5. CutAt(R, <<e, i - 1>>) = s
      BY <2>2, <2>4 DEF CutAt
    <2> QED
      BY <2>3, <2>5
  <1>3. Total(R) = Cardinality(Sequences(R))
    <2>1. Sequences(R) = {CutAt(R, p) : p \in Counted(R)}
      BY <1>1, <1>2
    <2> QED
      BY <2>1, CountedBy DEF Total
  <1>4. ASSUME NEW run PROVE Estimate(R, run) = CountOf(Sequences(R), run)
    <2> DEFINE S == {p \in Counted(R) : p[1][1] = run}
    <2>1. {s \in Sequences(R) : s.entity[1] = run} = {CutAt(R, p) : p \in S}
      BY <1>1, <1>2
    <2> QED
      BY <2>1, CountedBy DEF Estimate, CountOf
  <1>5. ASSUME NEW t PROVE EstimatedTargets(R, t) = Cardinality({s \in Sequences(R) : s.label = t})
    <2> DEFINE S == {p \in Counted(R) : Ordered(R, p[1])[p[2] + 1].target = t}
    <2>1. {s \in Sequences(R) : s.label = t} = {CutAt(R, p) : p \in S}
      BY <1>1, <1>2
    <2> QED
      BY <2>1, CountedBy DEF EstimatedTargets
  <1> QED
    BY <1>3, <1>4, <1>5

LEMMA ReportDoesTell ==
  ASSUME DatasetInv PROVE ReportIsSound
  <1> SUFFICES ASSUME stage = "done"
               PROVE  /\ \A run \in Runs : /\ Estimate(TrainRows, run) = CountOf(train, run)
                                           /\ Estimate(TestRows, run) = CountOf(test, run)
                      /\ \A t \in args.targets :
                           EstimatedTargets(TrainRows, t) = Cardinality({s \in train : s.label = t})
                      /\ OverallPass =>
                           /\ Cardinality(train) >= Gates.train /\ Cardinality(test) >= Gates.test
                           /\ \A run \in Runs : /\ CountOf(train, run) = 0 \/ CountOf(test, run) = 0
                                                /\ 100 * CountOf(train, run) <= Gates.share * Cardinality(train)
    BY DEF ReportIsSound
  <1>1. /\ train = Sequences(TrainRows) /\ test = Sequences(TestRows) /\ args \in Cases
        /\ GoodRows(TrainRows) /\ GoodRows(TestRows)
    BY RowsAre DEF DatasetInv
  <1>2. /\ Total(TrainRows) = Cardinality(train) /\ Total(TestRows) = Cardinality(test)
        /\ \A run : Estimate(TrainRows, run) = CountOf(train, run)
        /\ \A run : Estimate(TestRows, run) = CountOf(test, run)
        /\ \A t : EstimatedTargets(TrainRows, t) = Cardinality({s \in train : s.label = t})
    BY <1>1, CountersAre
  <1>3. ASSUME NEW run \in Runs PROVE CountOf(train, run) = 0 \/ CountOf(test, run) = 0
    <2>1. \A s \in train : s.entity[1] \notin TestRuns
      <3>1. ASSUME NEW s \in train PROVE s.entity[1] \notin TestRuns
        <4>1. PICK d \in {r.entity : r \in TrainRows} : \E i \in Ends(TrainRows, d) : s = Cut(TrainRows, d, i)
          BY CutsOf
        <4> QED
          BY <1>1, <4>1, HalvesAre, CutIs
      <3> QED
        BY <3>1
    <2>2. \A s \in test : s.entity[1] \in TestRuns
      <3>1. ASSUME NEW s \in test PROVE s.entity[1] \in TestRuns
        <4>1. PICK d \in {r.entity : r \in TestRows} : \E i \in Ends(TestRows, d) : s = Cut(TestRows, d, i)
          BY CutsOf
        <4> QED
          BY <1>1, <4>1, HalvesAre, CutIs
      <3> QED
        BY <3>1
    <2>3. {s \in train : s.entity[1] = run} = {} \/ {s \in test : s.entity[1] = run} = {}
      BY <2>1, <2>2
    <2> QED
      BY <2>3, FS_EmptySet DEF CountOf
  <1>4. OverallPass => /\ Cardinality(train) >= Gates.train /\ Cardinality(test) >= Gates.test
                       /\ \A run \in Runs : 100 * CountOf(train, run) <= Gates.share * Cardinality(train)
    BY <1>2 DEF OverallPass, NotDominated
  <1> QED
    BY <1>2, <1>3, <1>4

\* The report is about the files that were written, for any gates: it counts as
\* many sequences of every run and target as there are, and when it passes there
\* are enough, no run is in both halves and none dominates the training.
THEOREM ReportIsTrue == DatasetSpec => []ReportIsSound
  <1>1. DatasetInv => ReportIsSound
    BY ReportDoesTell
  <1> QED
    BY <1>1, DatasetInvariant, PTL


-----------------------------------------------------------------------------
(* The rolling context.                                                    *)

\* The sum of the sizes of sets that are disjoint is the size of their union.
LEMMA SumIsUnion ==
  ASSUME NEW J, NEW f, DOMAIN f = J, NEW M, NEW U, IsFiniteSet(U), U = UNION {M[j] : j \in J},
         \A j \in J : f[j] = Cardinality(M[j]),
         \A i, j \in J : i # j => M[i] \cap M[j] = {}
  PROVE  SumOf(f) = Cardinality(U)
  <1> DEFINE B == [j \in J |-> CHOOSE b : b \in Bijection(1..f[j], M[j])]
             units == UNION {{j} \X (1..f[j]) : j \in J}
             g == [p \in units |-> B[p[1]][p[2]]]
  <1>1. ASSUME NEW j \in J PROVE B[j] \in Bijection(1..f[j], M[j])
    <2>1. M[j] \subseteq U
      OBVIOUS
    <2>2. ExistsBijection(1..Cardinality(M[j]), M[j])
      BY <2>1, FS_Subset, FS_CardinalityType
    <2>3. \E b : b \in Bijection(1..f[j], M[j])
      BY <2>2 DEF ExistsBijection
    <2> QED
      BY <2>3
  <1> HIDE DEF B
  <1>2. \A p \in units : p[1] \in J /\ p[2] \in 1..f[p[1]] /\ p = <<p[1], p[2]>>
    OBVIOUS
  <1>3. ASSUME NEW p \in units PROVE g[p] = B[p[1]][p[2]] /\ g[p] \in M[p[1]] /\ g[p] \in U
    <2>1. B[p[1]] \in [1..f[p[1]] -> M[p[1]]]
      BY <1>1, <1>2 DEF Bijection, Injection
    <2> HIDE DEF units
    <2> QED
      BY <1>2, <2>1
  <1>4. ASSUME NEW p \in units, NEW q \in units, g[p] = g[q] PROVE p = q
    <2>1. p[1] = q[1]
      BY <1>2, <1>3, <1>4
    <2>2. B[p[1]][p[2]] = B[p[1]][q[2]] /\ p[2] \in 1..f[p[1]] /\ q[2] \in 1..f[p[1]]
      BY <1>2, <1>3, <1>4, <2>1
    <2>3. B[p[1]] \in Bijection(1..f[p[1]], M[p[1]])
      BY <1>1, <1>2
    <2>4. p[2] = q[2]
      BY <2>2, <2>3 DEF Bijection, Injection, IsInjective
    <2> HIDE DEF units
    <2> QED
      BY <1>2, <2>1, <2>4
  <1>5. ASSUME NEW x \in U PROVE \E p \in units : g[p] = x
    <2>1. PICK j \in J : x \in M[j]
      OBVIOUS
    <2>2. PICK c \in 1..f[j] : B[j][c] = x
      BY <1>1, <2>1 DEF Bijection, Surjection
    <2>3. <<j, c>> \in units
      OBVIOUS
    <2> QED
      BY <1>3, <2>2, <2>3
  <1>6. g \in Injection(units, U) /\ g \in Surjection(units, U)
    <2>1. g \in [units -> U]
      BY <1>3
    <2> HIDE DEF g, units
    <2> QED
      BY <1>4, <1>5, <2>1 DEF Injection, Surjection, IsInjective
  <1> HIDE DEF g, units
  <1>7. Cardinality(units) = Cardinality(U)
    BY <1>6, FS_Injection
  <1> QED
    BY <1>7 DEF SumOf, units

\* The starts of windows by their number.
LEMMA StartNumber ==
  ASSUME NEW u \in Nat, u % Width = 0
  PROVE  \E c \in Nat : u = c * Width
  <1>1. Width \in Nat \ {0}
    BY WindowsAssumption
  <1>2. u \div Width \in Nat /\ u = (u \div Width) * Width + (u % Width)
    BY <1>1, Divides
  <1>3. PICK c \in Nat : c = u \div Width
    BY <1>2
  <1>4. u = c * Width + 0
    BY <1>2, <1>3
  <1>5. c * Width \in Nat
    BY <1>1
  <1> QED
    BY <1>4, <1>5

LEMMA NumbersOrder ==
  ASSUME NEW a \in Nat, NEW b \in Nat
  PROVE  /\ a * Width \in Nat /\ b * Width \in Nat /\ Width \in Nat \ {0}
         /\ a < b <=> a * Width < b * Width
         /\ a = b <=> a * Width = b * Width
  <1>1. Width \in Nat \ {0}
    BY WindowsAssumption
  <1>2. \A c, d \in Nat : c < d => c * Width + Width <= d * Width
    <2>1. SUFFICES ASSUME NEW c \in Nat, NEW d \in Nat, c < d PROVE c * Width + Width <= d * Width
      OBVIOUS
    <2>2. (c + 1) * Width <= d * Width
      BY <1>1, <2>1
    <2>3. (c + 1) * Width = c * Width + Width
      BY <1>1
    <2> QED
      BY <2>2, <2>3
  <1>3. PICK x, y : x = a * Width /\ y = b * Width
    OBVIOUS
  <1>4. x \in Nat /\ y \in Nat
    BY <1>1, <1>3
  <1>5. (a < b => x + Width <= y) /\ (b < a => y + Width <= x) /\ (a = b => x = y)
    BY <1>2, <1>3
  <1> QED
    BY <1>1, <1>3, <1>4, <1>5


\* The rows between two rows of a source are at most as many as there are starts.
LEMMA BeforeIs ==
  ASSUME WindowsInv, NEW k \in DOMAIN windows, NEW j, NEW a \in Nat, NEW b \in Nat, j[2] = a * Width,
         k[2] = b * Width, a <= b
  PROVE  /\ IsFiniteSet(Before(k, j)) /\ Cardinality(Before(k, j)) \in Nat
         /\ Cardinality(Before(k, j)) <= b - a
  <1> DEFINE S == Before(k, j)
             T == (a + 1)..b
             h == [m \in S |-> CHOOSE c \in Nat : m[2] = c * Width]
  <1>1. \A m \in S : /\ m \in DOMAIN windows /\ m[1] = k[1] /\ j[2] < m[2] /\ m[2] <= k[2]
                     /\ m \in Sources \X Nat /\ m[2] % Width = 0
    BY DEF Before, WindowsInv, WindowsDivideLog, TypeOK, EachFlowOnce
  <1>2. ASSUME NEW m \in S PROVE h[m] \in T /\ m[2] = h[m] * Width
    <2>1. \E c \in Nat : m[2] = c * Width
      BY <1>1, StartNumber
    <2>2. h[m] \in Nat /\ m[2] = h[m] * Width
      BY <2>1
    <2> HIDE DEF h, S
    <2>3. PICK c \in Nat : c = h[m]
      BY <2>2
    <2>4. a * Width < c * Width /\ c * Width <= b * Width
      BY <1>1, <2>2, <2>3
    <2>5. a < c
      BY <2>4, NumbersOrder
    <2>6. ~(b < c)
      <3>1. SUFFICES ASSUME b < c PROVE FALSE
        OBVIOUS
      <3>2. b * Width < c * Width /\ b * Width \in Nat /\ c * Width \in Nat
        BY <3>1, NumbersOrder
      <3>3. PICK x, y : x = b * Width /\ y = c * Width
        OBVIOUS
      <3> QED
        BY <2>4, <3>2, <3>3
    <2> QED
      BY <2>2, <2>3, <2>5, <2>6
  <1>3. ASSUME NEW l \in S, NEW m \in S, h[l] = h[m] PROVE l = m
    <2>1. l[2] = m[2] /\ l[1] = m[1]
      BY <1>1, <1>2, <1>3
    <2> QED
      BY <1>1, <2>1
  <1>4. h \in Injection(S, T)
    <2>1. h \in [S -> T]
      BY <1>2
    <2> HIDE DEF h, S, T
    <2> QED
      BY <1>3, <2>1 DEF Injection, IsInjective
  <1>5. IsFiniteSet(T) /\ Cardinality(T) = b - a
    <2>1. a + 1 \in Int /\ b \in Int /\ (a + 1 > b => b - a = 0) /\ b - (a + 1) + 1 = b - a
      OBVIOUS
    <2> QED
      BY <2>1, FS_Interval
  <1> HIDE DEF h, S, T
  <1>6. IsFiniteSet(S) /\ Cardinality(S) <= b - a
    BY <1>4, <1>5, FS_Injection
  <1> QED
    BY <1>6, FS_CardinalityType DEF S

\* A row's history has every row of its source that begins in the last windows.
LEMMA HistoryReaches ==
  ASSUME WindowsInv, NEW k \in DOMAIN windows, NEW j \in DOMAIN windows, j[1] = k[1],
         NEW a \in Nat, NEW b \in Nat, j[2] = a * Width, k[2] = b * Width, a <= b,
         NEW n \in Nat, b - a < n
  PROVE  j \in History(k, n)
  <1>1. Cardinality(Before(k, j)) < n
    <2>1. Cardinality(Before(k, j)) \in Nat /\ Cardinality(Before(k, j)) <= b - a
      BY BeforeIs
    <2> QED
      BY <2>1
  <1>2. j[2] <= k[2]
    <2>1. PICK x, y : x = a * Width /\ y = b * Width
      OBVIOUS
    <2>2. x \in Nat /\ y \in Nat /\ (a < b => x < y) /\ (a = b => x = y)
      BY <2>1, NumbersOrder
    <2>3. x <= y
      BY <2>2
    <2> QED
      BY <2>1, <2>3
  <1> QED
    BY <1>1, <1>2 DEF History

\* Where gaps are filled there is a row for every start in between,
LEMMA FilledUp ==
  ASSUME WindowsInv, includeEmpty, pc = "built", NEW k \in DOMAIN windows, NEW j \in DOMAIN windows,
         j[1] = k[1], NEW a \in Nat, NEW b \in Nat, j[2] = a * Width, k[2] = b * Width,
         NEW c \in Nat, a <= c, c <= b
  PROVE  <<k[1], c * Width>> \in DOMAIN windows
  <1> DEFINE Missing == {d \in Nat : a <= d /\ d <= b /\ <<k[1], d * Width>> \notin DOMAIN windows}
  <1>1. SUFFICES ASSUME Missing # {} PROVE FALSE
    BY DEF Missing
  <1>2. PICK d \in Missing : \A y \in Missing : d <= y
    BY <1>1, LeastIs
  <1>3. d \in Nat /\ a <= d /\ d <= b /\ <<k[1], d * Width>> \notin DOMAIN windows
    BY <1>2
  <1>4. d # a
    <2>1. j = <<k[1], a * Width>>
      BY DEF WindowsInv, WindowsDivideLog, TypeOK
    <2> QED
      BY <1>3, <2>1
  <1>5. PICK e \in Nat : d = e + 1 /\ a <= e /\ e < b
    <2>1. d - 1 \in Nat /\ d = (d - 1) + 1 /\ a <= d - 1 /\ d - 1 < b
      BY <1>3, <1>4
    <2> QED
      BY <2>1
  <1>6. e \notin Missing
    BY <1>2, <1>5
  <1>7. <<k[1], e * Width>> \in DOMAIN windows
    BY <1>5, <1>6
  <1>8. <<k[1], e * Width + Width>> \in DOMAIN windows
    <2>1. e * Width < k[2]
      BY <1>5, NumbersOrder
    <2>2. PICK l : l = <<k[1], e * Width>>
      OBVIOUS
    <2>3. l \in DOMAIN windows /\ l[1] = k[1] /\ l[2] < k[2] /\ l[2] = e * Width
      BY <1>7, <2>1, <2>2
    <2>4. <<l[1], l[2] + Width>> \in DOMAIN windows
      BY <2>3 DEF WindowsInv, WindowsDivideLog, NoGaps
    <2> QED
      BY <2>3, <2>4
  <1>9. d * Width = e * Width + Width
    BY <1>5, NumbersOrder
  <1> QED
    BY <1>3, <1>8, <1>9

\* so that the history goes back as many windows as it has rows.
LEMMA HistoryEnds ==
  ASSUME WindowsInv, includeEmpty, pc = "built", NEW k \in DOMAIN windows, NEW n \in Nat,
         NEW j \in History(k, n), NEW a \in Nat, NEW b \in Nat, j[2] = a * Width, k[2] = b * Width
  PROVE  a <= b /\ b - a < n
  <1>1. j \in DOMAIN windows /\ j[1] = k[1] /\ j[2] <= k[2] /\ Cardinality(Before(k, j)) < n
    BY DEF History
  <1>2. a <= b
    <2>1. PICK x, y : x = a * Width /\ y = b * Width
      OBVIOUS
    <2>2. x \in Nat /\ y \in Nat /\ (b < a => y < x)
      BY <2>1, NumbersOrder
    <2>3. x <= y
      BY <1>1, <2>1
    <2> QED
      BY <2>2, <2>3
  <1> DEFINE T == (a + 1)..b
             S == Before(k, j)
             h == [c \in T |-> <<k[1], c * Width>>]
  <1>3. ASSUME NEW c \in T PROVE h[c] \in S
    <2>1. c \in Nat /\ a < c /\ c <= b /\ a <= c
      OBVIOUS
    <2>2. <<k[1], c * Width>> \in DOMAIN windows
      BY <1>1, <2>1, FilledUp
    <2>3. a * Width < c * Width
      BY <2>1, NumbersOrder
    <2>4. c * Width <= b * Width
      <3>1. PICK x, y : x = c * Width /\ y = b * Width
        OBVIOUS
      <3>2. x \in Nat /\ y \in Nat /\ (c < b => x < y) /\ (c = b => x = y)
        BY <2>1, <3>1, NumbersOrder
      <3>3. x <= y
        BY <2>1, <3>2
      <3> QED
        BY <3>1, <3>3
    <2> QED
      BY <2>2, <2>3, <2>4 DEF Before
  <1>4. ASSUME NEW c \in T, NEW d \in T, h[c] = h[d] PROVE c = d
    <2>1. c * Width = d * Width
      BY <1>4
    <2>2. c \in Nat /\ d \in Nat
      OBVIOUS
    <2> QED
      BY <2>1, <2>2, NumbersOrder
  <1>5. h \in Injection(T, S)
    <2>1. h \in [T -> S]
      BY <1>3
    <2> HIDE DEF h, S, T
    <2> QED
      BY <1>4, <2>1 DEF Injection, IsInjective
  <1>6. IsFiniteSet(S) /\ Cardinality(S) \in Nat
    BY <1>2, BeforeIs
  <1>7. Cardinality(T) = b - a
    <2>1. a + 1 \in Int /\ b \in Int /\ (a + 1 > b => b - a = 0) /\ b - (a + 1) + 1 = b - a
      BY <1>2
    <2> QED
      BY <2>1, FS_Interval
  <1> HIDE DEF h, S, T
  <1>8. b - a <= Cardinality(S)
    BY <1>5, <1>6, <1>7, FS_Injection
  <1> QED
    BY <1>1, <1>2, <1>6, <1>8 DEF S


\* The rolling context summarises the flows of the history's windows.
HistoryFlows(k, n) == UNION {Members(j) : j \in History(k, n)}

LEMMA WindowIs ==
  ASSUME WindowsInv, NEW k \in DOMAIN windows
  PROVE  /\ k \in Sources \X Nat /\ k[2] % Width = 0 /\ k = <<k[1], k[2]>>
         /\ Summarises(windows[k], Members(k))
         /\ Members(k) \subseteq 1..added /\ added \in Nat
         /\ \A i \in 1..added : flows[i] \in FlowSet /\ (i \in Members(k) <=> KeyOf(flows[i]) = k)
  <1>1. TypeOK /\ k \in Sources \X Nat /\ k[2] % Width = 0 /\ Summarises(windows[k], Members(k))
    BY DEF WindowsInv, WindowsDivideLog, TypeOK, EachFlowOnce
  <1> QED
    BY <1>1, MembersAre

LEMMA RollingIs ==
  ASSUME WindowsInv, NEW k \in DOMAIN windows, NEW n
  PROVE  /\ HistoryFlows(k, n) \subseteq 1..added /\ IsFiniteSet(HistoryFlows(k, n))
         /\ Rolling(k, n).count = Cardinality(HistoryFlows(k, n))
         /\ Rolling(k, n).failed = Cardinality({i \in HistoryFlows(k, n) : flows[i].failed})
         /\ Rolling(k, n).dsts = {flows[i].dst : i \in HistoryFlows(k, n)}
  <1> DEFINE J == History(k, n)
             U == HistoryFlows(k, n)
             failing == {i \in U : flows[i].failed}
             M == [j \in J |-> Members(j)]
             F == [j \in J |-> {i \in Members(j) : flows[i].failed}]
             counts == [j \in J |-> windows[j].count]
             failures == [j \in J |-> windows[j].failed]
  <1>1. J \subseteq DOMAIN windows
    BY DEF History
  <1>2. U \subseteq 1..added /\ IsFiniteSet(U)
    <2>1. added \in Nat
      BY WindowIs
    <2>2. U \subseteq 1..added
      BY <1>1, WindowIs DEF HistoryFlows
    <2> QED
      BY <2>1, <2>2, CountIs
  <1>3. \A i, j \in J : i # j => Members(i) \cap Members(j) = {}
    <2>1. SUFFICES ASSUME NEW i \in J, NEW j \in J, NEW x \in Members(i), x \in Members(j) PROVE i = j
      OBVIOUS
    <2>2. x \in 1..added /\ KeyOf(flows[x]) = i
      BY <1>1, WindowIs
    <2>3. KeyOf(flows[x]) = j
      BY <1>1, <2>1, <2>2, WindowIs
    <2> QED
      BY <2>2, <2>3
  <1>4. \A j \in J : /\ windows[j].count = Cardinality(Members(j))
                     /\ windows[j].failed = Cardinality({i \in Members(j) : flows[i].failed})
                     /\ windows[j].dsts = {flows[i].dst : i \in Members(j)}
    BY <1>1, WindowIs DEF Summarises
  <1>5. SumOf(counts) = Cardinality(U)
    <2>1. U = UNION {M[j] : j \in J}
      BY DEF HistoryFlows
    <2>2. \A j \in J : counts[j] = Cardinality(M[j])
      BY <1>4
    <2>3. \A i, j \in J : i # j => M[i] \cap M[j] = {}
      BY <1>3
    <2>4. DOMAIN counts = J
      OBVIOUS
    <2> HIDE DEF counts, M, U, J
    <2> QED
      BY <1>2, <2>1, <2>2, <2>3, <2>4, SumIsUnion
  <1>6. SumOf(failures) = Cardinality(failing)
    <2>1. failing = UNION {F[j] : j \in J}
      BY DEF HistoryFlows
    <2>2. \A j \in J : failures[j] = Cardinality(F[j])
      BY <1>4
    <2>3. \A i, j \in J : i # j => F[i] \cap F[j] = {}
      BY <1>3
    <2>4. IsFiniteSet(failing)
      BY <1>2, FS_Subset
    <2>5. DOMAIN failures = J
      OBVIOUS
    <2> HIDE DEF failures, F, failing, J
    <2> QED
      BY <2>1, <2>2, <2>3, <2>4, <2>5, SumIsUnion
  <1>7. UNION {windows[j].dsts : j \in J} = {flows[i].dst : i \in U}
    <2>1. U = UNION {Members(j) : j \in J}
      BY DEF HistoryFlows
    <2>2. ASSUME NEW d \in UNION {windows[j].dsts : j \in J} PROVE d \in {flows[i].dst : i \in U}
      <3>1. PICK j \in J : d \in windows[j].dsts
        BY <2>2
      <3>2. windows[j].dsts = {flows[i].dst : i \in Members(j)}
        BY <1>4
      <3>3. d \in {flows[i].dst : i \in Members(j)}
        BY <3>1, <3>2
      <3>4. PICK i \in Members(j) : d = flows[i].dst
        BY <3>3
      <3>5. i \in U
        BY <2>1
      <3> QED
        BY <3>4, <3>5
    <2>3. ASSUME NEW d \in {flows[i].dst : i \in U} PROVE d \in UNION {windows[j].dsts : j \in J}
      <3>1. PICK i \in U : d = flows[i].dst
        BY <2>3
      <3>2. PICK j \in J : i \in Members(j)
        BY <2>1
      <3>3. d \in windows[j].dsts
        BY <1>4, <3>1, <3>2
      <3> QED
        BY <3>3
    <2> QED
      BY <2>2, <2>3
  <1>8. Rolling(k, n) = [count |-> SumOf(counts), failed |-> SumOf(failures),
                         dsts |-> UNION {windows[j].dsts : j \in J}]
    BY DEF Rolling
  <1> HIDE DEF J, U, failing, counts, failures
  <1>9. /\ Rolling(k, n).count = SumOf(counts) /\ Rolling(k, n).failed = SumOf(failures)
        /\ Rolling(k, n).dsts = UNION {windows[j].dsts : j \in J}
    BY <1>8
  <1> QED
    BY <1>2, <1>5, <1>6, <1>7, <1>9 DEF U, failing

\* The flows of the last windows are in the history, and without gaps no others.
LEMMA RecentIs ==
  ASSUME WindowsInv, pc = "built", NEW k \in DOMAIN windows, NEW n \in Nat \ {0},
         NEW R, R = FlowsIn(k[1], k[2] - (n - 1) * Width, k[2] + Width)
  PROVE  R \subseteq HistoryFlows(k, n) /\ (includeEmpty => HistoryFlows(k, n) \subseteq R)
  <1>1. /\ k \in Sources \X Nat /\ k[2] % Width = 0 /\ Width \in Nat \ {0} /\ k[2] \in Nat
    BY WindowIs, WindowsAssumption
  <1>2. PICK b \in Nat : k[2] = b * Width
    BY <1>1, StartNumber
  <1>3. PICK w : w = Width
    OBVIOUS
  <1>4. PICK last \in Nat : n = last + 1
    <2>1. n - 1 \in Nat /\ n = (n - 1) + 1
      OBVIOUS
    <2> QED
      BY <2>1
  <1>5. R = {i \in 1..added : flows[i].src = k[1] /\ k[2] - last * Width <= flows[i].ts
                              /\ flows[i].ts < k[2] + Width}
    <2>1. n - 1 = last
      BY <1>4
    <2> QED
      BY <2>1 DEF FlowsIn
  <1>6. ASSUME NEW i \in R PROVE i \in HistoryFlows(k, n)
    <2>1. i \in 1..added /\ flows[i].src = k[1] /\ k[2] - last * Width <= flows[i].ts
          /\ flows[i].ts < k[2] + Width
      BY <1>5
    <2> DEFINE j == KeyOf(flows[i])
    <2>2. flows[i] \in FlowSet /\ flows[i].ts \in Nat
      <3>1. flows[i] \in FlowSet
        BY <2>1, WindowIs
      <3> QED
        BY <3>1, WindowsAssumption, FlowIs
    <2>3. j \in DOMAIN windows
      BY <2>1 DEF WindowsInv, BuildInv
    <2>4. j[1] = k[1] /\ j[2] <= flows[i].ts /\ flows[i].ts < j[2] + Width /\ i \in Members(j)
      BY <2>1, <2>2, <2>3, KeyIs, WindowIs
    <2> HIDE DEF j
    <2>5. PICK a \in Nat : j[2] = a * Width
      <3>1. j[2] \in Nat /\ j[2] % Width = 0
        BY <2>3, WindowIs
      <3> QED
        BY <3>1, StartNumber
    <2>6. PICK x, y, z, t \in Nat : x = a * Width /\ y = b * Width /\ z = last * Width /\ t = flows[i].ts
      <3>1. a * Width \in Nat /\ b * Width \in Nat /\ last * Width \in Nat
        BY NumbersOrder
      <3> QED
        BY <2>2, <3>1
    <2>7. /\ x <= t /\ t < x + w /\ y - z <= t /\ t < y + w
      BY <1>2, <1>3, <2>1, <2>4, <2>5, <2>6
    <2>8. a <= b
      <3>1. SUFFICES ASSUME b + 1 <= a PROVE FALSE
        OBVIOUS
      <3>2. (b + 1) * Width <= a * Width
        BY <1>1, <3>1
      <3>3. (b + 1) * Width = y + w
        BY <1>1, <1>3, <2>6
      <3>4. y + w <= x
        BY <2>6, <3>2, <3>3
      <3> QED
        BY <1>1, <1>3, <2>6, <2>7, <3>4
    <2>9. b - a < n
      <3>1. SUFFICES ASSUME a + n <= b PROVE FALSE
        OBVIOUS
      <3>2. (a + n) * Width <= b * Width
        BY <1>1, <3>1
      <3>3. (a + n) * Width = a * Width + last * Width + Width
        BY <1>1, <1>4
      <3>4. x + z + w <= y
        BY <1>3, <2>6, <3>2, <3>3
      <3> QED
        BY <1>1, <1>3, <2>6, <2>7, <3>4
    <2>10. j \in History(k, n)
      BY <1>2, <2>3, <2>4, <2>5, <2>8, <2>9, HistoryReaches
    <2> QED
      BY <2>4, <2>10 DEF HistoryFlows
  <1>7. ASSUME includeEmpty, NEW i \in HistoryFlows(k, n) PROVE i \in R
    <2>1. PICK j \in History(k, n) : i \in Members(j)
      BY DEF HistoryFlows
    <2>2. j \in DOMAIN windows /\ j[1] = k[1] /\ j[2] <= k[2]
      BY <2>1 DEF History
    <2>3. PICK a \in Nat : j[2] = a * Width
      <3>1. j[2] \in Nat /\ j[2] % Width = 0
        BY <2>2, WindowIs
      <3> QED
        BY <3>1, StartNumber
    <2>4. a <= b /\ b - a < n
      BY <1>2, <1>7, <2>1, <2>3, HistoryEnds
    <2>5. i \in 1..added /\ flows[i].src = k[1] /\ j[2] <= flows[i].ts /\ flows[i].ts < j[2] + Width
          /\ flows[i].ts \in Nat
      <3>1. i \in 1..added
        BY <2>1, <2>2, WindowIs
      <3>2. flows[i] \in FlowSet
        BY <2>2, <3>1, WindowIs
      <3>3. flows[i].ts \in Nat
        BY <3>2, WindowsAssumption, FlowIs
      <3> QED
        BY <2>1, <2>2, <3>1, <3>3 DEF Members, FlowsIn
    <2>6. PICK x, y, z, t \in Nat : x = a * Width /\ y = b * Width /\ z = last * Width /\ t = flows[i].ts
      <3>1. a * Width \in Nat /\ b * Width \in Nat /\ last * Width \in Nat
        BY NumbersOrder
      <3> QED
        BY <2>5, <3>1
    <2>7. y - z <= x /\ x <= y
      <3>1. b <= a + last
        BY <1>4, <2>4
      <3>2. b * Width <= (a + last) * Width
        BY <1>1, <3>1
      <3>3. (a + last) * Width = a * Width + last * Width
        BY <1>1
      <3>4. y <= x + z
        BY <2>6, <3>2, <3>3
      <3>5. x <= y
        BY <1>2, <2>2, <2>3, <2>6
      <3> QED
        BY <2>6, <3>4, <3>5
    <2>8. y - z <= t /\ t < y + w
      <3>1. x <= t /\ t < x + w /\ w \in Nat
        BY <1>1, <1>3, <2>3, <2>5, <2>6
      <3> QED
        BY <2>6, <2>7, <3>1
    <2>9. k[2] - last * Width <= flows[i].ts /\ flows[i].ts < k[2] + Width
      BY <1>2, <1>3, <2>6, <2>8
    <2> QED
      BY <1>5, <2>5, <2>9
  <1> QED
    BY <1>6, <1>7

LEMMA RollingDoesReach ==
  ASSUME WindowsInv PROVE RollingReachesBack
  <1>1. SUFFICES ASSUME pc = "built", NEW k \in DOMAIN windows, NEW n \in RollingSizes,
                        NEW R, R = FlowsIn(k[1], k[2] - (n - 1) * Width, k[2] + Width)
                 PROVE  /\ Rolling(k, n).count >= Cardinality(R)
                        /\ {flows[i].dst : i \in R} \subseteq Rolling(k, n).dsts
                        /\ includeEmpty =>
                             /\ Rolling(k, n).count = Cardinality(R)
                             /\ Rolling(k, n).failed = Cardinality({i \in R : flows[i].failed})
                             /\ Rolling(k, n).dsts = {flows[i].dst : i \in R}
    BY DEF RollingReachesBack
  <1>2. n \in Nat \ {0}
    BY DEF RollingSizes
  <1> DEFINE U == HistoryFlows(k, n)
  <1>3. R \subseteq U /\ (includeEmpty => U \subseteq R)
    BY <1>1, <1>2, RecentIs
  <1>4. /\ IsFiniteSet(U) /\ Rolling(k, n).count = Cardinality(U)
        /\ Rolling(k, n).failed = Cardinality({i \in U : flows[i].failed})
        /\ Rolling(k, n).dsts = {flows[i].dst : i \in U}
    BY RollingIs
  <1> HIDE DEF U
  <1>5. Cardinality(R) <= Cardinality(U) /\ Cardinality(R) \in Nat /\ Cardinality(U) \in Nat
    BY <1>3, <1>4, FS_Subset, FS_CardinalityType
  <1>6. includeEmpty => U = R
    BY <1>3
  <1> QED
    BY <1>3, <1>4, <1>5, <1>6

\* What a row of the features says is what the log says, of its window and of those
\* before it, for any log, any width and both sizes: the rolling context misses no
\* flow of the last window lengths, and where gaps are filled it sums up exactly
\* these.
THEOREM RowsAreTrue == Spec => []RowsTellLog
  <1>1. WindowsInv => RowsTellLog
    BY RollingDoesReach DEF WindowsInv, RowsTellLog
  <1> QED
    BY <1>1, WindowsInit, WindowsNext, PTL DEF Spec
=============================================================================
