-------------------------- MODULE CaptureRun_proofs --------------------------
(***************************************************************************)
(* Proofs about CaptureRun for any pairs, repeats, intervals and bounds:   *)
(* the ground truth labels what was captured, and exit code 0 means a      *)
(* complete capture, whatever is killed, cut or refused on the way.  Then  *)
(* about BulkCollector, which makes many such captures, for any scenarios  *)
(* and options: what it plans is what its dataset has.                     *)
(***************************************************************************)
EXTENDS CaptureRun, BulkCollector, FiniteSetTheorems, SequenceTheorems, TLAPS

LEMMA Bounds ==
  Repeat \in Nat /\ Interval \in Nat /\ MaxAttempts \in Nat /\ MaxClock \in Nat /\ MaxFaults \in Nat
  BY CaptureAssumption

USE Bounds DEF historyVars, Attempts, Times

LEMMA InitTypeOK == Init => TypeOK
  <1> SUFFICES ASSUME Init PROVE TypeOK
    OBVIOUS
  <1>1. MainOff \in Main /\ ScenarioOff \in Scenario
    BY DEF MainOff, ScenarioOff, Main, Scenario
  <1>2. 0 \in 0..MaxClock /\ 0 \in 0..MaxAttempts /\ 0 \in 0..MaxFaults
    OBVIOUS
  <1> QED
    BY <1>1, <1>2, Zenon DEF Init, TypeOK

\* The types of the records after an update of some of their fields.
LEMMA MainUpdates ==
  ASSUME NEW m \in Main, NEW n \in Nat
  PROVE  /\ MainOff \in Main /\ [MainOff EXCEPT !.pc = "wait"] \in Main
         /\ [m EXCEPT !.pc = "loop", !.deadline = n] \in Main
         /\ [m EXCEPT !.pc = "attempt", !.attempts = @ + 1] \in Main
         /\ [m EXCEPT !.pc = "sleep", !.wake = n] \in Main
         /\ \A ok \in BOOLEAN : /\ [m EXCEPT !.pc = "flush", !.ok = ok] \in Main
                               /\ [m EXCEPT !.pc = "stop", !.ok = ok] \in Main
         /\ \A l \in {"off", "loop", "flush", "stop"} : [m EXCEPT !.pc = l] \in Main
  <1> USE DEF Main
  <1>1. MainOff \in Main /\ [MainOff EXCEPT !.pc = "wait"] \in Main
    BY DEF MainOff
  <1>2. [m EXCEPT !.pc = "loop", !.deadline = n] \in Main
    OBVIOUS
  <1>5. [m EXCEPT !.pc = "attempt", !.attempts = @ + 1] \in Main
    <2>1. m.attempts + 1 \in Nat
      OBVIOUS
    <2> QED
      BY <2>1
  <1>6. [m EXCEPT !.pc = "sleep", !.wake = n] \in Main
    OBVIOUS
  <1>3. \A ok \in BOOLEAN : /\ [m EXCEPT !.pc = "flush", !.ok = ok] \in Main
                           /\ [m EXCEPT !.pc = "stop", !.ok = ok] \in Main
    OBVIOUS
  <1>4. \A l \in {"off", "loop", "flush", "stop"} : [m EXCEPT !.pc = l] \in Main
    OBVIOUS
  <1> QED
    BY <1>1, <1>2, <1>3, <1>4, <1>5, <1>6

LEMMA ScenarioUpdates ==
  ASSUME NEW s \in Scenario, NEW t \in Times
  PROVE  /\ [ScenarioOff EXCEPT !.ok = FALSE] \in Scenario
         /\ \A a \in 0..MaxAttempts : [ScenarioOff EXCEPT !.pc = "start", !.attempt = a] \in Scenario
         /\ [s EXCEPT !.pc = "scan", !.from = t] \in Scenario
         /\ \A ok \in BOOLEAN :
              [s EXCEPT !.to = t, !.ok = ok, !.left = Pairs, !.pc = "truth"] \in Scenario
         /\ \A p, l : l \in {"off", "truth"} => [s EXCEPT !.left = @ \ {p}, !.pc = l] \in Scenario
         /\ [s EXCEPT !.pc = "off", !.ok = FALSE] \in Scenario
  <1> USE DEF Scenario
  <1>0. ScenarioOff \in Scenario
    BY DEF ScenarioOff
  <1>1. [ScenarioOff EXCEPT !.ok = FALSE] \in Scenario
    BY <1>0
  <1>2. ASSUME NEW a \in 0..MaxAttempts
        PROVE  [ScenarioOff EXCEPT !.pc = "start", !.attempt = a] \in Scenario
    BY <1>0
  <1>3. [s EXCEPT !.pc = "scan", !.from = t] \in Scenario
    OBVIOUS
  <1>4. ASSUME NEW ok \in BOOLEAN
        PROVE  [s EXCEPT !.to = t, !.ok = ok, !.left = Pairs, !.pc = "truth"] \in Scenario
    OBVIOUS
  <1>5. ASSUME NEW p, NEW l \in {"off", "truth"}
        PROVE  [s EXCEPT !.left = @ \ {p}, !.pc = l] \in Scenario
    OBVIOUS
  <1>6. [s EXCEPT !.pc = "off", !.ok = FALSE] \in Scenario
    OBVIOUS
  <1> QED
    BY <1>1, <1>2, <1>3, <1>4, <1>5, <1>6

LEMMA NextTypeOK == TypeOK /\ ProcessInv /\ [Next]_vars => TypeOK'
  <1> SUFFICES ASSUME TypeOK, ProcessInv, [Next]_vars PROVE TypeOK'
    OBVIOUS
  <1> USE DEF TypeOK
  <1>0. clock \in Nat /\ clock + Repeat \in Nat /\ main.deadline \in Nat /\ main.wake \in Nat
    BY DEF Main
  <1>1. CASE Begin
    BY <1>1, MainUpdates DEF Begin
  <1>2. CASE EndWait
    BY <1>0, <1>2, MainUpdates DEF EndWait
  <1>3. CASE Attempt
    <2>1. tried' \in 0..MaxAttempts
      BY <1>3 DEF Attempt
    <2> QED
      BY <1>0, <1>3, <2>1, MainUpdates, ScenarioUpdates DEF Attempt
  <1>4. CASE NoMore \/ EndSleep \/ EndFlush \/ StopCapture
    BY <1>0, <1>4, MainUpdates DEF NoMore, EndSleep, EndFlush, StopCapture
  <1>5. CASE AttemptEnds
    <2>1. WakeAt \in Nat /\ scenario.ok \in BOOLEAN
      BY <1>0 DEF WakeAt, Scenario
    <2> QED
      BY <1>0, <1>5, <2>1, MainUpdates DEF AttemptEnds
  <1>6. CASE StartNmap
    <2>1. scenario.attempt \in Attempts
      BY <1>6 DEF StartNmap, ProcessInv
    <2> QED
      BY <1>6, <2>1, ScenarioUpdates DEF StartNmap
  <1>7. CASE ScanEnds
    <2>1. PICK ok \in BOOLEAN :
            scenario' = [scenario EXCEPT !.to = clock, !.ok = ok, !.left = Pairs, !.pc = "truth"]
      BY <1>7 DEF ScanEnds
    <2>2. scenario' \in Scenario
      BY <2>1, ScenarioUpdates
    <2> QED
      BY <1>7, <2>2 DEF ScanEnds
  <1>8. CASE WriteTruth
    <2>1. PICK p \in scenario.left :
            /\ truth' = truth \cup {[pair |-> p, from |-> scenario.from, to |-> scenario.to]}
            /\ scenario' = [scenario EXCEPT !.left = @ \ {p},
                              !.pc = IF scenario.left = {p} THEN "off" ELSE "truth"]
      BY <1>8 DEF WriteTruth
    <2>2. p \in Pairs /\ scenario.from \in Times /\ scenario.to \in Times
      BY DEF Scenario
    <2>3. scenario' \in Scenario
      BY <2>1, <2>2, ScenarioUpdates
    <2> QED
      BY <1>8, <2>1, <2>2, <2>3 DEF WriteTruth
  <1>9. CASE WriteFails
    <2>1. scenario.attempt \in Attempts
      BY <1>9 DEF WriteFails, ProcessInv
    <2>2. scenario' \in Scenario
      BY <1>9, ScenarioUpdates DEF WriteFails
    <2>3. faults' \in 0..MaxFaults
      BY <1>9 DEF WriteFails
    <2> QED
      BY <1>9, <2>1, <2>2, <2>3 DEF WriteFails
  <1>10. CASE TcpdumpStarts \/ TcpdumpFails
    BY <1>10 DEF TcpdumpStarts, TcpdumpFails
  <1>11. CASE Tick
    BY <1>11 DEF Tick
  <1>12. ASSUME NEW a \in Attempts, NmapSends(a) PROVE TypeOK'
    BY <1>12 DEF NmapSends, Probe
  <1>13. ASSUME NEW a \in Attempts, NmapEnds(a) PROVE TypeOK'
    BY <1>13 DEF NmapEnds
  <1>14. CASE Kill \/ Interrupt
    <2>1. ScenarioDies /\ (scenario.pc # "off" => scenario.attempt \in Attempts)
      BY <1>14 DEF Kill, Interrupt, ProcessInv
    <2>2. main' \in Main /\ scenario' \in Scenario
      BY <1>14, MainUpdates, ScenarioUpdates DEF Kill, Interrupt, ScenarioDies
    <2>3. UNCHANGED <<pcap, truth, clock, tried, sent>>
      BY <1>14 DEF Kill, Interrupt, ScenarioDies
    <2>4. nmaps' \subseteq nmaps /\ tcpdump' \in {"off", tcpdump} /\ missing' \in BOOLEAN
      BY <2>1 DEF ScenarioDies
    <2>5. cut' \subseteq Attempts
      BY <2>1 DEF ScenarioDies
    <2>6. faults' \in 0..MaxFaults
      BY <2>1 DEF ScenarioDies
    <2> QED
      BY <2>2, <2>3, <2>4, <2>5, <2>6
  <1>15. CASE UNCHANGED vars
    BY <1>15 DEF vars
  <1> QED
    BY <1>1, <1>2, <1>3, <1>4, <1>5, <1>6, <1>7, <1>8, <1>9, <1>10, <1>11, <1>12, <1>13, <1>14,
       <1>15 DEF Next, MainSteps, ScenarioSteps

-----------------------------------------------------------------------------
(* Which processes run.                                                    *)

LEMMA InitProcessInv == Init => ProcessInv
  BY DEF Init, ProcessInv, MainOff, ScenarioOff

LEMMA NextProcessInv == TypeOK /\ ProcessInv /\ [Next]_vars => ProcessInv'
  <1> SUFFICES ASSUME TypeOK, ProcessInv, [Next]_vars PROVE ProcessInv'
    OBVIOUS
  <1> USE DEF TypeOK, ProcessInv
  <1>1. CASE Begin
    BY <1>1 DEF Begin, MainOff
  <1>2. ASSUME main.pc # "attempt", main'.pc # "attempt",
               UNCHANGED <<scenario, nmaps, tried, cut>>
        PROVE  ProcessInv'
    BY <1>2
  <1>14. CASE EndWait \/ NoMore \/ EndSleep \/ EndFlush \/ StopCapture
    BY <1>2, <1>14 DEF EndWait, NoMore, EndSleep, EndFlush, StopCapture, Main
  <1>3. CASE Attempt
    BY <1>3 DEF Attempt, ScenarioOff
  <1>4. CASE AttemptEnds
    BY <1>4 DEF AttemptEnds
  <1>5. CASE StartNmap
    BY <1>5 DEF StartNmap
  <1>6. CASE ScanEnds
    BY <1>6 DEF ScanEnds
  <1>7. CASE WriteTruth
    BY <1>7 DEF WriteTruth
  <1>8. CASE WriteFails
    BY <1>8 DEF WriteFails
  <1>9. CASE TcpdumpStarts \/ TcpdumpFails \/ Tick
    BY <1>9 DEF TcpdumpStarts, TcpdumpFails, Tick
  <1>10. ASSUME NEW a \in Attempts, NmapSends(a) \/ NmapEnds(a) PROVE ProcessInv'
    BY <1>10 DEF NmapSends, NmapEnds
  <1>11. CASE Kill
    BY <1>11 DEF Kill, ScenarioDies, MainOff, ScenarioOff
  <1>12. CASE Interrupt
    BY <1>12 DEF Interrupt, ScenarioDies, ScenarioOff
  <1>13. CASE UNCHANGED vars
    BY <1>13 DEF vars
  <1> QED
    BY <1>1, <1>2, <1>3, <1>4, <1>5, <1>6, <1>7, <1>8, <1>9, <1>10, <1>11, <1>12, <1>13, <1>14
    DEF Next, MainSteps, ScenarioSteps

\* The variables have their types, and the containers that run are accounted for.
THEOREM ProcessesAccounted == Spec => [](TypeOK /\ ProcessInv)
  BY InitTypeOK, NextTypeOK, InitProcessInv, NextProcessInv, PTL DEF Spec

-----------------------------------------------------------------------------
(* Labels.                                                                 *)

\* The log only grows, no cut is undone, the clock does not go back.
LEMMA Grows ==
  ASSUME TypeOK, [Next]_vars
  PROVE  truth \subseteq truth' /\ cut \subseteq cut' /\ clock \in Nat /\ clock' \in Nat /\ clock' >= clock
  <1>1. clock \in Nat
    BY DEF TypeOK
  <1>2. truth \subseteq truth' /\ cut \subseteq cut' /\ (clock' = clock \/ clock' = clock + 1)
    <2>1. CASE Begin \/ EndWait \/ Attempt \/ NoMore \/ AttemptEnds \/ EndSleep \/ EndFlush \/ StopCapture
      BY <2>1 DEF Begin, EndWait, Attempt, NoMore, AttemptEnds, EndSleep, EndFlush, StopCapture
    <2>2. CASE StartNmap \/ ScanEnds \/ WriteTruth \/ WriteFails
      BY <2>2 DEF StartNmap, ScanEnds, WriteTruth, WriteFails
    <2>3. CASE TcpdumpStarts \/ TcpdumpFails \/ Tick \/ UNCHANGED vars
      BY <2>3 DEF TcpdumpStarts, TcpdumpFails, Tick, vars
    <2>4. ASSUME NEW a \in Attempts, NmapSends(a) \/ NmapEnds(a)
          PROVE  truth' = truth /\ cut' = cut /\ clock' = clock
      BY <2>4 DEF NmapSends, NmapEnds
    <2>5. CASE Kill \/ Interrupt
      BY <2>5 DEF Kill, Interrupt, ScenarioDies
    <2> QED
      BY <2>1, <2>2, <2>3, <2>4, <2>5 DEF Next, MainSteps, ScenarioSteps
  <1> QED
    BY <1>1, <1>2

LEMMA LabelledStays ==
  ASSUME TypeOK, [Next]_vars, NEW probe, Labelled(probe)
  PROVE  Labelled(probe)'
  BY Grows DEF Labelled

\* The steps of the scenario.
ScenarioRecords == Attempt \/ StartNmap \/ ScanEnds \/ WriteTruth \/ WriteFails \/ Kill \/ Interrupt

LEMMA ScenarioSame ==
  ASSUME [Next]_vars, ~ScenarioRecords
  PROVE  UNCHANGED <<scenario, cut>>
  BY DEF Next, MainSteps, ScenarioSteps, ScenarioRecords, Begin, EndWait, NoMore, AttemptEnds, EndSleep,
         EndFlush, StopCapture, TcpdumpStarts, TcpdumpFails, Tick, NmapSends, NmapEnds, vars

\* A probe in hand stays so until it is labelled, if the scenario is not cut.
LEMMA Carry ==
  ASSUME TypeOK, ProcessInv, LabelInv, [Next]_vars, ~(WriteFails \/ Kill \/ Interrupt),
         NEW probe \in pcap \cup sent, InHand(probe)
  PROVE  Labelled(probe)' \/ InHand(probe)'
  <1>1. probe \in Probe /\ probe.at <= clock /\ probe.pair \in Pairs /\ probe.at \in Nat
    BY DEF TypeOK, LabelInv, Probe
  <1>2. CASE ~ScenarioRecords
    BY <1>2, ScenarioSame DEF InHand
  <1>3. ~Attempt /\ ~StartNmap
    BY DEF Attempt, StartNmap, InHand, ProcessInv
  <1>4. CASE ScanEnds
    <2>1. PICK ok \in BOOLEAN :
            scenario' = [scenario EXCEPT !.to = clock, !.ok = ok, !.left = Pairs, !.pc = "truth"]
      BY <1>4 DEF ScanEnds
    <2>2. /\ scenario'.pc = "truth" /\ scenario'.to = clock /\ scenario'.left = Pairs
          /\ scenario'.attempt = scenario.attempt /\ scenario'.from = scenario.from
      BY <2>1 DEF TypeOK, Scenario
    <2> QED
      BY <1>1, <2>2 DEF InHand
  <1>5. CASE WriteTruth
    <2>1. PICK p \in scenario.left :
            /\ truth' = truth \cup {[pair |-> p, from |-> scenario.from, to |-> scenario.to]}
            /\ scenario' = [scenario EXCEPT !.left = @ \ {p},
                              !.pc = IF scenario.left = {p} THEN "off" ELSE "truth"]
      BY <1>5 DEF WriteTruth
    <2>2. /\ scenario.pc = "truth" /\ probe.attempt = scenario.attempt
          /\ scenario.from <= probe.at /\ probe.at <= scenario.to /\ probe.pair \in scenario.left
      BY <1>5 DEF InHand, WriteTruth
    <2>3. CASE probe.pair = p
      <3>1. [pair |-> p, from |-> scenario.from, to |-> scenario.to] \in truth'
        BY <2>1
      <3> QED
        BY <2>2, <2>3, <3>1 DEF Labelled
    <2>4. CASE probe.pair # p
      <3>1. /\ scenario'.pc = "truth" /\ scenario'.left = scenario.left \ {p}
            /\ UNCHANGED <<scenario.attempt, scenario.from, scenario.to>>
        BY <2>1, <2>2, <2>4 DEF TypeOK, Scenario
      <3> QED
        BY <2>2, <2>4, <3>1 DEF InHand
    <2> QED
      BY <2>3, <2>4
  <1> QED
    BY <1>2, <1>3, <1>4, <1>5 DEF ScenarioRecords

\* What a cut leaves unlabelled is known by its attempt.
LEMMA CutInHand ==
  ASSUME WriteFails \/ Kill \/ Interrupt, NEW probe, InHand(probe)
  PROVE  probe.attempt \in cut'
  BY DEF WriteFails, Kill, Interrupt, ScenarioDies, InHand

LEMMA CaptureSame ==
  ASSUME [Next]_vars, ~(\E a \in Attempts : NmapSends(a))
  PROVE  pcap' \subseteq pcap /\ sent' \subseteq sent
  BY DEF Next, MainSteps, ScenarioSteps, Begin, EndWait, Attempt, NoMore, AttemptEnds, EndSleep,
         EndFlush, StopCapture, StartNmap, ScanEnds, WriteTruth, WriteFails, TcpdumpStarts,
         TcpdumpFails, Tick, NmapEnds, Kill, Interrupt, ScenarioDies, vars

LEMMA InitLabelInv == Init => LabelInv
  BY DEF Init, LabelInv, ScenarioOff

LEMMA NextLabelInv == TypeOK /\ ProcessInv /\ LabelInv /\ [Next]_vars => LabelInv'
  <1> SUFFICES ASSUME TypeOK, ProcessInv, LabelInv, [Next]_vars PROVE LabelInv'
    OBVIOUS
  <1>1. scenario'.from <= clock'
    <2>1. scenario'.from \in {scenario.from, 0, clock}
      BY ScenarioSame DEF ScenarioRecords, Attempt, StartNmap, ScanEnds, WriteTruth, WriteFails, Kill,
                          Interrupt, ScenarioDies, ScenarioOff, TypeOK, Scenario
    <2>2. scenario.from \in Nat /\ scenario.from <= clock
      BY DEF TypeOK, Scenario, LabelInv
    <2> QED
      BY <2>1, <2>2, Grows
  <1>2. CASE ~(\E a \in Attempts : NmapSends(a))
    <2>1. \A probe \in pcap' \cup sent' : probe.at <= clock'
      <3>1. \A probe \in pcap \cup sent : probe.at \in Nat /\ probe.at <= clock
        BY DEF LabelInv, TypeOK, Probe
      <3> QED
        BY <1>2, <3>1, Grows, CaptureSame
    <2>2. ASSUME NEW probe \in pcap'
          PROVE  Labelled(probe)' \/ probe.attempt \in cut' \/ InHand(probe)'
      <3>1. probe \in pcap
        BY <1>2, CaptureSame
      <3>2. CASE Labelled(probe) \/ probe.attempt \in cut
        BY <3>2, Grows, LabelledStays
      <3>3. CASE InHand(probe)
        BY <3>1, <3>3, Carry, CutInHand
      <3> QED
        BY <3>1, <3>2, <3>3 DEF LabelInv
    <2> QED
      BY <1>1, <2>1, <2>2 DEF LabelInv
  <1>3. ASSUME NEW a \in Attempts, NmapSends(a) PROVE LabelInv'
    <2>1. PICK p \in Pairs :
            /\ sent' \subseteq sent \cup {[attempt |-> a, pair |-> p, at |-> clock]}
            /\ pcap' \subseteq pcap \cup {[attempt |-> a, pair |-> p, at |-> clock]}
      BY <1>3 DEF NmapSends
    <2>2. UNCHANGED <<scenario, truth, clock, cut>>
      BY <1>3 DEF NmapSends
    <2> DEFINE new == [attempt |-> a, pair |-> p, at |-> clock]
    <2>3. new.attempt = a /\ new.at = clock /\ clock \in Nat
      BY DEF TypeOK
    <2>4. a \in cut \/ InHand(new)
      BY <1>3, <2>3 DEF NmapSends, ProcessInv, LabelInv, InHand
    <2> HIDE DEF new
    <2>5. \A probe : (Labelled(probe)' <=> Labelled(probe)) /\ (InHand(probe)' <=> InHand(probe))
      BY <2>2 DEF Labelled, InHand
    <2>6. \A probe \in pcap' \cup sent' : probe \in pcap \cup sent \/ probe = new
      BY <2>1 DEF new
    <2>7. \A probe \in pcap' : probe \in pcap \/ probe = new
      BY <2>1 DEF new
    <2> QED
      BY <1>1, <2>2, <2>3, <2>4, <2>5, <2>6, <2>7 DEF LabelInv
  <1> QED
    BY <1>2, <1>3

\* When the scripts have ended, every probe of the capture lies in the interval
\* of an event of its target and port, unless its scenario was cut.
THEOREM LogLabelsCapture == Spec => []LogTellsCapture
  <1>1. TypeOK /\ ProcessInv /\ LabelInv => LogTellsCapture
    BY DEF ProcessInv, LabelInv, InHand, LogTellsCapture, UnlabelledWasCut
  <1> QED
    BY <1>1, InitLabelInv, NextLabelInv, ProcessesAccounted, PTL DEF Spec

-----------------------------------------------------------------------------
(* What exit code 0 means.                                                 *)

LEMMA InitSentInv == Init => Capturing /\ Telling /\ LastsAsAsked
  BY DEF Init, Capturing, Telling, Failed, LastsAsAsked, MainOff

\* A kill leaves no capture script, an interrupt one that stops and fails.
LEMMA DeathShape ==
  ASSUME TypeOK, Kill \/ Interrupt
  PROVE  /\ \/ main'.pc = "off" /\ main'.attempts = 0 /\ main'.ok
            \/ main'.pc = "stop" /\ ~main'.ok
         /\ missing' = TRUE /\ tcpdump' \in {"off", tcpdump} /\ UNCHANGED <<pcap, sent, clock, tried>>
  <1>1. missing' = TRUE /\ tcpdump' \in {"off", tcpdump} /\ UNCHANGED <<pcap, sent, clock, tried>>
    BY DEF Kill, Interrupt, ScenarioDies
  <1>2. CASE Kill
    BY <1>1, <1>2 DEF Kill, MainOff
  <1>3. CASE Interrupt
    <2>1. main' = [main EXCEPT !.pc = "stop", !.ok = FALSE] /\ main \in Main
      BY <1>3 DEF Interrupt, TypeOK
    <2>2. main'.pc = "stop" /\ ~main'.ok
      BY <2>1 DEF Main
    <2> QED
      BY <1>1, <2>2
  <1> QED
    BY <1>2, <1>3

\* The capture's own part.
LEMMA NextCapturing == TypeOK /\ Capturing /\ [Next]_vars => Capturing'
  <1> SUFFICES ASSUME TypeOK, Capturing, [Next]_vars PROVE Capturing'
    OBVIOUS
  <1>0. main \in Main
    BY DEF TypeOK
  <1>1. CASE UNCHANGED <<main, tcpdump, missing, sent, pcap>>
    BY <1>1 DEF Capturing
  <1>2. CASE Begin
    BY <1>2 DEF Begin, MainOff, Capturing
  <1>3. CASE EndWait
    BY <1>0, <1>3 DEF EndWait, Capturing, Main
  <1>4. CASE Attempt \/ NoMore \/ EndSleep \/ EndFlush
    BY <1>0, <1>4 DEF Attempt, NoMore, EndSleep, EndFlush, Capturing, Main
  <1>5. CASE AttemptEnds
    BY <1>0, <1>5 DEF AttemptEnds, Capturing, Main
  <1>6. CASE StopCapture
    BY <1>0, <1>6 DEF StopCapture, Capturing, Main
  <1>7. CASE TcpdumpStarts
    BY <1>7 DEF TcpdumpStarts, Capturing
  <1>8. CASE TcpdumpFails
    BY <1>8 DEF TcpdumpFails, Capturing
  <1>9. ASSUME NEW a \in Attempts, NmapSends(a) PROVE Capturing'
    BY <1>9 DEF NmapSends, Capturing
  <1>10. CASE Kill \/ Interrupt
    BY <1>10, DeathShape DEF Capturing
  <1>11. ASSUME NEW a \in Attempts, NmapEnds(a) PROVE Capturing'
    BY <1>1, <1>11 DEF NmapEnds
  <1>12. CASE StartNmap \/ ScanEnds \/ WriteTruth \/ WriteFails \/ Tick \/ UNCHANGED vars
    BY <1>1, <1>12 DEF StartNmap, ScanEnds, WriteTruth, WriteFails, Tick, vars
  <1> QED
    BY <1>2, <1>3, <1>4, <1>5, <1>6, <1>7, <1>8, <1>9, <1>10, <1>11, <1>12
    DEF Next, MainSteps, ScenarioSteps

\* The attempts' part.
LEMMA NextTelling ==
  TypeOK /\ ProcessInv /\ LabelInv /\ Capturing /\ Telling /\ [Next]_vars => Telling'
  <1> SUFFICES ASSUME TypeOK, ProcessInv, LabelInv, Capturing, Telling, [Next]_vars PROVE Telling'
    OBVIOUS
  <1>0. main \in Main /\ scenario \in Scenario
    BY DEF TypeOK
  <1>1. CASE Begin
    BY <1>1 DEF Begin, Telling
  <1>2. CASE WriteFails
    <2>1. main.pc = "attempt" /\ main' = main /\ scenario'.pc = "off" /\ scenario'.ok = FALSE
      BY <1>0, <1>2 DEF WriteFails, ProcessInv, Scenario
    <2> QED
      BY <2>1 DEF Telling, Failed
  <1>3. CASE Kill \/ Interrupt
    BY <1>3, DeathShape DEF Telling, Failed
  <1>4. ASSUME ~Begin, ~WriteFails, ~Kill, ~Interrupt PROVE Failed => Failed'
    <2>1. CASE EndWait \/ NoMore \/ EndSleep \/ EndFlush \/ StopCapture
      BY <1>0, <2>1 DEF EndWait, NoMore, EndSleep, EndFlush, StopCapture, Failed, Main, Capturing
    <2>2. CASE Attempt
      BY <1>0, <2>2 DEF Attempt, Failed, Capturing, Main
    <2>3. CASE AttemptEnds
      BY <1>0, <2>3 DEF AttemptEnds, Failed, Main, Capturing
    <2>4. CASE StartNmap \/ ScanEnds \/ WriteTruth
      BY <1>0, <2>4 DEF StartNmap, ScanEnds, WriteTruth, Failed, ProcessInv
    <2>5. ASSUME NEW a \in Attempts, NmapSends(a) \/ NmapEnds(a) PROVE UNCHANGED <<main, scenario>>
      BY <2>5 DEF NmapSends, NmapEnds
    <2>6. CASE TcpdumpStarts \/ TcpdumpFails \/ Tick \/ UNCHANGED vars
      BY <2>6 DEF TcpdumpStarts, TcpdumpFails, Tick, vars, Failed
    <2> QED
      BY <1>4, <2>1, <2>2, <2>3, <2>4, <2>5, <2>6 DEF Next, MainSteps, ScenarioSteps, Failed
  <1>5. ASSUME ~(\E a \in Attempts : NmapSends(a)), ~WriteFails, ~Kill, ~Interrupt,
               NEW probe \in sent', Labelled(probe) \/ InHand(probe)
        PROVE  Labelled(probe)' \/ InHand(probe)'
    BY <1>5, CaptureSame, LabelledStays, Carry
  <1>6. ASSUME NEW a \in Attempts, NmapSends(a), NEW probe \in sent', ~Failed,
               \A q \in sent : Labelled(q) \/ InHand(q)
        PROVE  Labelled(probe)' \/ InHand(probe)'
    <2>1. PICK p \in Pairs :
            sent' = IF main.pc = "attempt" /\ a = scenario.attempt
                    THEN sent \cup {[attempt |-> a, pair |-> p, at |-> clock]} ELSE sent
      BY <1>6 DEF NmapSends
    <2>2. UNCHANGED <<scenario, truth>> /\ a \in nmaps
      BY <1>6 DEF NmapSends
    <2>3. (Labelled(probe)' <=> Labelled(probe)) /\ (InHand(probe)' <=> InHand(probe))
      BY <2>2 DEF Labelled, InHand
    <2>4. CASE probe \in sent
      BY <1>6, <2>3, <2>4
    <2>5. CASE probe \notin sent
      <3>1. /\ main.pc = "attempt" /\ a = scenario.attempt
            /\ probe = [attempt |-> a, pair |-> p, at |-> clock]
        BY <1>6, <2>1, <2>5
      <3>2. scenario.attempt \notin cut
        BY <1>6, <3>1 DEF ProcessInv, Failed
      <3>3. scenario.pc = "scan" /\ scenario.from <= clock
        BY <2>2, <3>1, <3>2 DEF ProcessInv, LabelInv
      <3> QED
        BY <2>3, <3>1, <3>3 DEF InHand
    <2> QED
      BY <2>4, <2>5
  <1> QED
    BY <1>1, <1>2, <1>3, <1>4, <1>5, <1>6, CaptureSame DEF Telling

\* The duration's part.
LEMMA NextLasts == TypeOK /\ Capturing /\ LastsAsAsked /\ [Next]_vars => LastsAsAsked'
  <1> SUFFICES ASSUME TypeOK, Capturing, LastsAsAsked, [Next]_vars PROVE LastsAsAsked'
    OBVIOUS
  <1>0. main \in Main /\ clock \in Nat /\ tried \in 0..MaxAttempts /\ scenario.ok \in BOOLEAN
    BY DEF TypeOK, Scenario
  <1>1. CASE Begin \/ EndWait \/ Attempt \/ EndSleep \/ EndFlush \/ StopCapture
    <2>1. main'.pc \in {"wait", "loop", "attempt", "stop", "off"}
      BY <1>0, <1>1 DEF Begin, EndWait, Attempt, EndSleep, EndFlush, StopCapture, Main, MainOff
    <2> QED
      BY <2>1 DEF LastsAsAsked
  <1>2. CASE NoMore
    BY <1>0, <1>2 DEF NoMore, Another, LastsAsAsked, Main
  <1>3. CASE AttemptEnds
    BY <1>0, <1>3 DEF AttemptEnds, LastsAsAsked, Main
  <1>4. CASE StartNmap \/ ScanEnds \/ WriteTruth \/ WriteFails \/ TcpdumpStarts \/ TcpdumpFails
             \/ UNCHANGED vars
    BY <1>4 DEF StartNmap, ScanEnds, WriteTruth, WriteFails, TcpdumpStarts, TcpdumpFails, vars,
                LastsAsAsked
  <1>5. CASE Tick
    BY <1>0, <1>5 DEF Tick, LastsAsAsked, Main
  <1>6. ASSUME NEW a \in Attempts, NmapSends(a) \/ NmapEnds(a) PROVE LastsAsAsked'
    BY <1>6 DEF NmapSends, NmapEnds, LastsAsAsked
  <1>7. CASE Kill \/ Interrupt
    BY <1>7, DeathShape DEF LastsAsAsked
  <1> QED
    BY <1>1, <1>2, <1>3, <1>4, <1>5, <1>6, <1>7 DEF Next, MainSteps, ScenarioSteps

\* Exit code 0: every probe of the capture's attempts is labelled and, unless
\* tcpdump failed or came too late, captured; repeats went on to the deadline.
THEOREM ZeroTellsComplete == Spec => []ZeroIsComplete
  <1>1. ProcessInv /\ Capturing /\ Telling /\ LastsAsAsked => ZeroIsComplete
    BY DEF Capturing, Telling, Failed, ProcessInv, InHand, ZeroIsComplete, ZeroMeansLabelled
  <1> QED
    BY <1>1, InitSentInv, NextCapturing, NextTelling, NextLasts, InitLabelInv, NextLabelInv,
       ProcessesAccounted, PTL DEF Spec


-----------------------------------------------------------------------------
(* The collection of many such captures (BulkCollector).                   *)

\* A choice of options.
LEMMA OptionIs ==
  ASSUME NEW a \in BulkOptions
  PROVE  /\ a \in BulkOption
         /\ a.selected \subseteq Range(Scenarios) /\ a.longOnly \subseteq Range(Scenarios) \ {Baseline}
         /\ a.tests \subseteq Nat /\ a.baselineRepeats \in Nat /\ a.repeats \in Nat
         /\ a.baselineSeconds \in Nat /\ a.attackSeconds \in Nat /\ a.pairs \in Nat
         /\ a.windowSeconds \in Nat \ {0}
  BY BulkCollectorAssumption DEF BulkOption

\* A scenario has a turn of its own.
LEMMA TurnIs ==
  ASSUME NEW s \in Range(Scenarios)
  PROVE  TurnOf(s) \in Nat /\ Scenarios[TurnOf(s)] = s
  <1>1. PICK i \in DOMAIN Scenarios : Scenarios[i] = s
    BY DEF Range
  <1>2. TurnOf(s) \in DOMAIN Scenarios /\ Scenarios[TurnOf(s)] = s
    BY <1>1 DEF TurnOf
  <1>3. DOMAIN Scenarios = 1..Len(Scenarios) /\ Len(Scenarios) \in Nat
    BY BulkCollectorAssumption, LenProperties
  <1> QED
    BY <1>2, <1>3

\* A run of a plan.
LEMMA PlannedIs ==
  ASSUME NEW a \in BulkOptions, NEW r \in PlannedRuns(a)
  PROVE  /\ r.scenario \in Range(Scenarios) /\ r.repeat \in Nat
         /\ r = [scenario |-> r.scenario, repeat |-> r.repeat]
  <1>1. PICK s \in Selected(a) : r \in [scenario : {s}, repeat : 1..RepeatsOf(a, s)]
    BY DEF PlannedRuns
  <1>2. RepeatsOf(a, s) \in Nat
    BY OptionIs DEF RepeatsOf
  <1> QED
    BY <1>1, <1>2 DEF Selected

\* The command works on one run at a time.
LEMMA NowIsOne ==
  ASSUME bulkArgs \in BulkOptions, left \subseteq BulkPlan, NEW r \in Now, NEW q \in Now
  PROVE  r = q
  <1>1. r \in BulkPlan /\ q \in BulkPlan /\ ~Precedes(r, q) /\ ~Precedes(q, r)
    BY DEF Now
  <1>2. /\ r.scenario \in Range(Scenarios) /\ r.repeat \in Nat
        /\ q.scenario \in Range(Scenarios) /\ q.repeat \in Nat
        /\ r = [scenario |-> r.scenario, repeat |-> r.repeat]
        /\ q = [scenario |-> q.scenario, repeat |-> q.repeat]
    BY <1>1, PlannedIs DEF BulkPlan
  <1>3. TurnOf(r.scenario) = TurnOf(q.scenario)
    BY <1>1, <1>2, TurnIs DEF Precedes
  <1>4. r.scenario = q.scenario
    BY <1>2, <1>3, TurnIs
  <1>5. r.repeat = q.repeat
    BY <1>1, <1>2, <1>4 DEF Precedes
  <1> QED
    BY <1>2, <1>4, <1>5

-----------------------------------------------------------------------------
(* What the planners expect.                                               *)

\* Max of the community modules, of two numbers.
LEMMA MaxOfTwo ==
  ASSUME NEW i \in Int, NEW j \in Int
  PROVE  Max({i, j}) \in {i, j} /\ Max({i, j}) >= i /\ Max({i, j}) >= j
  <1>1. \E x \in {i, j} : \A y \in {i, j} : x >= y
    <2>1. CASE i >= j
      BY <2>1
    <2>2. CASE j >= i
      BY <2>2
    <2> QED
      BY <2>1, <2>2
  <1> QED
    BY <1>1 DEF Max

\* A slow scan takes at least a minute.
LEMMA SlowIs ==
  ASSUME NEW a \in BulkOptions PROVE SlowSeconds(a) \in Nat
  <1>1. PICK m : m = Max({1, a.pairs})
    OBVIOUS
  <1>2. m \in Nat
    <2>1. 1 \in Int /\ a.pairs \in Int /\ a.pairs \in Nat
      BY OptionIs
    <2>2. m \in {1, a.pairs}
      BY <1>1, <2>1, MaxOfTwo
    <2> QED
      BY <2>1, <2>2
  <1> QED
    BY <1>1, <1>2 DEF SlowSeconds


\* What is expected of a run is a number of seconds: of a slow scan at least
\* what it waits for, of another what it is captured for.
LEMMA EstimateIs ==
  ASSUME NEW a \in BulkOption, a.windowSeconds \in Nat \ {0}, SlowSeconds(a) \in Nat, NEW s
  PROVE  /\ EstimatedSeconds(a, s) \in Nat
         /\ s = Baseline => EstimatedSeconds(a, s) = a.baselineSeconds
         /\ s # Baseline /\ s \in Slow =>
              /\ EstimatedSeconds(a, s) >= SlowSeconds(a)
              /\ UsesLongCapture(a, s) => /\ EstimatedSeconds(a, s) >= a.attackSeconds
                                         /\ EstimatedSeconds(a, s) \in {a.attackSeconds, SlowSeconds(a)}
              /\ ~UsesLongCapture(a, s) => EstimatedSeconds(a, s) = SlowSeconds(a)
         /\ s # Baseline /\ s \notin Slow =>
              EstimatedSeconds(a, s) = IF UsesLongCapture(a, s) THEN a.attackSeconds ELSE a.windowSeconds
  <1>1. PICK slow : slow = SlowSeconds(a)
    OBVIOUS
  <1>2. PICK long : long = IF UsesLongCapture(a, s) THEN a.attackSeconds ELSE 0
    OBVIOUS
  <1>3. /\ slow \in Nat /\ long \in Nat /\ a.baselineSeconds \in Nat /\ a.attackSeconds \in Nat
        /\ UsesLongCapture(a, s) => a.attackSeconds > 0
    BY <1>1, <1>2 DEF BulkOption, UsesLongCapture
  <1>4. PICK both : both = Max({long, slow})
    OBVIOUS
  <1>5. both \in {long, slow} /\ both >= long /\ both >= slow
    <2>1. long \in Int /\ slow \in Int
      BY <1>3
    <2> QED
      BY <1>4, <2>1, MaxOfTwo
  <1>6. Baseline \notin Slow
    BY BulkCollectorAssumption
  <1>7. EstimatedSeconds(a, s) = CASE s = Baseline -> a.baselineSeconds
                                   [] s \in Slow -> both
                                   [] OTHER -> IF long > 0 THEN long ELSE a.windowSeconds
    BY <1>1, <1>2, <1>4 DEF EstimatedSeconds
  <1>8. CASE s = Baseline
    <2>1. EstimatedSeconds(a, s) = a.baselineSeconds
      BY <1>6, <1>7, <1>8
    <2> QED
      BY <1>3, <1>8, <2>1
  <1>9. CASE s # Baseline /\ s \in Slow
    <2>1. EstimatedSeconds(a, s) = both
      BY <1>7, <1>9
    <2> QED
      BY <1>1, <1>2, <1>3, <1>5, <1>9, <2>1
  <1>10. CASE s # Baseline /\ s \notin Slow
    <2>1. EstimatedSeconds(a, s) = IF long > 0 THEN long ELSE a.windowSeconds
      BY <1>7, <1>10
    <2> QED
      BY <1>2, <1>3, <1>10, <2>1
  <1> QED
    BY <1>8, <1>9, <1>10

\* The two planners agree, for any options.
LEMMA PlannersDoAgree ==
  ASSUME bulkArgs \in BulkOptions PROVE PlannersAgree
  <1>1. SUFFICES ASSUME NEW s \in Range(Scenarios)
                 PROVE  LET expected == EstimatedSeconds(BulkArgsFor(bulkArgs, s), s)
                            planned  == SequenceSeconds(bulkArgs, s)
                        IN /\ planned <= expected
                           /\ planned # expected => s \in Slow /\ UsesLongCapture(bulkArgs, s)
    BY DEF PlannersAgree
  <1>2. PICK a : a = bulkArgs
    OBVIOUS
  <1>3. PICK slow \in Nat : slow = SlowSeconds(a)
    BY <1>2, SlowIs
  <1>4. a \in BulkOption /\ a.windowSeconds \in Nat \ {0} /\ a.attackSeconds \in Nat
        /\ a.baselineSeconds \in Nat /\ Baseline \notin Slow
    BY <1>2, OptionIs, BulkCollectorAssumption
  <1>5. PICK planned : planned = SequenceSeconds(a, s)
    OBVIOUS
  <1> DEFINE long == s # Baseline /\ (a.longOnly = {} \/ s \in a.longOnly)
  <1>6. PICK b : b = BulkArgsFor(a, s)
    OBVIOUS
  <1>7. /\ s = Baseline => planned = a.baselineSeconds
        /\ long /\ a.attackSeconds > 0 => planned = a.attackSeconds
        /\ s \in Slow /\ ~(long /\ a.attackSeconds > 0) => planned = slow
        /\ s # Baseline /\ s \notin Slow /\ ~(long /\ a.attackSeconds > 0) => planned = a.windowSeconds
        /\ planned \in Nat
    <2>1. CASE s = Baseline
      BY <1>4, <1>5, <2>1 DEF SequenceSeconds
    <2>2. CASE long /\ a.attackSeconds > 0
      BY <1>4, <1>5, <2>2 DEF SequenceSeconds
    <2>3. CASE s \in Slow /\ ~(long /\ a.attackSeconds > 0)
      BY <1>3, <1>4, <1>5, <2>3 DEF SequenceSeconds
    <2>4. CASE s # Baseline /\ s \notin Slow /\ ~(long /\ a.attackSeconds > 0)
      BY <1>4, <1>5, <2>4 DEF SequenceSeconds
    <2> QED
      BY <1>3, <1>4, <2>1, <2>2, <2>3, <2>4
  <1>8. /\ b \in BulkOption /\ b.windowSeconds = a.windowSeconds /\ b.baselineSeconds = a.baselineSeconds
        /\ b.pairs = a.pairs
        /\ b.attackSeconds = IF long THEN planned ELSE 0
        /\ b.longOnly = IF long THEN {s} ELSE {}
    <2>1. b = [a EXCEPT !.attackSeconds = IF long THEN planned ELSE 0,
                        !.longOnly = IF long THEN {s} ELSE {}]
      BY <1>5, <1>6 DEF BulkArgsFor
    <2>2. (IF long THEN planned ELSE 0) \in Nat
      BY <1>7
    <2>3. (IF long THEN {s} ELSE {}) \in SUBSET (Range(Scenarios) \ {Baseline})
      OBVIOUS
    <2> HIDE DEF long
    <2> QED
      BY <1>4, <2>1, <2>2, <2>3 DEF BulkOption
  <1>9. SlowSeconds(b) = slow
    BY <1>3, <1>8 DEF SlowSeconds
  <1>10. UsesLongCapture(b, s) <=> long /\ planned > 0
    BY <1>8 DEF UsesLongCapture
  <1>11. UsesLongCapture(a, s) <=> long /\ a.attackSeconds > 0
    BY DEF UsesLongCapture
  <1>12. PICK expected : expected = EstimatedSeconds(b, s)
    OBVIOUS
  <1>13. /\ expected \in Nat
         /\ s = Baseline => expected = a.baselineSeconds
         /\ s # Baseline /\ s \in Slow =>
              /\ expected >= slow
              /\ long /\ planned > 0 => expected >= planned /\ expected \in {planned, slow}
              /\ ~(long /\ planned > 0) => expected = slow
         /\ s # Baseline /\ s \notin Slow =>
              expected = IF long /\ planned > 0 THEN planned ELSE a.windowSeconds
    <2> HIDE DEF long
    <2> QED
      BY <1>3, <1>4, <1>8, <1>9, <1>10, <1>12, EstimateIs
  <1>14. planned <= expected /\ (planned # expected => s \in Slow /\ long /\ a.attackSeconds > 0)
    <2> HIDE DEF long
    <2> QED
      BY <1>3, <1>4, <1>7, <1>13
  <1> QED
    BY <1>2, <1>5, <1>6, <1>11, <1>12, <1>14


\* A function has no more values than arguments.
LEMMA ValuesFinite ==
  ASSUME NEW S, IsFiniteSet(S), NEW f, f = [x \in S |-> f[x]]
  PROVE  IsFiniteSet({f[x] : x \in S})
  <1> DEFINE T == {f[x] : x \in S}
  <1>1. f \in Surjection(S, T)
    BY DEF Surjection
  <1>2. IsFiniteSet(T)
    <2> HIDE DEF T
    <2> QED
      BY <1>1, FS_Surjection
  <1> QED
    BY <1>2

\* The runs of a plan are finitely many.
LEMMA PlanFinite ==
  ASSUME NEW a \in BulkOptions PROVE IsFiniteSet(PlannedRuns(a))
  <1> DEFINE F == [s \in Selected(a) |-> [scenario : {s}, repeat : 1..RepeatsOf(a, s)]]
  <1>1. IsFiniteSet(Selected(a))
    <2>1. Len(Scenarios) \in Nat /\ DOMAIN Scenarios = 1..Len(Scenarios)
          /\ Scenarios = [i \in DOMAIN Scenarios |-> Scenarios[i]]
      BY BulkCollectorAssumption, LenProperties
    <2>2. IsFiniteSet(DOMAIN Scenarios)
      <3>1. 1 \in Int /\ Len(Scenarios) \in Int
        BY <2>1
      <3> QED
        BY <2>1, <3>1, FS_Interval
    <2>3. IsFiniteSet({Scenarios[i] : i \in DOMAIN Scenarios})
      BY <2>1, <2>2, ValuesFinite
    <2>4. Selected(a) \subseteq {Scenarios[i] : i \in DOMAIN Scenarios}
      BY DEF Selected, Range
    <2> QED
      BY <2>3, <2>4, FS_Subset
  <1>2. ASSUME NEW s \in Selected(a) PROVE IsFiniteSet(F[s])
    <2> DEFINE numbers == 1..RepeatsOf(a, s)
               G == [i \in numbers |-> [scenario |-> s, repeat |-> i]]
    <2>1. RepeatsOf(a, s) \in Int /\ 1 \in Int
      BY OptionIs DEF RepeatsOf
    <2>2. IsFiniteSet(numbers)
      BY <2>1, FS_Interval
    <2>3. IsFiniteSet({G[i] : i \in numbers})
      BY <2>2, ValuesFinite
    <2>4. F[s] = {G[i] : i \in numbers}
      <3>1. \A i \in numbers : G[i] \in F[s]
        OBVIOUS
      <3>2. ASSUME NEW r \in F[s] PROVE \E i \in numbers : r = G[i]
        <4>1. r = [scenario |-> s, repeat |-> r.repeat] /\ r.repeat \in numbers
          OBVIOUS
        <4> QED
          BY <4>1
      <3> HIDE DEF numbers, F, G
      <3> QED
        BY <3>1, <3>2
    <2> QED
      BY <2>3, <2>4
  <1>3. PlannedRuns(a) = UNION {F[s] : s \in Selected(a)}
    BY DEF PlannedRuns
  <1>4. IsFiniteSet({F[s] : s \in Selected(a)})
    <2>1. F = [s \in Selected(a) |-> F[s]]
      OBVIOUS
    <2> HIDE DEF F
    <2> QED
      BY <1>1, <2>1, ValuesFinite
  <1>5. \A T \in {F[s] : s \in Selected(a)} : IsFiniteSet(T)
    BY <1>2
  <1> HIDE DEF F
  <1> QED
    BY <1>3, <1>4, <1>5, FS_UNION

\* A run is expected to have a window at least.
LEMMA WindowsAre ==
  ASSUME NEW a \in BulkOptions, NEW r \in PlannedRuns(a)
  PROVE  WindowsOf(a, r) \in Nat /\ WindowsOf(a, r) >= 1
  <1>1. /\ a \in BulkOption /\ a.windowSeconds \in Nat \ {0} /\ SlowSeconds(a) \in Nat
    BY OptionIs, SlowIs
  <1>2. PICK s : s = r.scenario
    OBVIOUS
  <1>3. EstimatedSeconds(a, s) \in Nat
    BY <1>1, EstimateIs
  <1>4. PICK w : w = EstimatedSeconds(a, s) \div a.windowSeconds
    OBVIOUS
  <1>5. w \in Int
    BY <1>1, <1>3, <1>4
  <1>6. WindowsOf(a, r) = Max({1, w})
    BY <1>2, <1>4 DEF WindowsOf
  <1>7. Max({1, w}) \in {1, w} /\ Max({1, w}) >= 1
    BY <1>5, MaxOfTwo
  <1> QED
    BY <1>5, <1>6, <1>7

\* Nor is a run of the estimate without a window.
LEMMA EstimateCounts ==
  ASSUME bulkArgs \in BulkOptions PROVE EstimateCountsAll
  <1>1. SUFFICES ASSUME NEW test \in BOOLEAN
                 PROVE  EstimatedWindows(bulkArgs, test) >= Cardinality(Half(bulkArgs, test))
    BY DEF EstimateCountsAll
  <1> DEFINE half == Half(bulkArgs, test)
             F == [r \in half |-> {r} \X (1..WindowsOf(bulkArgs, r))]
             units == UNION {F[r] : r \in half}
             first == [r \in half |-> <<r, 1>>]
  <1>2. half \subseteq PlannedRuns(bulkArgs)
    BY DEF Half
  <1>3. IsFiniteSet(half)
    BY <1>2, PlanFinite, FS_Subset
  <1>4. \A r \in half : WindowsOf(bulkArgs, r) \in Nat /\ WindowsOf(bulkArgs, r) >= 1
    BY <1>2, WindowsAre
  <1>5. ASSUME NEW r \in half PROVE IsFiniteSet(F[r])
    <2>1. IsFiniteSet({r})
      BY FS_Singleton
    <2>2. IsFiniteSet(1..WindowsOf(bulkArgs, r))
      <3>1. WindowsOf(bulkArgs, r) \in Int /\ 1 \in Int
        BY <1>4
      <3> QED
        BY <3>1, FS_Interval
    <2> QED
      BY <2>1, <2>2, FS_Product
  <1>6. IsFiniteSet(units)
    <2>1. F = [r \in half |-> F[r]]
      OBVIOUS
    <2> HIDE DEF F, half
    <2>2. IsFiniteSet({F[r] : r \in half})
      BY <1>3, <2>1, ValuesFinite
    <2> QED
      BY <1>5, <2>2, FS_UNION
  <1>7. first \in Injection(half, units)
    <2>1. ASSUME NEW r \in half PROVE <<r, 1>> \in F[r]
      BY <1>4
    <2>2. ASSUME NEW r \in half PROVE <<r, 1>> \in units
      <3> HIDE DEF half, F
      <3> QED
        BY <2>1
    <2> HIDE DEF half, units
    <2> QED
      BY <2>2 DEF Injection, IsInjective
  <1>8. EstimatedWindows(bulkArgs, test) = Cardinality(units)
    BY DEF EstimatedWindows
  <1>9. Cardinality(half) <= Cardinality(units)
    <2> HIDE DEF half, units, first
    <2> QED
      BY <1>6, <1>7, FS_Injection
  <1>10. Cardinality(half) \in Nat /\ Cardinality(units) \in Nat
    BY <1>3, <1>6, FS_CardinalityType
  <1> QED
    BY <1>8, <1>9, <1>10


-----------------------------------------------------------------------------
(* The collection.                                                         *)

LEMMA BulkBegins ==
  ASSUME BulkInit PROVE BulkInv
  BY DEF BulkInit, BulkInv, BulkFiles, DatasetIsComplete

\* What the loop is done with stays as it is.
LEMMA BulkStartKeeps ==
  ASSUME BulkInv, NEW skipping \in BOOLEAN, BulkStart(skipping) PROVE BulkInv'
  <1>1. bulkArgs' = bulkArgs /\ BulkPlan' = BulkPlan /\ merged' = merged /\ step' = "runs" /\ left' = BulkPlan
    BY DEF BulkStart, BulkPlan
  <1>2. ASSUME NEW file \in {NoFile} \cup Captured
        PROVE  Aged(file) \in {NoFile} \cup Captured
    BY DEF Aged, Captured
  <1>3. pcaps' \in BulkFiles /\ logs' \in BulkFiles
    BY <1>2 DEF BulkStart, BulkInv, BulkFiles
  <1>4. BulkFiles' = BulkFiles
    BY <1>1 DEF BulkFiles
  <1>5. DatasetIsComplete'
    BY <1>1 DEF BulkInv, DatasetIsComplete
  <1> QED
    BY <1>1, <1>3, <1>4, <1>5 DEF BulkInv

\* A step that leaves the dataset alone.
LEMMA DatasetStays ==
  ASSUME BulkInv, bulkArgs' = bulkArgs, merged' = merged
  PROVE  /\ BulkPlan' = BulkPlan /\ BulkFiles' = BulkFiles
         /\ bulkArgs' \in BulkOptions /\ DatasetIsComplete'
  BY DEF BulkInv, BulkPlan, BulkFiles, DatasetIsComplete

\* A step that is done with a run, which is skipped, silent or good.
LEMMA RunEnds ==
  ASSUME BulkInv, NEW run \in Now, bulkArgs' = bulkArgs, merged' = merged,
         step # "off", step' = "runs", left' = left \ {run},
         pcaps' = pcaps, logs' \in BulkFiles,
         \A r \in BulkPlan : r # run => logs'[r] = logs[r],
         skipped \subseteq skipped', silent \subseteq silent',
         run \in skipped' \cup silent' \/ logs'[run] = Good
  PROVE  BulkInv'
  <1>1. /\ BulkPlan' = BulkPlan /\ BulkFiles' = BulkFiles
        /\ bulkArgs' \in BulkOptions /\ DatasetIsComplete'
    BY DatasetStays
  <1>2. \A r \in BulkPlan \ left' : r \in skipped' \cup silent' \/ logs'[r] = Good
    BY DEF BulkInv
  <1> QED
    BY <1>1, <1>2 DEF BulkInv

\* A step within a run.
LEMMA RunGoesOn ==
  ASSUME BulkInv, NEW run \in Now, bulkArgs' = bulkArgs, merged' = merged, left' = left,
         step # "off", step' \in {"runs", "capturing", "convert", "converting"},
         pcaps' \in BulkFiles, logs' \in BulkFiles,
         \A r \in BulkPlan : r # run => logs'[r] = logs[r],
         skipped' = skipped, silent \subseteq silent',
         step' \in {"convert", "converting"} => run \in silent' \/ pcaps'[run] = Good
  PROVE  BulkInv'
  <1>1. /\ BulkPlan' = BulkPlan /\ BulkFiles' = BulkFiles
        /\ bulkArgs' \in BulkOptions /\ DatasetIsComplete'
    BY DatasetStays
  <1>2. Now' = Now
    BY DEF Now, Precedes, TurnOf
  <1>3. \A r \in Now : r = run
    BY NowIsOne DEF BulkInv
  <1>4. \A r \in BulkPlan \ left : r \in skipped' \cup silent' \/ logs'[r] = Good
    BY DEF BulkInv, Now
  <1> QED
    BY <1>1, <1>2, <1>3, <1>4 DEF BulkInv

\* A step that ends the command.
LEMMA CommandEnds ==
  ASSUME BulkInv, bulkArgs' = bulkArgs, merged' = merged, left' = left,
         step' = "off", pcaps' \in BulkFiles, logs' \in BulkFiles
  PROVE  BulkInv'
  <1>1. /\ BulkPlan' = BulkPlan /\ BulkFiles' = BulkFiles
        /\ bulkArgs' \in BulkOptions /\ DatasetIsComplete'
    BY DatasetStays
  <1> QED
    BY <1>1 DEF BulkInv

\* The steps of a run.
LEMMA RunSteps ==
  ASSUME BulkInv, NEW run \in Now,
         \/ SkipRun(run) \/ Capture(run) \/ CaptureEnded(run) \/ Convert(run) \/ ConvertEnded(run)
         \/ CaptureFailed(run) \/ ConvertedNothing(run)
  PROVE  BulkInv'
  <1>1. /\ run \in left /\ run \in BulkPlan /\ bulkArgs' = bulkArgs /\ merged' = merged
        /\ pcaps \in BulkFiles /\ logs \in BulkFiles
    BY DEF BulkInv, Now, Same, FilesSame, SkipRun, Capture, CaptureEnded, Convert,
           ConvertEnded, CaptureFailed, ConvertedNothing
  <1>2. Good \in Captured
        /\ [fresh |-> TRUE, whole |-> FALSE] \in Captured
    BY DEF Good, Captured
  <1>3. pcaps[run] \in {NoFile} \cup Captured
    BY <1>1 DEF BulkFiles
  <1>4. CASE SkipRun(run)
    BY <1>1, <1>4, RunEnds DEF SkipRun, FilesSame
  <1>5. CASE Capture(run)
    BY <1>1, <1>5, RunGoesOn DEF Capture, FilesSame
  <1>6. CASE CaptureEnded(run)
    <2>1. pcaps' \in BulkFiles /\ silent \subseteq silent' /\ (run \in silent' \/ pcaps'[run] = Good)
      <3>1. PICK partial : partial = [fresh |-> TRUE, whole |-> FALSE]
        OBVIOUS
      <3>2. CASE pcaps' = [pcaps EXCEPT ![run] = Good] /\ silent' = silent
        <4>1. PICK good : good = Good
          OBVIOUS
        <4>2. pcaps' \in BulkFiles /\ pcaps'[run] = good
          BY <1>1, <1>2, <3>2, <4>1 DEF BulkFiles
        <4> QED
          BY <3>2, <4>1, <4>2
      <3>3. CASE silent' = silent \cup {run} /\ pcaps' = [pcaps EXCEPT ![run] = partial]
        BY <1>1, <1>2, <3>1, <3>3 DEF BulkFiles
      <3>4. CASE silent' = silent \cup {run} /\ pcaps' = pcaps
        BY <1>1, <3>4
      <3> QED
        BY <1>6, <3>1, <3>2, <3>3, <3>4 DEF CaptureEnded, Good
    <2> QED
      BY <1>1, <1>6, <2>1, RunGoesOn DEF CaptureEnded
  <1>7. CASE Convert(run)
    <2>1. CASE pcaps[run] = NoFile
      BY <1>1, <1>7, <2>1, CommandEnds DEF Convert
    <2>2. CASE pcaps[run] # NoFile
      <3>1. PICK file : file = [pcaps[run] EXCEPT !.whole = FALSE]
        OBVIOUS
      <3>2. file \in Captured
        BY <1>3, <2>2, <3>1 DEF Captured
      <3>3. logs' = [logs EXCEPT ![run] = file] /\ step' = "converting"
        BY <1>7, <2>2, <3>1 DEF Convert
      <3>4. run \in silent \/ pcaps[run] = Good
        BY <1>7 DEF Convert, BulkInv
      <3>5. logs' \in BulkFiles /\ \A r \in BulkPlan : r # run => logs'[r] = logs[r]
        <4>1. PICK new : new = [logs EXCEPT ![run] = file]
          OBVIOUS
        <4>2. new \in BulkFiles /\ \A r \in BulkPlan : r # run => new[r] = logs[r]
          BY <1>1, <3>2, <4>1 DEF BulkFiles
        <4> QED
          BY <3>3, <4>1, <4>2
      <3>6. /\ step # "off" /\ left' = left /\ pcaps' = pcaps /\ skipped' = skipped /\ silent' = silent
        BY <1>7 DEF Convert
      <3> QED
        BY <1>1, <3>3, <3>4, <3>5, <3>6, RunGoesOn
    <2> QED
      BY <2>1, <2>2
  <1>8. CASE ConvertEnded(run)
    <2>1. PICK file : file = pcaps[run]
      OBVIOUS
    <2>2. run \in silent \/ file = Good
      BY <1>8, <2>1 DEF ConvertEnded, BulkInv
    <2>3. logs' = [logs EXCEPT ![run] = file]
      BY <1>8, <2>1 DEF ConvertEnded
    <2>4. logs' \in BulkFiles /\ logs'[run] = file /\ \A r \in BulkPlan : r # run => logs'[r] = logs[r]
      BY <1>1, <1>3, <2>1, <2>3 DEF BulkFiles
    <2> QED
      BY <1>1, <1>8, <2>2, <2>4, RunEnds DEF ConvertEnded
  <1>9. CASE CaptureFailed(run)
    <2>1. pcaps' \in BulkFiles
      BY <1>1, <1>2, <1>9 DEF CaptureFailed, BulkFiles
    <2> QED
      BY <1>1, <1>9, <2>1, CommandEnds DEF CaptureFailed
  <1>10. CASE ConvertedNothing(run)
    BY <1>1, <1>10, RunEnds DEF ConvertedNothing, FilesSame
  <1> QED
    BY <1>4, <1>5, <1>6, <1>7, <1>8, <1>9, <1>10

\* The steps of the rest.
LEMMA RebuildKeeps ==
  ASSUME BulkInv, Rebuild PROVE BulkInv'
  <1>1. CASE \A r \in BulkPlan : HasLog(r)
    <2>1. /\ bulkArgs' = bulkArgs /\ BulkPlan' = BulkPlan /\ BulkFiles' = BulkFiles
          /\ UNCHANGED <<left, pcaps, logs, skipped, silent>>
          /\ step = "runs" /\ step' = "built" /\ left = {} /\ merged' = Rows(BulkPlan)
      BY <1>1 DEF Rebuild, BulkPlan, BulkFiles, Same
    <2>2. \A r \in BulkPlan : r \in skipped \cup silent \/ logs[r] = Good
      BY <2>1 DEF BulkInv
    <2> DEFINE RowOf(r) == [run |-> r, log |-> logs[r], skipped |-> r \in skipped, silent |-> r \in silent]
    <2>6. Rows(BulkPlan) = {RowOf(r) : r \in BulkPlan}
      BY DEF Rows
    <2>7. \A r \in BulkPlan : /\ RowOf(r).run = r /\ RowOf(r).log = logs[r]
                             /\ RowOf(r).skipped = (r \in skipped) /\ RowOf(r).silent = (r \in silent)
      OBVIOUS
    <2> HIDE DEF RowOf
    <2>3. {row.run : row \in Rows(BulkPlan)} = BulkPlan
      <3>1. ASSUME NEW r \in BulkPlan PROVE r \in {row.run : row \in Rows(BulkPlan)}
        BY <2>6, <2>7
      <3>2. ASSUME NEW r \in {row.run : row \in Rows(BulkPlan)} PROVE r \in BulkPlan
        BY <2>6, <2>7
      <3> QED
        BY <3>1, <3>2
    <2>4. ASSUME NEW row \in Rows(BulkPlan)
          PROVE  row.skipped \/ row.silent \/ (row.log.whole /\ row.log.fresh)
      <3>1. PICK r \in BulkPlan : row = RowOf(r)
        BY <2>6
      <3>2. CASE r \in skipped \cup silent
        BY <2>7, <3>1, <3>2
      <3>3. CASE logs[r] = Good
        <4>1. Good.whole /\ Good.fresh
          BY DEF Good
        <4> QED
          BY <2>7, <3>1, <3>3, <4>1
      <3> QED
        BY <2>2, <3>2, <3>3
    <2>5. DatasetIsComplete'
      BY <2>1, <2>3, <2>4 DEF DatasetIsComplete
    <2> QED
      BY <2>1, <2>5 DEF BulkInv
  <1>2. CASE ~ \A r \in BulkPlan : HasLog(r)
    BY <1>2, CommandEnds DEF Rebuild, Same, BulkInv
  <1> QED
    BY <1>1, <1>2

LEMMA BulkKeeps ==
  ASSUME BulkInv, [BulkNext]_bulkVars PROVE BulkInv'
  <1>1. CASE Rebuild
    BY <1>1, RebuildKeeps
  <1>2. CASE Summarized \/ BulkEnds
    BY <1>2, CommandEnds DEF Summarized, BulkEnds, Same, FilesSame, BulkInv
  <1>3. CASE \E run \in Now : SkipRun(run) \/ Capture(run) \/ CaptureEnded(run) \/ Convert(run)
                              \/ ConvertEnded(run) \/ CaptureFailed(run) \/ ConvertedNothing(run)
    BY <1>3, RunSteps
  <1>4. CASE \E skipping \in BOOLEAN : BulkStart(skipping)
    BY <1>4, BulkStartKeeps
  <1>5. CASE UNCHANGED bulkVars
    BY <1>5 DEF BulkInv, bulkVars, BulkPlan, BulkFiles, DatasetIsComplete, Now, Precedes, TurnOf
  <1> QED
    BY <1>1, <1>2, <1>3, <1>4, <1>5 DEF BulkNext, BulkWork

\* The bulk collector, whatever fails or is killed: what it builds has every
\* planned run, and a row that may be bad is of a run it skipped or whose
\* capture failed unseen (collect_bulk_scan_dataset.py main).
THEOREM BulkInvariant == BulkSpec => []BulkInv
  <1>1. BulkInit => BulkInv
    BY BulkBegins
  <1>2. BulkInv /\ [BulkNext]_bulkVars => BulkInv'
    BY BulkKeeps
  <1> QED
    BY <1>1, <1>2, PTL DEF BulkSpec

\* What a command plans when it begins is what is collected: the two planners
\* agree but for slow scans, the estimate counts every run of each half, and the
\* dataset is complete (estimate_collection_plan, main).
THEOREM BulkIsAsPlanned == BulkSpec => []BulkAsPlanned
  <1>1. BulkInv => BulkAsPlanned
    BY PlannersDoAgree, EstimateCounts DEF BulkInv, BulkAsPlanned
  <1> QED
    BY <1>1, BulkInvariant, PTL
=============================================================================
