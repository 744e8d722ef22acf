------------------------------- MODULE Recon -------------------------------
(* The camera's infected-scan worker (services/camera-app/recon.py), its   *)
(* entry in the camera's state and the two files that label its traffic.   *)
(* One thread connects to every port of every target in turn; main.py's    *)
(* lifespan starts and stops it; a killed process starts again from its    *)
(* configuration and keeps only the files.                                 *)
EXTENDS ScenarioLog, ScanTargets, FiniteSets

CONSTANTS ScanConfigs,   \* the configurations to try
          MaxTries,      \* bound: attempts of all lives
          MaxLives       \* bound: starts of the process

\* targets and ports are lists, and may be empty or repeat an element.
ASSUME ReconAssumption ==
  /\ \A c \in ScanConfigs :
       /\ c.enabled \in BOOLEAN /\ c.blockExternal \in BOOLEAN /\ c.logged \in BOOLEAN
       /\ c.targets \in Seq(Range(c.targets)) /\ c.ports \in Seq(Range(c.ports))
       /\ c.max \in Nat
  /\ MaxTries \in Nat /\ MaxLives \in Nat /\ "none" \notin TcpResults

VARIABLES scanConfig,
          life,        \* which start of the process this is
          lifespan,    \* where main.py is
          stopping,    \* _stop_event
          worker,      \* where the thread is
          scanIndex,   \* _attempt_index
          attempt,     \* the attempt in hand
          scan,        \* the state's "infected_scan"
          gaveUp,      \* join() ran into its timeout
          scanEvents, scanTruth,   \* the two files
          unwritten,   \* records that could not be written
          tries        \* history: every attempt that was begun

fileVars == <<scanEvents, scanTruth, unwritten>>
scanVars == <<scanConfig, life, lifespan, stopping, worker, scanIndex, attempt,
              scan, gaveUp, fileVars, tries>>

NoAttempt == [target |-> "none", port |-> 0, result |-> "none"]

\* last_target, last_port and last_result are those of `attempt`.
Entry(status) == [status |-> status, attempts |-> 0]

ScanInit ==
  /\ scanConfig \in ScanConfigs
  /\ life = 0 /\ lifespan = "off" /\ stopping = FALSE
  /\ worker = "none" /\ scanIndex = 0 /\ attempt = NoAttempt
  /\ scan = Entry("disabled") /\ gaveUp = FALSE
  /\ scanEvents = << >> /\ scanTruth = << >> /\ unwritten = 0 /\ tries = << >>

-----------------------------------------------------------------------------
(* start() and stop(), in main.py's lifespan.                              *)

WriteEvent(record) ==
  /\ \E outcome \in AppendJsonl(scanConfig.logged, scanEvents, unwritten, record) :
       scanEvents' = outcome[1] /\ unwritten' = outcome[2]
  /\ UNCHANGED scanTruth

Pairs == Range(scanConfig.targets) \X Range(scanConfig.ports)

\* The thread may come before the start event; nothing depends on it.
ScanStart ==
  /\ lifespan = "off" /\ life < MaxLives
  /\ life' = life + 1 /\ lifespan' = "up"
  /\ IF scanConfig.enabled /\ Pairs # {}
     THEN scan' = Entry("idle") /\ worker' = "delay" /\ WriteEvent([type |-> "start"])
     ELSE /\ scan' = Entry(IF scanConfig.enabled THEN "stopped" ELSE "disabled")
          /\ UNCHANGED <<worker, fileVars>>
  /\ UNCHANGED <<scanConfig, stopping, scanIndex, attempt, gaveUp, tries>>

ScanStop ==
  /\ lifespan = "up"
  /\ IF scanConfig.enabled THEN lifespan' = "joining" /\ stopping' = TRUE
                           ELSE lifespan' = "stopped" /\ UNCHANGED stopping
  /\ UNCHANGED <<scanConfig, life, worker, scanIndex, attempt, scan, gaveUp, fileVars, tries>>

MarkStopped ==
  /\ scan' = [scan EXCEPT !.status = "stopped"]
  /\ lifespan' = "marked"
  /\ UNCHANGED <<scanConfig, life, stopping, worker, scanIndex, attempt, fileVars, tries>>

\* Mutant: stop() does not join.
ScanStopReturnsAtOnce ==
  /\ lifespan = "joining" /\ MarkStopped /\ UNCHANGED gaveUp

ScanStopReturns ==
  /\ lifespan = "joining" /\ worker \in {"none", "ended"} /\ MarkStopped /\ UNCHANGED gaveUp

\* Five seconds can pass while a name is resolved, a connection is tried (one
\* timeout for each of its addresses) or a record is written.
JoinTimesOut ==
  /\ lifespan = "joining" /\ worker \in {"check", "connect", "event", "truth"}
  /\ MarkStopped /\ gaveUp' = TRUE

LogStop ==
  /\ lifespan = "marked"
  /\ WriteEvent([type |-> "stop", attempts |-> scanIndex])
  /\ lifespan' = "stopped"
  /\ UNCHANGED <<scanConfig, life, stopping, worker, scanIndex, attempt, scan, gaveUp, tries>>

\* The process ends, after its shutdown or killed, and its daemon thread with it.
Exit ==
  /\ lifespan # "off"
  /\ lifespan' = "off" /\ worker' = "none" /\ stopping' = FALSE
  /\ scanIndex' = 0 /\ attempt' = NoAttempt
  /\ scan' = Entry("disabled") /\ gaveUp' = FALSE
  /\ UNCHANGED <<scanConfig, life, fileVars, tries>>

-----------------------------------------------------------------------------
(* The thread.                                                             *)

WorkerSteps(from, to) == worker = from /\ worker' = to
ControlUnchanged == UNCHANGED <<scanConfig, life, lifespan, stopping, gaveUp>>

\* The start-up delay and the interval between attempts end at once on a stop.
Wait ==
  /\ worker \in {"delay", "wait"}
  /\ worker' = IF stopping THEN "ended" ELSE "top"
  /\ ControlUnchanged /\ UNCHANGED <<scanIndex, attempt, scan, fileVars, tries>>

\* Mutant: no attempts means none.
ReachedAtAll == scanIndex >= scanConfig.max

Reached == scanConfig.max > 0 /\ scanIndex >= scanConfig.max

LoopEnds ==
  /\ stopping \/ Reached
  /\ WorkerSteps("top", "ended")
  /\ ControlUnchanged /\ UNCHANGED <<scanIndex, attempt, scan, fileVars, tries>>

\* Mutant: both lists are walked at once.
NextPairDiagonal(index) ==
  [target |-> scanConfig.targets[(index % Len(scanConfig.targets)) + 1],
   port |-> scanConfig.ports[(index % Len(scanConfig.ports)) + 1], result |-> "none"]

\* _next_target_port: target by target, the ports of each in turn.
NextPair(index) ==
  LET ports == Len(scanConfig.ports)
      pair  == index % (Len(scanConfig.targets) * ports)
  IN [target |-> scanConfig.targets[(pair \div ports) + 1],
      port |-> scanConfig.ports[(pair % ports) + 1], result |-> "none"]

NextAttempt ==
  /\ ~stopping /\ ~Reached /\ Len(tries) < MaxTries
  /\ WorkerSteps("top", "check")
  /\ attempt' = NextPair(scanIndex)
  /\ scanIndex' = scanIndex + 1
  /\ scan' = [scan EXCEPT !.status = "scanning"]
  /\ tries' = Append(tries, [life |-> life, attempt |-> attempt', event |-> "none", truth |-> "none"])
  /\ ControlUnchanged /\ UNCHANGED fileVars

\* mark_infected_scan_result, at once with the end of the attempt.
EndsWith(result) ==
  /\ attempt' = [attempt EXCEPT !.result = result]
  /\ scan' = [scan EXCEPT !.status = "idle", !.attempts = @ + 1]
  /\ tries' = [tries EXCEPT ![Len(tries)].attempt = attempt']
  /\ ControlUnchanged /\ UNCHANGED <<scanIndex, fileVars>>

Allowed ==
  /\ attempt.target \notin Unencodable /\ TRUE \in Verdicts(attempt.target, scanConfig.blockExternal)
  /\ WorkerSteps("check", "connect")
  /\ ControlUnchanged /\ UNCHANGED <<scanIndex, attempt, scan, fileVars, tries>>

Blocked ==
  /\ attempt.target \notin Unencodable /\ FALSE \in Verdicts(attempt.target, scanConfig.blockExternal)
  /\ WorkerSteps("check", "event")
  /\ EndsWith("blocked")

\* A UnicodeError is caught nowhere: the thread ends and marks nothing.
Dies ==
  /\ attempt.target \in Unencodable
  /\ WorkerSteps("check", "ended")
  /\ ControlUnchanged /\ UNCHANGED <<scanIndex, attempt, scan, fileVars, tries>>

Connected ==
  /\ WorkerSteps("connect", "event")
  /\ \E result \in TcpResults : EndsWith(result)

Outcome == IF unwritten' = unwritten THEN "written" ELSE "lost"

\* _log_scan_result: the event, then the ground truth.
LogEvent ==
  /\ WorkerSteps("event", "truth")
  /\ WriteEvent([type |-> "attempt", of |-> attempt])
  /\ tries' = [tries EXCEPT ![Len(tries)].event = Outcome]
  /\ ControlUnchanged /\ UNCHANGED <<scanIndex, attempt, scan>>

LogTruth ==
  /\ WorkerSteps("truth", "wait")
  /\ \E outcome \in AppendJsonl(scanConfig.logged, scanTruth, unwritten, attempt) :
       scanTruth' = outcome[1] /\ unwritten' = outcome[2]
  /\ tries' = [tries EXCEPT ![Len(tries)].truth = Outcome]
  /\ ControlUnchanged /\ UNCHANGED <<scanIndex, attempt, scan, scanEvents>>

ScanThread ==
  Wait \/ LoopEnds \/ NextAttempt \/ Allowed \/ Blocked \/ Dies \/ Connected \/ LogEvent \/ LogTruth
ScanMain == ScanStart \/ ScanStopReturns \/ JoinTimesOut \/ LogStop

ScanNext == ScanThread \/ ScanMain \/ ScanStop \/ Exit

-----------------------------------------------------------------------------
TriesOf(l) == {i \in DOMAIN tries : tries[i].life = l}
TriesAt(l, pair) ==
  Cardinality({i \in TriesOf(l) : <<tries[i].attempt.target, tries[i].attempt.port>> = pair})
FinishedOf(l) == {i \in TriesOf(l) : tries[i].attempt.result # "none"}

ScanAttempt == [target : {"none"} \cup UNION {Range(c.targets) : c \in ScanConfigs},
                port   : {0} \cup UNION {Range(c.ports) : c \in ScanConfigs},
                result : {"none", "blocked"} \cup TcpResults]
Fate        == {"none", "written", "lost"}
ScanTry     == [life : Nat, attempt : ScanAttempt, event : Fate, truth : Fate]

ScanTypeOK ==
  /\ scanConfig \in ScanConfigs /\ life \in 0..MaxLives
  /\ lifespan \in {"off", "up", "joining", "marked", "stopped"}
  /\ worker \in {"none", "delay", "top", "check", "connect", "event", "truth", "wait", "ended"}
  /\ attempt \in ScanAttempt /\ tries \in Seq(ScanTry) /\ scanTruth \in Seq(ScanAttempt)
  /\ scan \in [status : {"disabled", "idle", "scanning", "stopped"}, attempts : Nat]
  /\ stopping \in BOOLEAN /\ gaveUp \in BOOLEAN
  /\ scanIndex \in 0..MaxTries /\ unwritten \in 0..MaxUnwritten

\* Every life walks all pairs of lists without repetitions in turn: none is tried
\* twice more than another.
RotationIsFair ==
  IsInjective(scanConfig.targets) /\ IsInjective(scanConfig.ports) =>
    \A l \in 1..life : \A p, q \in Pairs : TriesAt(l, p) <= TriesAt(l, q) + 1

\* The ground truth has the attempts in order, each once and with its own
\* target, port and result; only the last attempt of a life, cut by its end,
\* and one that could not be written are missing, and the event comes first.
Written == {i \in DOMAIN tries : tries[i].truth = "written"}
PlaceInTruth(i) == Cardinality({j \in Written : j <= i})

TruthIsComplete ==
  /\ scanConfig.logged =>
       /\ Len(scanTruth) = Cardinality(Written)
       /\ \A i \in Written : scanTruth[PlaceInTruth(i)] = tries[i].attempt
  /\ \A i \in DOMAIN tries :
       /\ i + 1 \in TriesOf(tries[i].life) => tries[i].truth # "none"
       /\ tries[i].truth # "none" => tries[i].event # "none" /\ tries[i].attempt.result # "none"

\* Nothing the worker did goes unlabelled, and what it does is spread evenly.
ScanAccounted == ScanTypeOK /\ RotationIsFair /\ TruthIsComplete

\* A stop that joined is final: the thread is over, the status says so, and the
\* count of the stop event is the number of attempts that were begun, all of
\* them finished unless a name killed the thread.  After a join that timed out
\* one attempt may be open, and its late result overwrites the status.
StopTellsTruth ==
  LET begun    == Cardinality(TriesOf(life))
      finished == Cardinality(FinishedOf(life))
  IN lifespan # "off" =>
       /\ scanIndex = begun /\ scan.attempts = finished /\ finished \in {begun, begun - 1}
       /\ lifespan \in {"marked", "stopped"} /\ scanConfig.enabled /\ ~gaveUp =>
            /\ worker \in {"none", "ended"} /\ scan.status = "stopped"
            /\ finished < begun => attempt.target \in Unencodable

-----------------------------------------------------------------------------
(* Why it holds.                                                           *)

\* Only a life that has not ended has a thread, and a thread has pairs to try.
\* Each attempt but the one in hand is finished, and has its records but for
\* those that the thread is about to write.
WorkerInv ==
  /\ worker # "none" => lifespan # "off" /\ scanConfig.enabled /\ Pairs # {}
  /\ worker \in {"none", "delay"} /\ lifespan # "off" => TriesOf(life) = {}
  /\ lifespan # "off" => \A i \in TriesOf(life) : tries[i].truth = "none" =>
       i = Len(tries) /\ worker \in {"check", "connect", "event", "truth", "ended"}
  /\ worker \in {"check", "connect", "event", "truth"} =>
       /\ tries # << >>
       /\ LET last == tries[Len(tries)]
          IN /\ last.life = life /\ last.attempt = attempt /\ last.truth = "none"
             /\ attempt.result = "none" <=> worker \in {"check", "connect"}
             /\ last.event = "none" <=> worker # "truth"

\* The lives follow each other, and so do the attempts of one.
TriesInv ==
  /\ life = 0 => lifespan = "off"
  /\ \A i \in DOMAIN tries :
       /\ tries[i].life \in 1..life
       /\ \A j \in DOMAIN tries : i < j => tries[i].life <= tries[j].life

\* The worker's counter counts what was begun, the state's what was finished.
CountInv ==
  /\ lifespan = "off" => scanIndex = 0
  /\ lifespan # "off" =>
       /\ scanIndex = Cardinality(TriesOf(life)) /\ scan.attempts = Cardinality(FinishedOf(life))
       /\ \A i \in TriesOf(life) \ FinishedOf(life) :
            /\ i = Len(tries)
            /\ worker \in {"check", "connect"} \/ (worker = "ended" /\ attempt.target \in Unencodable)

\* A join that did not time out has waited for the thread.
JoinInv ==
  lifespan \in {"marked", "stopped"} /\ scanConfig.enabled /\ ~gaveUp =>
    worker \in {"none", "ended"} /\ scan.status = "stopped"

\* In the life that runs every pair was tried in the rounds that are complete,
\* and the pairs before the next one once more.
PairAt(slot) == <<NextPair(slot).target, NextPair(slot).port>>
Slots == Len(scanConfig.targets) * Len(scanConfig.ports)

RotationInv ==
  lifespan # "off" /\ Pairs # {} /\ IsInjective(scanConfig.targets) /\ IsInjective(scanConfig.ports) =>
    \E rounds \in 0..MaxTries : \A slot \in 0..(Slots - 1) :
      TriesAt(life, PairAt(slot)) = rounds + (IF slot < scanIndex % Slots THEN 1 ELSE 0)

ScanInv ==
  /\ ScanTypeOK /\ WorkerInv /\ TriesInv /\ CountInv /\ JoinInv
  /\ RotationInv /\ RotationIsFair /\ TruthIsComplete

-----------------------------------------------------------------------------
\* Left alone, the worker tries every pair, unless it has made the attempts it
\* was told to, met a name it cannot encode or the bound of the model; and a
\* stop ends with a thread that has ended.
ScanProgresses ==
  /\ lifespan = "up" /\ scanConfig.enabled ~>
       \/ lifespan # "up"
       \/ \A p \in Pairs : TriesAt(life, p) > 0
       \/ scanConfig.max > 0 /\ scanIndex >= scanConfig.max
       \/ attempt.target \in Unencodable \/ Len(tries) = MaxTries
  /\ lifespan = "joining" ~> lifespan = "off" \/ (lifespan = "stopped" /\ worker \in {"none", "ended"})

ScanFairness == WF_scanVars(ScanThread) /\ WF_scanVars(ScanMain)
ScanSpec == ScanInit /\ [][ScanNext]_scanVars /\ ScanFairness
=============================================================================
