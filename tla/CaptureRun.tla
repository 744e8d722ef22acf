----------------------------- MODULE CaptureRun -----------------------------
(***************************************************************************)
(* One capture of the data collection: scripts/collect_nmap_run.py runs    *)
(* tcpdump in a container and, in the meantime, attempts of                *)
(* scripts/run_nmap_scenario.py, which runs nmap in another container and  *)
(* then writes the ground truth that labels its traffic.  The scripts can  *)
(* be interrupted or killed; containers are the Docker daemon's and may    *)
(* survive them.  All captures are of one run id, the first and retries,   *)
(* so they use one container name and one capture file.  All clocks are    *)
(* the host's.                                                             *)
(***************************************************************************)
EXTENDS Naturals, FiniteSets

CONSTANTS Pairs,        \* the target:port pairs of the scan
          Repeat,       \* --repeat-until-seconds, 0 for a single attempt
          Interval,     \* --repeat-interval-seconds
          MaxAttempts,  \* bound: attempts, over all captures
          MaxClock,     \* bound: ticks
          MaxFaults     \* bound: faults, interrupts and failed writes

ASSUME CaptureAssumption ==
  Pairs # {} /\ {Repeat, Interval, MaxAttempts, MaxClock, MaxFaults} \subseteq Nat

VARIABLES main,       \* collect_nmap_run.py: where it is, deadline, end of sleep, attempts, result
          scenario,   \* run_nmap_scenario.py: where it is, its attempt, times, result
          nmaps,      \* the attempts whose nmap container runs
          tcpdump,    \* the tcpdump container
          pcap,       \* the probes in the capture file
          truth,      \* ground-truth.jsonl
          clock, tried, faults,
          sent,       \* history: the probes of the present capture's attempts
          missing,    \* history: did tcpdump fail, stop early or start too late
          cut         \* history: attempts whose scenario was killed or failed to write

historyVars == <<sent, missing, cut>>
vars == <<main, scenario, nmaps, tcpdump, pcap, truth, clock, tried, faults, historyVars>>

Attempts == 1..MaxAttempts
Times    == 0..MaxClock
Probe    == [attempt : Attempts, pair : Pairs, at : Times]

MainOff     == [pc |-> "off", deadline |-> 0, wake |-> 0, attempts |-> 0, ok |-> TRUE]
ScenarioOff == [pc |-> "off", attempt |-> 0, from |-> 0, to |-> 0, left |-> {}, ok |-> TRUE]

Main ==
  [pc : {"off", "wait", "loop", "attempt", "sleep", "flush", "stop"},
   deadline : Nat, wake : Nat, attempts : Nat, ok : BOOLEAN]
Scenario ==
  [pc : {"off", "start", "scan", "truth"}, attempt : 0..MaxAttempts,
   from : Times, to : Times, left : SUBSET Pairs, ok : BOOLEAN]

TypeOK ==
  /\ main \in Main /\ scenario \in Scenario
  /\ nmaps \subseteq Attempts
  /\ tcpdump \in {"off", "starting", "on"}
  /\ pcap \subseteq Probe /\ sent \subseteq Probe
  /\ truth \subseteq [pair : Pairs, from : Times, to : Times]
  /\ clock \in Times /\ tried \in 0..MaxAttempts /\ faults \in 0..MaxFaults
  /\ missing \in BOOLEAN /\ cut \subseteq Attempts

Init ==
  /\ main = MainOff /\ scenario = ScenarioOff
  /\ nmaps = {} /\ tcpdump = "off" /\ pcap = {} /\ truth = {}
  /\ clock = 0 /\ tried = 0 /\ faults = 0
  /\ sent = {} /\ missing = FALSE /\ cut = {}

-----------------------------------------------------------------------------
(* collect_nmap_run.py                                                     *)

\* A stale tcpdump is removed and a new one started, which empties the file.
Begin ==
  /\ main.pc = "off" /\ tried < MaxAttempts
  /\ main' = [MainOff EXCEPT !.pc = "wait"]
  /\ tcpdump' = "starting"
  /\ sent' = {} /\ missing' = FALSE
  /\ UNCHANGED <<scenario, nmaps, pcap, truth, clock, tried, faults, cut>>

\* Mutant: the script waits for tcpdump instead of some seconds.
EndWaitWhenReady ==
  /\ main.pc = "wait" /\ tcpdump = "on"
  /\ main' = [main EXCEPT !.pc = "loop", !.deadline = clock + Repeat]
  /\ UNCHANGED <<scenario, nmaps, tcpdump, pcap, truth, clock, tried, faults, historyVars>>

\* After --startup-wait-seconds, whatever became of tcpdump.
EndWait ==
  /\ main.pc = "wait"
  /\ main' = [main EXCEPT !.pc = "loop", !.deadline = clock + Repeat]
  /\ missing' = (missing \/ tcpdump # "on")
  /\ UNCHANGED <<scenario, nmaps, tcpdump, pcap, truth, clock, tried, faults, sent, cut>>

\* run_nmap_attempts: one attempt in any case, more while there is time.
Another == main.attempts = 0 \/ clock < main.deadline

\* The scenario script is started.
Attempt ==
  /\ main.pc = "loop" /\ Another /\ tried < MaxAttempts
  /\ tried' = tried + 1
  /\ main' = [main EXCEPT !.pc = "attempt", !.attempts = @ + 1]
  /\ scenario' = [ScenarioOff EXCEPT !.pc = "start", !.attempt = tried']
  /\ UNCHANGED <<nmaps, tcpdump, pcap, truth, clock, faults, historyVars>>

NoMore ==
  /\ main.pc = "loop" /\ (~Another \/ tried = MaxAttempts)
  /\ main' = [main EXCEPT !.pc = "flush"]
  /\ UNCHANGED <<scenario, nmaps, tcpdump, pcap, truth, clock, tried, faults, historyVars>>

\* The end of the sleep between two attempts.
WakeAt == IF clock + Interval < main.deadline THEN clock + Interval ELSE main.deadline

\* A failed attempt is the last one; without --repeat-until-seconds any is.
\* (--max-scan-repeats is left at its default, no limit.)
AttemptEnds ==
  /\ main.pc = "attempt" /\ scenario.pc = "off"
  /\ main' = IF scenario.ok /\ Repeat > 0 /\ clock < main.deadline
             THEN [main EXCEPT !.pc = "sleep", !.wake = WakeAt]
             ELSE [main EXCEPT !.pc = "flush", !.ok = scenario.ok]
  /\ UNCHANGED <<scenario, nmaps, tcpdump, pcap, truth, clock, tried, faults, historyVars>>

\* MaxClock stands for any later time.
EndSleep ==
  /\ main.pc = "sleep" /\ (clock >= main.wake \/ clock = MaxClock)
  /\ main' = [main EXCEPT !.pc = "loop"]
  /\ UNCHANGED <<scenario, nmaps, tcpdump, pcap, truth, clock, tried, faults, historyVars>>

\* After --post-scan-wait-seconds.
EndFlush ==
  /\ main.pc = "flush" /\ main' = [main EXCEPT !.pc = "stop"]
  /\ UNCHANGED <<scenario, nmaps, tcpdump, pcap, truth, clock, tried, faults, historyVars>>

\* finally: docker stop.  If that fails only the docker client is killed, after
\* thirty seconds, and the container stays.  The script ends.
StopCapture ==
  /\ main.pc = "stop"
  /\ main' = [main EXCEPT !.pc = "off"]
  /\ tcpdump' \in {"off", tcpdump}
  /\ UNCHANGED <<scenario, nmaps, pcap, truth, clock, tried, faults, historyVars>>

-----------------------------------------------------------------------------
(* run_nmap_scenario.py                                                    *)

\* The clock is read before docker run.
StartNmap ==
  /\ scenario.pc = "start"
  /\ scenario' = [scenario EXCEPT !.pc = "scan", !.from = clock]
  /\ nmaps' = nmaps \cup {scenario.attempt}
  /\ UNCHANGED <<main, tcpdump, pcap, truth, clock, tried, faults, historyVars>>

\* Mutant: the truth is written of successful scans only.
ScanEndsStrict ==
  /\ scenario.pc = "scan" /\ scenario.attempt \notin nmaps
  /\ \E ok \in BOOLEAN :
       scenario' = [scenario EXCEPT !.to = clock, !.ok = ok,
                      !.left = IF ok THEN Pairs ELSE {}, !.pc = IF ok THEN "truth" ELSE "off"]
  /\ UNCHANGED <<main, nmaps, tcpdump, pcap, truth, clock, tried, faults, historyVars>>

\* nmap has ended, with an exit code.
ScanEnds ==
  /\ scenario.pc = "scan" /\ scenario.attempt \notin nmaps
  /\ \E ok \in BOOLEAN :
       scenario' = [scenario EXCEPT !.to = clock, !.ok = ok, !.left = Pairs, !.pc = "truth"]
  /\ UNCHANGED <<main, nmaps, tcpdump, pcap, truth, clock, tried, faults, historyVars>>

\* One line for each target and port; the script's exit code is nmap's.
WriteTruth ==
  /\ scenario.pc = "truth"
  /\ \E p \in scenario.left :
       /\ truth' = truth \cup {[pair |-> p, from |-> scenario.from, to |-> scenario.to]}
       /\ scenario' = [scenario EXCEPT !.left = @ \ {p},
                         !.pc = IF scenario.left = {p} THEN "off" ELSE "truth"]
  /\ UNCHANGED <<main, nmaps, tcpdump, pcap, clock, tried, faults, historyVars>>

\* Mutant: an OSError of the log is swallowed, as the services' logger does.
WriteFailsQuietly ==
  /\ scenario.pc = "truth" /\ faults < MaxFaults
  /\ faults' = faults + 1
  /\ scenario' = [scenario EXCEPT !.pc = "off"]
  /\ cut' = cut \cup {scenario.attempt}
  /\ UNCHANGED <<main, nmaps, tcpdump, pcap, truth, clock, tried, sent, missing>>

\* nmap's output or a line cannot be written: the script ends with a traceback.
WriteFails ==
  /\ scenario.pc = "truth" /\ faults < MaxFaults
  /\ faults' = faults + 1
  /\ scenario' = [scenario EXCEPT !.pc = "off", !.ok = FALSE]
  /\ cut' = cut \cup {scenario.attempt}
  /\ UNCHANGED <<main, nmaps, tcpdump, pcap, truth, clock, tried, sent, missing>>

-----------------------------------------------------------------------------
(* The containers and the host's clock.                                    *)

TcpdumpStarts ==
  /\ tcpdump = "starting" /\ tcpdump' = "on" /\ pcap' = {}
  /\ UNCHANGED <<main, scenario, nmaps, truth, clock, tried, faults, historyVars>>

\* The image is missing, the interface is wrong, the disk is full.
TcpdumpFails ==
  /\ tcpdump # "off" /\ tcpdump' = "off" /\ missing' = TRUE
  /\ UNCHANGED <<main, scenario, nmaps, pcap, truth, clock, tried, faults, sent, cut>>

NmapSends(a) ==
  /\ a \in nmaps
  /\ \E p \in Pairs :
       LET probe == [attempt |-> a, pair |-> p, at |-> clock]
       IN /\ sent' = IF main.pc = "attempt" /\ a = scenario.attempt
                     THEN sent \cup {probe} ELSE sent
          /\ pcap' = IF tcpdump = "on" THEN pcap \cup {probe} ELSE pcap
  /\ UNCHANGED <<main, scenario, nmaps, tcpdump, truth, clock, tried, faults, missing, cut>>

NmapEnds(a) ==
  /\ a \in nmaps /\ nmaps' = nmaps \ {a}
  /\ UNCHANGED <<main, scenario, tcpdump, pcap, truth, clock, tried, faults, historyVars>>

Tick ==
  /\ clock < MaxClock /\ clock' = clock + 1
  /\ UNCHANGED <<main, scenario, nmaps, tcpdump, pcap, truth, tried, faults, historyVars>>

-----------------------------------------------------------------------------
(* Both scripts end at once, with their control group or terminal;         *)
(* containers go on or not.                                                *)

ScenarioDies ==
  /\ faults < MaxFaults /\ faults' = faults + 1
  /\ scenario' = [ScenarioOff EXCEPT !.ok = FALSE]
  /\ cut' = IF scenario.pc = "off" THEN cut ELSE cut \cup {scenario.attempt}
  /\ nmaps' \in {nmaps, nmaps \ {scenario.attempt}}
  /\ tcpdump' \in {"off", tcpdump} /\ missing' = TRUE
  /\ UNCHANGED <<pcap, truth, clock, tried, sent>>

\* The systemd unit is stopped, or the host reboots.
Kill == main.pc # "off" /\ main' = MainOff /\ ScenarioDies

\* Ctrl-C: the scenario ends, the capture script runs its finally clause.
Interrupt ==
  /\ main.pc \notin {"off", "stop"} /\ ScenarioDies
  /\ main' = [main EXCEPT !.pc = "stop", !.ok = FALSE]

MainSteps ==
  EndWait \/ Attempt \/ NoMore \/ AttemptEnds \/ EndSleep \/ EndFlush \/ StopCapture

ScenarioSteps == StartNmap \/ ScanEnds \/ WriteTruth

Next ==
  \/ Begin \/ MainSteps \/ ScenarioSteps \/ WriteFails
  \/ TcpdumpStarts \/ TcpdumpFails \/ Tick
  \/ \E a \in Attempts : NmapSends(a) \/ NmapEnds(a)
  \/ Kill \/ Interrupt

Spec == Init /\ [][Next]_vars

\* The scripts run, time passes, nmap ends.
FairSpec ==
  /\ Spec /\ WF_vars(MainSteps) /\ WF_vars(ScenarioSteps) /\ WF_vars(Tick)
  /\ \A a \in Attempts : WF_vars(NmapEnds(a))

-----------------------------------------------------------------------------
Labelled(probe) ==
  \E e \in truth : e.pair = probe.pair /\ e.from <= probe.at /\ probe.at <= e.to

\* When the scripts have ended, every captured probe lies in the interval of an
\* event of its target and port, whether nmap succeeded or not; only what the
\* nmap of a cut scenario sends, even into a later capture, is unlabelled.
UnlabelledWasCut ==
  main.pc = "off" =>
    \A probe \in pcap : Labelled(probe) \/ probe.attempt \in cut

\* The capture and its log belong together: they have their type, and what is
\* captured is labelled.
LogTellsCapture == TypeOK /\ UnlabelledWasCut

\* A capture that ends with exit code 0 holds all its attempts sent, and the log
\* labels all of it, unless tcpdump failed or was not ready in time, which the
\* script does not notice.
ZeroMeansLabelled ==
  main.pc = "off" /\ main.attempts > 0 /\ main.ok =>
    /\ \A probe \in sent : Labelled(probe)
    /\ missing \/ sent \subseteq pcap

\* A repeated capture whose attempts succeed goes on to its deadline, so that
\* captures of different scan types last equally long.
LastsAsAsked ==
  main.pc = "flush" /\ main.ok /\ Repeat > 0 /\ tried < MaxAttempts =>
    clock >= main.deadline

\* Exit code 0 means that all that was asked for is there: every attempt captured
\* and labelled, for as long as asked.
ZeroIsComplete == ZeroMeansLabelled /\ LastsAsAsked

\* Every capture ends, also one whose tcpdump never ran.
CaptureEnds == main.pc # "off" ~> main.pc = "off"

-----------------------------------------------------------------------------
(* Why it holds.                                                           *)

\* A probe that the present scenario will label, unless it is cut.
InHand(probe) ==
  /\ probe.attempt = scenario.attempt /\ scenario.from <= probe.at
  /\ \/ scenario.pc = "scan"
     \/ scenario.pc = "truth" /\ probe.at <= scenario.to /\ probe.pair \in scenario.left

\* A scenario runs only under an attempt, its nmap only while it scans; a nmap
\* that survives belongs to an earlier attempt, one that was cut.
ProcessInv ==
  /\ scenario.pc # "off" => main.pc = "attempt"
  /\ main.pc = "attempt" => scenario.attempt = tried /\ tried > 0
  /\ \A a \in cut : a <= tried
  /\ \A a \in nmaps : a \in cut \/ (a = scenario.attempt /\ scenario.pc = "scan")
  /\ main.pc = "attempt" /\ (scenario.pc # "off" \/ scenario.ok) => scenario.attempt \notin cut

LabelInv ==
  /\ scenario.from <= clock
  /\ \A probe \in pcap \cup sent : probe.at <= clock
  /\ \A probe \in pcap : Labelled(probe) \/ probe.attempt \in cut \/ InHand(probe)

\* This capture's attempts have failed, or there are none.
Failed ==
  \/ main.pc = "off" /\ main.attempts = 0
  \/ ~main.ok
  \/ main.pc = "attempt" /\ scenario.pc = "off" /\ ~scenario.ok

\* What was sent is labelled or will be, unless the capture fails.
Telling == Failed \/ \A probe \in sent : Labelled(probe) \/ InHand(probe)

\* tcpdump runs while there are attempts, or the script was not told.
Capturing ==
  /\ main.pc \in {"wait", "loop", "attempt", "sleep"} => main.ok
  /\ main.pc = "wait" => sent = {}
  /\ main.pc \in {"loop", "attempt", "sleep", "flush", "stop"} /\ ~missing => tcpdump = "on"
  /\ tcpdump = "starting" /\ ~missing => main.pc = "wait"
  /\ missing \/ sent \subseteq pcap

CaptureInv == TypeOK /\ ProcessInv /\ LabelInv /\ Capturing /\ Telling /\ LastsAsAsked
=============================================================================
