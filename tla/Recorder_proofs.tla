--------------------------- MODULE Recorder_proofs ---------------------------
(***************************************************************************)
(* Proofs about the NVR's recorder supervisor, for any cameras and any     *)
(* number of changes and faults: while its loop and stop() edit one table, *)
(* a camera has one recorder and none gets lost before stop().             *)
(***************************************************************************)
EXTENDS Recorder, SequenceTheorems, TLAPS

-----------------------------------------------------------------------------
(* What is inductive.                                                      *)

Recordings == [camera : Cameras, alive : BOOLEAN, late : BOOLEAN]
Infos == [status : {"none", "recording", "stopped", "error"}, pid : Nat]
UpTo == 0..Len(recorders)

\* Whatever names a process names none or one that was started.
PidsInv ==
  /\ wanted \in SUBSET Cameras
  /\ recorders \in Seq(Recordings)
  /\ table \in [Cameras -> UpTo] /\ info \in [Cameras -> Infos]
  /\ proc \in UpTo /\ mainProc \in UpTo
  /\ desired \in SUBSET Cameras /\ surplus \in SUBSET Cameras /\ mainTodo \in SUBSET Cameras
  /\ cam \in Cameras \cup {NoCamera} /\ mainCam \in Cameras \cup {NoCamera}
  /\ changes \in Nat /\ faults \in Nat

\* The loop's visit to a camera, until its recorder is registered.
Visiting == {"look", "clear", "start", "register"}
Visits(c) == pc \in Visiting /\ cam = c

\* The loop is the only one to register, so that the table holds what it read,
\* or nothing.
LoopInv ==
  /\ pc \in {"top", "snapshot", "next", "exited", "dead", "terminate", "pop"} \cup Visiting
  /\ pc \in Visiting \cup {"terminate", "pop"} => cam \in Cameras
  /\ pc \in Visiting => cam \notin desired
  /\ pc \in {"look", "clear", "terminate", "pop"} => table[cam] \in {proc, 0}
  /\ pc \in {"start", "register"} => table[cam] = 0
  /\ pc \in {"clear", "pop"} => ~Alive(proc)
  /\ pc = "register" => proc \in Pids /\ recorders[proc].camera = cam

Listed == mainpc \notin {"running", "snapshot"}

\* A recorder that stop() has popped unseen belongs to a camera that the last
\* turn has visited already.
Escaped(c) == Listed /\ c \notin desired /\ ~Visits(c)

MainInv ==
  /\ mainpc \in {"running", "snapshot", "next", "terminate", "pop",
                 "returned", "abandoned", "raised"}
  /\ mainpc \in {"terminate", "pop"} =>
       /\ mainCam \in Cameras \ mainTodo
       /\ table[mainCam] \in {mainProc, 0} \/ Escaped(mainCam)
  /\ mainpc = "pop" => ~Alive(mainProc)
  /\ mainpc = "returned" => mainTodo = {} /\ pc \in {"exited", "dead"}

\* Where a live recorder is known.
KnownInv ==
  \A p \in Pids : Alive(p) =>
    \/ table[recorders[p].camera] = p
    \/ pc = "register" /\ proc = p
    \/ Escaped(recorders[p].camera)

\* Who ends one that was registered before stop() listed the table.
LateInv ==
  mainpc \in {"next", "terminate", "pop", "returned"} =>
    \A p \in Pids : Alive(p) /\ ~recorders[p].late =>
      \/ recorders[p].camera \in mainTodo /\ table[recorders[p].camera] = p
      \/ pc = "register" /\ proc = p
      \/ mainpc = "terminate" /\ mainProc = p

RecorderInv ==
  PidsInv /\ LoopInv /\ MainInv /\ KnownInv /\ LateInv /\ OneRecorder /\ InfoMatchesTable

-----------------------------------------------------------------------------
(* The operations on the processes.                                        *)

\* Ending a process changes only whether it is alive.
LEMMA KilledIs ==
  ASSUME recorders \in Seq(Recordings), NEW p \in Nat
  PROVE  /\ Killed(p) \in Seq(Recordings) /\ Len(Killed(p)) = Len(recorders)
         /\ \A q \in Pids : /\ Killed(p)[q].camera = recorders[q].camera
                            /\ Killed(p)[q].late = recorders[q].late
                            /\ Killed(p)[q].alive => recorders[q].alive /\ q # p
  <1>1. \A q \in Pids : recorders[q] \in Recordings
    BY DEF Pids
  <1>2. CASE Alive(p)
    <2>1. Killed(p) = [recorders EXCEPT ![p].alive = FALSE] /\ p \in Pids
      BY <1>2 DEF Killed, Alive
    <2>2. [recorders[p] EXCEPT !.alive = FALSE] \in Recordings
      BY <1>1, <2>1 DEF Recordings
    <2>3. Killed(p) = [recorders EXCEPT ![p] = [recorders[p] EXCEPT !.alive = FALSE]]
      BY <2>1
    <2>4. Killed(p) \in Seq(Recordings) /\ Len(Killed(p)) = Len(recorders)
      BY <2>1, <2>2, <2>3, ExceptSeq DEF Pids
    <2>5. ASSUME NEW q \in Pids
          PROVE  /\ Killed(p)[q].camera = recorders[q].camera
                 /\ Killed(p)[q].late = recorders[q].late
                 /\ Killed(p)[q].alive => recorders[q].alive /\ q # p
      <3>1. CASE q = p
        BY <1>1, <2>1, <2>3, <3>1 DEF Recordings, Pids
      <3>2. CASE q # p
        BY <1>1, <2>3, <3>2 DEF Pids
      <3> QED
        BY <3>1, <3>2
    <2> QED
      BY <2>4, <2>5
  <1>3. CASE ~Alive(p)
    BY <1>3 DEF Killed, Alive
  <1> QED
    BY <1>2, <1>3

\* Every process was started for a camera.
LEMMA CameraIs ==
  ASSUME PidsInv PROVE \A p \in Pids : p # 0 /\ recorders[p].camera \in Cameras
  <1>1. \A p \in Pids : p # 0 /\ recorders[p] \in Recordings
    BY DEF PidsInv, Pids
  <1> QED
    BY <1>1 DEF Recordings

\* A process that ends disturbs nothing, wherever the two threads are.
LEMMA KillKeepsInv ==
  ASSUME RecorderInv, NEW p \in Nat, recorders' = Killed(p),
         UNCHANGED <<wanted, table, info, desired, surplus, cam, proc, mainTodo, mainCam, mainProc>>,
         changes' \in Nat, faults' \in Nat,
         UNCHANGED mainpc \/ (mainpc = "terminate" /\ mainpc' = "pop" /\ p = mainProc),
         UNCHANGED pc \/ (pc = "terminate" /\ pc' = "pop" /\ p = proc)
  PROVE  RecorderInv'
  <1>1. /\ recorders' \in Seq(Recordings) /\ Len(recorders') = Len(recorders) /\ Pids' = Pids
        /\ \A q \in Pids : /\ recorders'[q].camera = recorders[q].camera
                           /\ recorders'[q].late = recorders[q].late
                           /\ recorders'[q].alive => recorders[q].alive /\ q # p
    BY KilledIs DEF RecorderInv, PidsInv, Pids
  <1>2. \A q : Alive(q)' => Alive(q) /\ q # p
    BY <1>1 DEF Alive
  <1>3. PidsInv'
    BY <1>1 DEF RecorderInv, PidsInv, UpTo
  <1>4. LoopInv'
    BY <1>1, <1>2 DEF RecorderInv, LoopInv, Visiting
  <1>5. \A c : Escaped(c) => Escaped(c)'
    BY DEF Escaped, Listed, Visits, Visiting
  <1>6. MainInv'
    BY <1>2, <1>5 DEF RecorderInv, MainInv
  <1>7. KnownInv'
    BY <1>1, <1>2, <1>5 DEF RecorderInv, KnownInv
  <1>8. LateInv'
    BY <1>1, <1>2 DEF RecorderInv, LateInv
  <1>9. OneRecorder'
    BY <1>1, <1>2 DEF RecorderInv, OneRecorder
  <1>10. InfoMatchesTable'
    BY DEF RecorderInv, InfoMatchesTable
  <1> QED
    BY <1>3, <1>4, <1>6, <1>7, <1>8, <1>9, <1>10 DEF RecorderInv

-----------------------------------------------------------------------------
(* Steps that leave the processes alone.                                   *)

\* At first nothing is recorded.
LEMMA RecorderInvInit ==
  ASSUME Init PROVE RecorderInv
  <1>1. Pids = {} /\ UpTo = {0} /\ recorders \in Seq(Recordings)
    BY DEF Init, Pids, UpTo
  <1>2. [status |-> "none", pid |-> 0] \in Infos
    BY DEF Infos
  <1> QED
    BY <1>1, <1>2
    DEF Init, RecorderInv, PidsInv, LoopInv, MainInv, KnownInv, LateInv, OneRecorder,
        InfoMatchesTable, Visiting, Alive

\* Emptying an entry whose process has ended.
LEMMA PoppedIs ==
  ASSUME RecorderInv, NEW c \in Cameras, Popped(c)
  PROVE  /\ table' \in [Cameras -> UpTo] /\ info' \in [Cameras -> Infos]
         /\ table'[c] = 0 /\ info'[c].status = "stopped"
         /\ \A d \in Cameras : d # c => table'[d] = table[d] /\ info'[d] = info[d]
  <1>1. [status |-> "stopped", pid |-> 0] \in Infos /\ 0 \in UpTo
    BY DEF Infos, UpTo, RecorderInv, PidsInv
  <1> QED
    BY <1>1 DEF Popped, RecorderInv, PidsInv

\* The loop between its visits.
LEMMA LoopKeepsInv ==
  ASSUME RecorderInv,
         \/ LoopEnds \/ ListTargets \/ ListActive \/ Look \/ TurnEnds
         \/ \E c \in Cameras : StopSurplus(c) \/ Visit(c)
  PROVE  RecorderInv'
  <1> USE DEF RecorderInv
  <1>0. /\ UNCHANGED <<wanted, table, info, recorders, mainVars, changes>>
        /\ faults \in Nat
    BY DEF LoopEnds, ListTargets, ListActive, Look, TurnEnds, StopSurplus, Visit, mainVars, PidsInv
  <1>1. Pids' = Pids /\ UpTo' = UpTo /\ \A p : Alive(p)' <=> Alive(p)
    BY <1>0 DEF Pids, UpTo, Alive
  <1>2. PidsInv'
    <2>1. faults' \in Nat
      BY <1>0 DEF LoopEnds, ListTargets, ListActive, Look, TurnEnds, StopSurplus, Visit,
                  Continues, Fault
    <2>2. /\ desired' \in SUBSET Cameras /\ surplus' \in SUBSET Cameras
          /\ cam' \in Cameras \cup {NoCamera} /\ proc' \in UpTo
      BY DEF LoopEnds, ListTargets, ListActive, Look, TurnEnds, StopSurplus, Visit, PidsInv, Active
    <2> QED
      BY <1>0, <1>1, <2>1, <2>2 DEF PidsInv, mainVars
  <1>3. LoopInv'
    BY <1>0, <1>1
    DEF LoopEnds, ListTargets, ListActive, Look, TurnEnds, StopSurplus, Visit, LoopInv, PidsInv,
        Visiting, Continues
  <1>4. \A c \in Cameras : Escaped(c) => Escaped(c)'
    BY <1>0
    DEF LoopEnds, ListTargets, ListActive, Look, TurnEnds, StopSurplus, Visit, Escaped, Visits,
        Visiting, Listed, stopping, Continues, mainVars
  <1>5. \A p \in Pids : recorders[p].camera \in Cameras
    BY CameraIs
  <1>6. ~(pc = "register") /\ (pc' \in {"exited", "dead"} \/ pc \notin {"exited", "dead"})
    BY DEF LoopEnds, ListTargets, ListActive, Look, TurnEnds, StopSurplus, Visit
  <1>7. MainInv'
    BY <1>0, <1>1, <1>4, <1>6 DEF MainInv, mainVars
  <1>8. KnownInv'
    BY <1>0, <1>1, <1>4, <1>5, <1>6 DEF KnownInv
  <1>9. LateInv'
    BY <1>0, <1>1, <1>6 DEF LateInv, mainVars
  <1>10. OneRecorder'
    BY <1>0, <1>1 DEF OneRecorder
  <1>11. InfoMatchesTable'
    <2>1. pc \in {"start", "register", "dead"} => FALSE
      BY DEF LoopEnds, ListTargets, ListActive, Look, TurnEnds, StopSurplus, Visit
    <2> QED
      BY <1>0, <2>1 DEF InfoMatchesTable
  <1> QED
    BY <1>2, <1>3, <1>7, <1>8, <1>9, <1>10, <1>11

\* _stop_camera pops a process that it has ended.
LEMMA PopKeepsInv ==
  ASSUME RecorderInv, Pop PROVE RecorderInv'
  <1> USE DEF RecorderInv
  <1>0. /\ pc = "pop" /\ Popped(cam) /\ cam \in Cameras /\ pc' \in {"next", "dead"}
        /\ UNCHANGED <<wanted, recorders, desired, surplus, cam, proc, mainVars, changes>>
        /\ faults' \in Nat
    BY DEF Pop, Continues, Fault, LoopInv, PidsInv
  <1>1. Pids' = Pids /\ UpTo' = UpTo /\ \A p : Alive(p)' <=> Alive(p)
    BY <1>0 DEF Pids, UpTo, Alive
  <1>2. /\ table' \in [Cameras -> UpTo] /\ info' \in [Cameras -> Infos]
        /\ table'[cam] = 0 /\ info'[cam].status = "stopped"
        /\ \A d \in Cameras : d # cam => table'[d] = table[d] /\ info'[d] = info[d]
    BY <1>0, PoppedIs
  <1>3. PidsInv'
    BY <1>0, <1>1, <1>2 DEF PidsInv, mainVars
  <1>4. LoopInv'
    BY <1>0, <1>1 DEF LoopInv, Visiting
  <1>5. \A c : Escaped(c) => Escaped(c)'
    BY <1>0 DEF Escaped, Visits, Visiting, Listed, mainVars
  <1>6. MainInv'
    BY <1>0, <1>1, <1>2, <1>5 DEF MainInv, mainVars
  <1>7. \A p \in Pids : Alive(p) => p # 0 /\ table[cam] # p /\ recorders[p].camera \in Cameras
    BY <1>0, CameraIs DEF LoopInv
  <1>8. KnownInv'
    BY <1>0, <1>1, <1>2, <1>5, <1>7 DEF KnownInv
  <1>9. LateInv'
    BY <1>0, <1>1, <1>2, <1>7 DEF LateInv, mainVars
  <1>10. OneRecorder'
    BY <1>0, <1>1 DEF OneRecorder
  <1>11. InfoMatchesTable'
    BY <1>0, <1>2 DEF InfoMatchesTable
  <1> QED
    BY <1>3, <1>4, <1>6, <1>8, <1>9, <1>10, <1>11

\* A recorder that has exited is taken from the table, and then started again.
LEMMA ClearKeepsInv ==
  ASSUME RecorderInv, Clear PROVE RecorderInv'
  <1> USE DEF RecorderInv
  <1>0. /\ pc = "clear" /\ cam \in Cameras /\ pc' \in {"start", "dead"}
        /\ UNCHANGED <<wanted, info, recorders, desired, surplus, cam, proc, mainVars, changes>>
        /\ faults' \in Nat /\ table' = IF pc' = "dead" THEN table ELSE [table EXCEPT ![cam] = 0]
    BY DEF Clear, Continues, Fault, LoopInv, PidsInv, Visiting
  <1>1. Pids' = Pids /\ UpTo' = UpTo /\ \A p : Alive(p)' <=> Alive(p)
    BY <1>0 DEF Pids, UpTo, Alive
  <1>2. /\ table' \in [Cameras -> UpTo]
        /\ pc' = "start" => table'[cam] = 0
        /\ table'[cam] \in {table[cam], 0}
        /\ \A d \in Cameras : d # cam => table'[d] = table[d]
    BY <1>0 DEF PidsInv, UpTo
  <1>3. PidsInv'
    BY <1>0, <1>1, <1>2 DEF PidsInv, mainVars
  <1>4. LoopInv'
    BY <1>0, <1>1, <1>2 DEF LoopInv, Visiting
  <1>5. \A c : Escaped(c) => Escaped(c)'
    BY <1>0 DEF Escaped, Visits, Visiting, Listed, mainVars
  <1>6. MainInv'
    BY <1>0, <1>1, <1>2, <1>5 DEF MainInv, mainVars
  <1>7. \A p \in Pids : Alive(p) => p # 0 /\ table[cam] # p /\ recorders[p].camera \in Cameras
    BY <1>0, CameraIs DEF LoopInv
  <1>8. KnownInv'
    BY <1>0, <1>1, <1>2, <1>5, <1>7 DEF KnownInv
  <1>9. LateInv'
    BY <1>0, <1>1, <1>2, <1>7 DEF LateInv, mainVars
  <1>10. OneRecorder'
    BY <1>0, <1>1 DEF OneRecorder
  <1>11. InfoMatchesTable'
    BY <1>0, <1>2 DEF InfoMatchesTable
  <1> QED
    BY <1>3, <1>4, <1>6, <1>8, <1>9, <1>10, <1>11

\* Popen finds no live recorder of its camera, also when stop() has popped one.
LEMMA SpawnKeepsInv ==
  ASSUME RecorderInv, Spawn PROVE RecorderInv'
  <1> USE DEF RecorderInv
  <1> DEFINE new == [camera |-> cam, alive |-> TRUE, late |-> FALSE]
             n == Len(recorders) + 1
  <1>0. /\ pc = "start" /\ cam \in Cameras /\ pc' = "register" /\ table[cam] = 0
        /\ UNCHANGED <<wanted, table, info, desired, surplus, cam, mainVars, changes, faults>>
        /\ proc' = n /\ recorders' = Append(recorders, new)
    BY DEF Spawn, LoopInv, Visiting
  <1>1. /\ recorders' \in Seq(Recordings) /\ Len(recorders') = n /\ Len(recorders) \in Nat
        /\ recorders'[n] = new /\ \A p \in Pids : recorders'[p] = recorders[p]
    <2>1. new \in Recordings
      BY <1>0 DEF Recordings
    <2> QED
      BY <1>0, <2>1, AppendProperties DEF PidsInv, Pids
  <1>2. /\ Pids' = Pids \cup {n} /\ n \notin Pids /\ \A p \in UpTo : p \in UpTo' /\ p # n
        /\ n \in UpTo' /\ \A p \in Pids : Alive(p)' <=> Alive(p)
    BY <1>1 DEF Pids, UpTo, Alive
  <1>3. PidsInv'
    BY <1>0, <1>1, <1>2 DEF PidsInv, mainVars
  <1>4. LoopInv'
    BY <1>0, <1>1, <1>2 DEF LoopInv, Visiting
  <1>5. \A c : Escaped(c) => Escaped(c)'
    BY <1>0 DEF Escaped, Visits, Visiting, Listed, mainVars
  <1>6. MainInv'
    <2>1. ~Alive(mainProc) => ~Alive(mainProc)'
      <3>1. mainProc' = mainProc /\ mainProc \in UpTo
        BY <1>0 DEF mainVars, PidsInv
      <3> HIDE DEF n, new
      <3> QED
        BY <1>2, <3>1 DEF Alive
    <2> QED
      BY <1>0, <1>5, <2>1 DEF MainInv, mainVars
  <1>7. ASSUME NEW p \in Pids, Alive(p) PROVE recorders[p].camera # cam
    <2>1. p # 0
      BY DEF Pids
    <2> QED
      BY <1>0, <1>7, <2>1 DEF KnownInv, Escaped, Visits, Visiting
  <1>8. KnownInv'
    BY <1>0, <1>1, <1>2, <1>5 DEF KnownInv
  <1>9. LateInv'
    BY <1>0, <1>1, <1>2 DEF LateInv, mainVars
  <1>10. OneRecorder'
    <2>1. recorders'[n].camera = cam
      BY <1>1
    <2> HIDE DEF n, new
    <2>2. ASSUME NEW p \in Pids', NEW q \in Pids', Alive(p)', Alive(q)',
                 recorders'[p].camera = recorders'[q].camera
          PROVE  p = q
      <3>1. CASE p \in Pids /\ q \in Pids
        BY <1>1, <1>2, <2>2, <3>1 DEF OneRecorder
      <3>2. CASE p = n \/ q = n
        BY <1>1, <1>2, <1>7, <2>1, <2>2, <3>2
      <3> QED
        BY <1>2, <3>1, <3>2
    <2> QED
      BY <2>2 DEF OneRecorder
  <1>11. InfoMatchesTable'
    BY <1>0 DEF InfoMatchesTable
  <1> QED
    BY <1>3, <1>4, <1>6, <1>8, <1>9, <1>10, <1>11

\* A start that fails leaves the entry empty.
LEMMA StartFailsKeepsInv ==
  ASSUME RecorderInv, StartFails PROVE RecorderInv'
  <1> USE DEF RecorderInv
  <1>0. /\ pc = "start" /\ cam \in Cameras /\ pc' \in {"next", "dead"} /\ table[cam] = 0
        /\ UNCHANGED <<wanted, table, recorders, desired, surplus, cam, proc, mainVars, changes>>
        /\ faults' \in Nat
    BY DEF StartFails, Fault, LoopInv, PidsInv, Visiting
  <1>1. Pids' = Pids /\ UpTo' = UpTo /\ \A p : Alive(p)' <=> Alive(p)
    BY <1>0 DEF Pids, UpTo, Alive
  <1>2. /\ info' \in [Cameras -> Infos] /\ \A d \in Cameras : d # cam => info'[d] = info[d]
        /\ pc' = "next" => info'[cam].status = "error"
    <2>1. [status |-> "error", pid |-> 0] \in Infos
      BY DEF Infos
    <2> QED
      BY <1>0, <2>1 DEF StartFails, PidsInv
  <1>3. PidsInv'
    BY <1>0, <1>1, <1>2 DEF PidsInv, mainVars
  <1>4. LoopInv'
    BY <1>0, <1>1 DEF LoopInv, Visiting
  <1>5. \A c : Escaped(c) => Escaped(c)'
    BY <1>0 DEF Escaped, Visits, Visiting, Listed, mainVars
  <1>6. MainInv'
    BY <1>0, <1>1, <1>5 DEF MainInv, mainVars
  <1>7. KnownInv'
    BY <1>0, <1>1, <1>5 DEF KnownInv
  <1>8. LateInv'
    BY <1>0, <1>1 DEF LateInv, mainVars
  <1>9. OneRecorder'
    BY <1>0, <1>1 DEF OneRecorder
  <1>10. InfoMatchesTable'
    BY <1>0, <1>2 DEF InfoMatchesTable
  <1> QED
    BY <1>3, <1>4, <1>6, <1>7, <1>8, <1>9, <1>10

\* Registering fills an empty entry, with the only live recorder of its camera.
LEMMA RegisterKeepsInv ==
  ASSUME RecorderInv, Register PROVE RecorderInv'
  <1> USE DEF RecorderInv
  <1> DEFINE late == mainpc \notin {"running", "snapshot"}
  <1>0. /\ pc = "register" /\ cam \in Cameras /\ pc' \in {"next", "dead"} /\ table[cam] = 0
        /\ cam \notin desired /\ proc \in Pids /\ recorders[proc].camera = cam
        /\ UNCHANGED <<wanted, desired, surplus, cam, proc, mainVars, changes>>
        /\ faults' \in Nat
        /\ table' = [table EXCEPT ![cam] = proc]
        /\ info' = [info EXCEPT ![cam] = [status |-> "recording", pid |-> proc]]
        /\ recorders' = [recorders EXCEPT ![proc].late = late]
    BY DEF Register, Continues, Fault, LoopInv, PidsInv, Visiting
  <1>1. /\ recorders' \in Seq(Recordings) /\ Len(recorders') = Len(recorders)
        /\ \A q \in Pids : /\ recorders'[q].camera = recorders[q].camera
                           /\ recorders'[q].alive <=> recorders[q].alive
                           /\ q # proc => recorders'[q].late = recorders[q].late
        /\ recorders'[proc].late <=> late
    <2>1. \A q \in Pids : recorders[q] \in Recordings
      BY DEF PidsInv, Pids
    <2>2. [recorders[proc] EXCEPT !.late = late] \in Recordings
      BY <1>0, <2>1 DEF Recordings
    <2>3. recorders' = [recorders EXCEPT ![proc] = [recorders[proc] EXCEPT !.late = late]]
      BY <1>0
    <2>4. recorders' \in Seq(Recordings) /\ Len(recorders') = Len(recorders)
      BY <1>0, <2>2, <2>3, ExceptSeq DEF Pids, PidsInv
    <2>5. \A q \in Pids : q # proc => recorders'[q] = recorders[q]
      BY <2>3 DEF Pids, PidsInv
    <2>6. recorders'[proc] = [recorders[proc] EXCEPT !.late = late]
      BY <1>0, <2>3 DEF Pids, PidsInv
    <2>7. /\ recorders'[proc].camera = recorders[proc].camera
          /\ recorders'[proc].alive <=> recorders[proc].alive
          /\ recorders'[proc].late <=> late
      <3>1. late \in BOOLEAN /\ recorders[proc] \in Recordings
        BY <1>0, <2>1
      <3> HIDE DEF late
      <3>2. CASE late = TRUE
        BY <2>6, <3>1, <3>2 DEF Recordings
      <3>3. CASE late = FALSE
        BY <2>6, <3>1, <3>3 DEF Recordings
      <3> QED
        BY <3>1, <3>2, <3>3
    <2> QED
      BY <2>4, <2>5, <2>7
  <1>2. Pids' = Pids /\ UpTo' = UpTo /\ \A p : Alive(p)' <=> Alive(p)
    BY <1>1 DEF Pids, UpTo, Alive
  <1>3. /\ table' \in [Cameras -> UpTo] /\ table'[cam] = proc /\ proc # 0
        /\ info' \in [Cameras -> Infos] /\ info'[cam] = [status |-> "recording", pid |-> proc]
        /\ \A d \in Cameras : d # cam => table'[d] = table[d] /\ info'[d] = info[d]
    <2>1. [status |-> "recording", pid |-> proc] \in Infos /\ proc \in UpTo /\ proc # 0
      BY <1>0 DEF Infos, Pids, PidsInv, UpTo
    <2> QED
      BY <1>0, <2>1 DEF PidsInv
  <1>4. PidsInv'
    BY <1>0, <1>1, <1>2, <1>3 DEF PidsInv, mainVars
  <1>5. LoopInv'
    BY <1>0 DEF LoopInv, Visiting
  <1>6. \A c : Escaped(c) => Escaped(c)'
    BY <1>0 DEF Escaped, Visits, Visiting, Listed, mainVars
  <1>7. MainInv'
    <2>1. mainpc \in {"terminate", "pop"} => Escaped(cam)'
      BY <1>0 DEF Escaped, Visits, Visiting, Listed, mainVars
    <2> QED
      BY <1>0, <1>2, <1>3, <1>6, <2>1 DEF MainInv, mainVars
  <1>8. \A p \in Pids : p # 0 /\ recorders[p].camera \in Cameras
    BY CameraIs
  <1>9. KnownInv'
    BY <1>0, <1>1, <1>2, <1>3, <1>6, <1>8 DEF KnownInv
  <1>10. LateInv'
    BY <1>0, <1>1, <1>2, <1>3, <1>8 DEF LateInv, mainVars
  <1>11. OneRecorder'
    BY <1>1, <1>2 DEF OneRecorder
  <1>12. InfoMatchesTable'
    BY <1>0, <1>3 DEF InfoMatchesTable
  <1> QED
    BY <1>4, <1>5, <1>7, <1>9, <1>10, <1>11, <1>12

-----------------------------------------------------------------------------
(* The steps of stop(), and of everybody else.                             *)

\* stop() from its event to the first termination, and its return.
LEMMA StopKeepsInv ==
  ASSUME RecorderInv,
         StopBegins \/ StopListsActive \/ StopReturns \/ \E c \in Cameras : StopCamera(c)
  PROVE  RecorderInv'
  <1> USE DEF RecorderInv
  <1>0. UNCHANGED <<wanted, table, info, recorders, loopVars, changes>> /\ faults' \in Nat
    BY DEF StopBegins, StopListsActive, StopReturns, StopCamera, Fault, PidsInv
  <1>1. Pids' = Pids /\ UpTo' = UpTo /\ \A p : Alive(p)' <=> Alive(p)
    BY <1>0 DEF Pids, UpTo, Alive
  <1>2. /\ mainTodo' \in SUBSET Cameras /\ mainCam' \in Cameras \cup {NoCamera}
        /\ mainProc' \in UpTo
    BY DEF StopBegins, StopListsActive, StopReturns, StopCamera, PidsInv, Active
  <1>3. PidsInv'
    BY <1>0, <1>1, <1>2 DEF PidsInv, loopVars
  <1>4. LoopInv'
    BY <1>0, <1>1 DEF LoopInv, Visiting, loopVars
  <1>5. \A c : Escaped(c) => Escaped(c)'
    BY <1>0 DEF StopBegins, StopListsActive, StopReturns, StopCamera, Escaped, Visits, Listed,
                loopVars
  <1>6. MainInv'
    BY <1>0 DEF StopBegins, StopListsActive, StopReturns, StopCamera, MainInv, loopVars
  <1>7. KnownInv'
    BY <1>0, <1>1, <1>5 DEF KnownInv, loopVars
  <1>8. LateInv'
    <2>1. \A p \in Pids : p # 0 /\ recorders[p].camera \in Cameras
      BY CameraIs
    <2>2. CASE StopBegins
      BY <2>2 DEF StopBegins, LateInv
    <2>3. CASE StopListsActive
      BY <1>0, <1>1, <2>1, <2>3 DEF StopListsActive, LateInv, KnownInv, Escaped, Listed, Active, loopVars
    <2>4. CASE StopReturns
      BY <1>0, <1>1, <2>4 DEF StopReturns, LateInv, loopVars
    <2>5. CASE \E c \in Cameras : StopCamera(c)
      BY <1>0, <1>1, <2>1, <2>5 DEF StopCamera, LateInv, loopVars
    <2> QED
      BY <2>2, <2>3, <2>4, <2>5
  <1>9. OneRecorder'
    BY <1>0, <1>1 DEF OneRecorder
  <1>10. InfoMatchesTable'
    BY <1>0 DEF InfoMatchesTable, loopVars
  <1> QED
    BY <1>3, <1>4, <1>6, <1>7, <1>8, <1>9, <1>10

\* stop() pops the process it has ended, or one that the last turn registered.
LEMMA StopPopsKeepsInv ==
  ASSUME RecorderInv, StopPops PROVE RecorderInv'
  <1> USE DEF RecorderInv
  <1>0. /\ mainpc = "pop" /\ Popped(mainCam) /\ mainCam \in Cameras \ mainTodo
        /\ mainpc' \in {"next", "raised"}
        /\ UNCHANGED <<wanted, recorders, loopVars, mainTodo, mainCam, mainProc, changes>>
        /\ faults' \in Nat /\ ~Alive(mainProc)
    BY DEF StopPops, Fault, MainInv, PidsInv
  <1>1. Pids' = Pids /\ UpTo' = UpTo /\ \A p : Alive(p)' <=> Alive(p)
    BY <1>0 DEF Pids, UpTo, Alive
  <1>2. /\ table' \in [Cameras -> UpTo] /\ info' \in [Cameras -> Infos]
        /\ table'[mainCam] = 0 /\ info'[mainCam].status = "stopped"
        /\ \A d \in Cameras : d # mainCam => table'[d] = table[d] /\ info'[d] = info[d]
    BY <1>0, PoppedIs
  <1>3. PidsInv'
    BY <1>0, <1>1, <1>2 DEF PidsInv, loopVars
  <1>4. LoopInv'
    BY <1>0, <1>1, <1>2 DEF LoopInv, Visiting, loopVars
  <1>5. \A c : Escaped(c) => Escaped(c)'
    BY <1>0 DEF Escaped, Visits, Listed, loopVars
  <1>6. MainInv'
    BY <1>0 DEF MainInv
  <1>7. \A p \in Pids : p # 0 /\ recorders[p].camera \in Cameras
    BY CameraIs
  <1>8. \A p \in Pids : Alive(p) /\ table[mainCam] = p => Escaped(mainCam)
    BY <1>0, <1>7 DEF MainInv
  <1>9. KnownInv'
    BY <1>0, <1>1, <1>2, <1>5, <1>7, <1>8 DEF KnownInv, loopVars
  <1>10. LateInv'
    BY <1>0, <1>1, <1>2, <1>7 DEF LateInv, loopVars
  <1>11. OneRecorder'
    BY <1>0, <1>1 DEF OneRecorder
  <1>12. InfoMatchesTable'
    BY <1>0, <1>2 DEF InfoMatchesTable, loopVars
  <1> QED
    BY <1>3, <1>4, <1>6, <1>9, <1>10, <1>11, <1>12

\* Every step of the system.
LEMMA RecorderInvNext ==
  ASSUME RecorderInv, [Next]_vars PROVE RecorderInv'
  <1>0. /\ faults \in Nat /\ changes \in Nat /\ proc \in Nat /\ mainProc \in Nat
    BY DEF RecorderInv, PidsInv, UpTo
  <1>1. CASE Terminate
    BY <1>0, <1>1, KillKeepsInv DEF Terminate, mainVars
  <1>2. CASE StopTerminates
    BY <1>0, <1>2, KillKeepsInv DEF StopTerminates, loopVars
  <1>3. ASSUME NEW p \in Pids, RecorderExits(p) PROVE RecorderInv'
    <2>1. p \in Nat /\ faults' \in Nat
      BY <1>0, <1>3 DEF Pids, RecorderExits, Fault
    <2> QED
      BY <1>0, <1>3, <2>1, KillKeepsInv DEF RecorderExits, loopVars, mainVars
  <1>4. CASE (\E c \in Cameras : SetMode(c)) \/ UNCHANGED vars
    <2>1. /\ UNCHANGED <<table, info, recorders, loopVars, mainVars, faults>>
          /\ wanted' \in SUBSET Cameras /\ changes' \in Nat
      BY <1>0, <1>4 DEF SetMode, vars, RecorderInv, PidsInv
    <2> QED
      BY <2>1
      DEF RecorderInv, PidsInv, LoopInv, MainInv, KnownInv, LateInv, OneRecorder,
          InfoMatchesTable, loopVars, mainVars, Pids, Alive, UpTo, Escaped, Visits, Listed, Visiting
  <1> QED
    BY <1>1, <1>2, <1>3, <1>4, LoopKeepsInv, PopKeepsInv, ClearKeepsInv, SpawnKeepsInv,
       StartFailsKeepsInv, RegisterKeepsInv, StopKeepsInv, StopPopsKeepsInv
    DEF Next, Supervise, StopGoesOn

-----------------------------------------------------------------------------
\* While the loop and stop() terminate, pop and register in one table
\* (RecorderSupervisor), a camera never has two recorders, the page shows what the
\* table says, and until stop() every recorder is in it.
THEOREM TableIsTrue == Spec => []TableTellsTruth
  <1>1. Init => RecorderInv
    BY RecorderInvInit
  <1>2. RecorderInv /\ [Next]_vars => RecorderInv'
    BY RecorderInvNext
  <1>3. RecorderInv => TableTellsTruth
    <2> SUFFICES ASSUME RecorderInv PROVE TableTellsTruth
      OBVIOUS
    <2>1. TypeOK
      BY DEF RecorderInv, PidsInv, LoopInv, MainInv, UpTo, Infos, Recordings, Visiting, TypeOK
    <2>2. NoneEscapes
      BY DEF RecorderInv, KnownInv, Escaped, Listed, NoneEscapes, stopping
    <2> QED
      BY <2>1, <2>2 DEF TableTellsTruth, RecorderInv
  <1> QED
    BY <1>1, <1>2, <1>3, PTL DEF Spec

\* When stop() returns, whatever still records was registered after it had listed
\* the table, by the turn that was under way.
THEOREM StopLeavesOnlyLate == Spec => []LeftoversAreLate
  <1>1. Init => RecorderInv
    BY RecorderInvInit
  <1>2. RecorderInv /\ [Next]_vars => RecorderInv'
    BY RecorderInvNext
  <1>3. RecorderInv => LeftoversAreLate
    BY DEF RecorderInv, LateInv, MainInv, LeftoversAreLate, Alive
  <1> QED
    BY <1>1, <1>2, <1>3, PTL DEF Spec
=============================================================================
