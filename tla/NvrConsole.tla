----------------------------- MODULE NvrConsole -----------------------------
(***************************************************************************)
(* The handlers of services/nvr-console/app.py that change something, and  *)
(* the camera status poller, on one row of the cameras table.              *)
(*                                                                         *)
(* `async` handlers run on the event loop: what lies between two awaits is *)
(* not interrupted by another `async` handler, and a request to the        *)
(* control server in it blocks the loop.  Pages run on pool threads, the   *)
(* poller on its own; every repository method is a transaction.  That a    *)
(* handler begins with a look into the session store is in Sessions.       *)
(***************************************************************************)
EXTENDS Naturals, Sequences

CONSTANTS Requests,     \* the POSTs that operators send, each once
          Names,        \* display names
          MaxChanges,   \* bound: how often the camera's status changes
          MaxKills      \* bound: how often the console is killed

ASSUME ConsoleAssumption ==
  Names # {} /\ MaxChanges \in Nat /\ MaxKills \in Nat /\ "free" \notin Requests

VARIABLES row,       \* the camera's row, Absent before the first start
          audit,     \* the audit_events table
          request,   \* request -> where its handler is, and what it read
          loop,      \* the handler that occupies the event loop
          filed,     \* the requests whose task the control server has filed
          late,      \* POSTs the console no longer waits for
          poller,    \* the poller thread: where it is, and the answer it got
          camera,    \* what a GET of the camera's status gives now
          up,        \* does the console run
          changes, kills,
          expected,  \* history: the settings if every form were applied at once
          overlap,   \* history: did an update come between a read and its write
          torn,      \* history: was an update cut off from its audit event
          killed     \* history: requests whose handler was killed

worldVars   == <<camera, changes>>
historyVars == <<expected, overlap, torn, killed>>
vars == <<row, audit, request, loop, filed, late, poller, up, kills, worldVars, historyVars>>

Modes     == {"continuous", "disabled"}
Settings  == [name : Names, mode : Modes]
\* "blank" stands for a field that is missing, blank or not understood.
Form      == [name : Names \cup {"blank"}, mode : Modes \cup {"blank"}]
Absent    == [name |-> "none"]

Answers   == {"publishing", "retrying", "unreachable"}
StreamOf(answer) == IF answer = "unreachable" THEN "offline" ELSE answer
Free      == "free"
NoRead    == [name |-> "none"]
Idle      == [pc |-> "idle", read |-> NoRead, form |-> NoRead, valid |-> FALSE]

Row       == [name : Names, mode : Modes,
              stream : {"unknown", "offline"} \cup Answers, polled : BOOLEAN]
Handling  == [pc : {"idle", "form", "update", "task", "post", "done"},
              read : Settings \cup {NoRead}, form : Form \cup {NoRead}, valid : BOOLEAN]
Event     == [event : {"update"}, of : Requests, mode : Modes]
               \cup [event : {"queued", "error"}, of : Requests]
Poller    == [pc : {"off", "list", "get", "store", "wait"}, answer : Answers]

TypeOK ==
  /\ row \in Row \cup {Absent} /\ audit \in Seq(Event)
  /\ request \in [Requests -> Handling] /\ loop \in Requests \cup {Free}
  /\ filed \subseteq Requests /\ late \subseteq Requests /\ killed \subseteq Requests
  /\ poller \in Poller /\ camera \in Answers
  /\ up \in BOOLEAN /\ overlap \in BOOLEAN /\ torn \in BOOLEAN
  /\ expected \in Settings \cup {Absent}

Off == [pc |-> "off", answer |-> "unreachable"]

Init ==
  /\ row = Absent /\ audit = <<>>
  /\ request = [r \in Requests |-> Idle] /\ loop = Free
  /\ filed = {} /\ late = {}
  /\ poller = Off /\ camera \in Answers /\ up = FALSE
  /\ changes = 0 /\ kills = 0
  /\ expected = Absent /\ overlap = FALSE /\ torn = FALSE /\ killed = {}

SettingsOf(w) == [name |-> w.name, mode |-> w.mode]

-----------------------------------------------------------------------------
(* The process.                                                            *)

\* initialize and bootstrap: an existing row keeps everything but its URLs.
Boot ==
  /\ ~up /\ up' = TRUE
  /\ \E n \in Names :
       row' = IF row = Absent
              THEN [name |-> n, mode |-> "continuous", stream |-> "unknown", polled |-> FALSE]
              ELSE row
  /\ expected' = IF row = Absent THEN SettingsOf(row') ELSE expected
  /\ poller' = [Off EXCEPT !.pc = "list"]
  /\ UNCHANGED <<audit, request, loop, filed, late, kills, worldVars, overlap, torn, killed>>

InFlight(r) == request[r].pc \notin {"idle", "done"}

\* SIGKILL or a crash of the container, at any moment.
Kill ==
  /\ up /\ kills < MaxKills
  /\ up' = FALSE /\ kills' = kills + 1
  /\ killed' = killed \cup {r \in Requests : InFlight(r)}
  /\ torn' = (torn \/ \E r \in Requests : request[r].pc = "update")
  /\ late' = late \cup {r \in Requests : request[r].pc = "post" /\ r \notin filed}
  /\ request' = [r \in Requests |-> IF InFlight(r) THEN [Idle EXCEPT !.pc = "done"] ELSE request[r]]
  /\ loop' = Free /\ poller' = Off
  /\ UNCHANGED <<row, audit, filed, worldVars, expected, overlap>>

-----------------------------------------------------------------------------
(* POST /cameras/<id>/settings                                             *)

\* get_camera, then `await request.form()`.
BeginSettings(r) ==
  /\ up /\ loop = Free /\ request[r].pc = "idle"
  /\ \E form \in Form :
       request' = [request EXCEPT ![r] =
         [Idle EXCEPT !.pc = "form", !.read = SettingsOf(row), !.form = form]]
  /\ UNCHANGED <<row, audit, loop, filed, late, poller, up, kills, worldVars, historyVars>>

\* Mutant: a mode that is not understood becomes the default.
MergedDefault(old, form) ==
  [name |-> IF form.name = "blank" THEN old.name ELSE form.name,
   mode |-> IF form.mode = "blank" THEN "continuous" ELSE form.mode]

\* What the form does not say is taken from the row, as it was read.
Merged(old, form) ==
  [name |-> IF form.name = "blank" THEN old.name ELSE form.name,
   mode |-> IF form.mode = "blank" THEN old.mode ELSE form.mode]

UpdateSettings(r) ==
  /\ loop = Free /\ request[r].pc = "form"
  /\ LET merged == Merged(request[r].read, request[r].form)
     IN row' = [row EXCEPT !.name = merged.name, !.mode = merged.mode]
  /\ expected' = [name |-> IF request[r].form.name = "blank" THEN expected.name ELSE request[r].form.name,
                  mode |-> IF request[r].form.mode = "blank" THEN expected.mode ELSE request[r].form.mode]
  /\ overlap' = (overlap \/ SettingsOf(row) # request[r].read)
  /\ request' = [request EXCEPT ![r].pc = "update"] /\ loop' = r
  /\ UNCHANGED <<audit, filed, late, poller, up, kills, worldVars, torn, killed>>

AuditSettings(r) ==
  /\ request[r].pc = "update"
  /\ audit' = Append(audit, [event |-> "update", of |-> r,
                             mode |-> Merged(request[r].read, request[r].form).mode])
  /\ request' = [request EXCEPT ![r].pc = "done"] /\ loop' = Free
  /\ UNCHANGED <<row, filed, late, poller, up, kills, worldVars, historyVars>>

-----------------------------------------------------------------------------
(* POST /cameras/<id>/control/task                                         *)

BeginTask(r) ==
  /\ up /\ loop = Free /\ request[r].pc = "idle"
  /\ \E valid \in BOOLEAN :
       request' = [request EXCEPT ![r] = [Idle EXCEPT !.pc = "task", !.valid = valid]]
  /\ UNCHANGED <<row, audit, loop, filed, late, poller, up, kills, worldVars, historyVars>>

Audited(r, event) ==
  /\ audit' = Append(audit, [event |-> event, of |-> r])
  /\ request' = [request EXCEPT ![r].pc = "done"]

\* build_task_params raises ValueError: nothing is sent.
RejectTask(r) ==
  /\ loop = Free /\ request[r].pc = "task" /\ ~request[r].valid
  /\ Audited(r, "error")
  /\ UNCHANGED <<row, loop, filed, late, poller, up, kills, worldVars, historyVars>>

\* create_task sends the request and waits for the answer on the event loop.
PostTask(r) ==
  /\ loop = Free /\ request[r].pc = "task" /\ request[r].valid
  /\ request' = [request EXCEPT ![r].pc = "post"] /\ loop' = r
  /\ UNCHANGED <<row, audit, filed, late, poller, up, kills, worldVars, historyVars>>

TaskQueued(r) ==
  /\ request[r].pc = "post" /\ r \in filed
  /\ Audited(r, "queued") /\ loop' = Free
  /\ UNCHANGED <<row, filed, late, poller, up, kills, worldVars, historyVars>>

\* Mutant: no error is audited.
TaskErrorUnaudited(r) ==
  /\ request[r].pc = "post"
  /\ request' = [request EXCEPT ![r].pc = "done"]
  /\ loop' = Free
  /\ late' \in {late} \cup IF r \in filed THEN {} ELSE {late \cup {r}}
  /\ UNCHANGED <<row, audit, filed, poller, up, kills, worldVars, historyVars>>

\* A refused connection, an error status, or three seconds without an answer:
\* the task may be filed already, may be later, or never.
TaskError(r) ==
  /\ request[r].pc = "post"
  /\ Audited(r, "error") /\ loop' = Free
  /\ late' \in {late} \cup IF r \in filed THEN {} ELSE {late \cup {r}}
  /\ UNCHANGED <<row, filed, poller, up, kills, worldVars, historyVars>>

\* The control server's handler.
FileTask(r) ==
  /\ (request[r].pc = "post" /\ r \notin filed) \/ r \in late
  /\ filed' = filed \cup {r} /\ late' = late \ {r}
  /\ UNCHANGED <<row, audit, request, loop, poller, up, kills, worldVars, historyVars>>

-----------------------------------------------------------------------------
(* CameraStatusPoller                                                      *)

\* The row is read, but only its URL is used.
List ==
  /\ poller.pc = "list" /\ poller' = [poller EXCEPT !.pc = "get"]
  /\ UNCHANGED <<row, audit, request, loop, filed, late, up, kills, worldVars, historyVars>>

Get ==
  /\ poller.pc = "get"
  /\ poller' = [pc |-> "store", answer |-> camera]
  /\ UNCHANGED <<row, audit, request, loop, filed, late, up, kills, worldVars, historyVars>>

\* Mutant: the thread ends at the first failure.
StoreAndDie ==
  /\ poller.pc = "store"
  /\ row' = [row EXCEPT !.stream = StreamOf(poller.answer), !.polled = TRUE]
  /\ poller' = [Off EXCEPT !.pc = IF poller.answer = "unreachable" THEN "off" ELSE "wait"]
  /\ UNCHANGED <<audit, request, loop, filed, late, up, kills, worldVars, historyVars>>

\* update_camera_status: the columns of the status and no other.
Store ==
  /\ poller.pc = "store"
  /\ row' = [row EXCEPT !.stream = StreamOf(poller.answer), !.polled = TRUE]
  /\ poller' = [Off EXCEPT !.pc = "wait"]
  /\ UNCHANGED <<audit, request, loop, filed, late, up, kills, worldVars, historyVars>>

Wait ==
  /\ poller.pc = "wait" /\ poller' = [poller EXCEPT !.pc = "list"]
  /\ UNCHANGED <<row, audit, request, loop, filed, late, up, kills, worldVars, historyVars>>

CameraChanges ==
  /\ changes < MaxChanges /\ changes' = changes + 1
  /\ camera' \in Answers \ {camera}
  /\ UNCHANGED <<row, audit, request, loop, filed, late, poller, up, kills, historyVars>>

-----------------------------------------------------------------------------
\* GET /cameras/<id>: enrich_camera_record and summarize_camera_runtime, which
\* reads the uptime of a status that was never stored.
DetailPage == IF row.polled THEN "detail" ELSE "error"

Handler(r) ==
  \/ UpdateSettings(r) \/ AuditSettings(r)
  \/ RejectTask(r) \/ PostTask(r) \/ TaskQueued(r) \/ TaskError(r)

Poll == List \/ Get \/ Store \/ Wait

Next ==
  \/ Boot \/ Kill \/ Poll \/ CameraChanges
  \/ \E r \in Requests : BeginSettings(r) \/ BeginTask(r) \/ FileTask(r) \/ Handler(r)

Spec == Init /\ [][Next]_vars

\* Threads and the event loop run, requests time out, the container restarts.
FairSpec ==
  /\ Spec /\ WF_vars(Poll) /\ WF_vars(Boot)
  /\ \A r \in Requests : WF_vars(Handler(r))

-----------------------------------------------------------------------------
\* Forms are applied like transactions, and nothing else changes the settings,
\* unless an update came between a handler's read and its write.
SettingsAsSubmitted ==
  row # Absent /\ ~overlap => SettingsOf(row) = expected

\* The last update event tells the mode that is in force, although the two are
\* written in two transactions, unless a kill came between them.
LastUpdate(i) ==
  audit[i].event = "update" /\ \A j \in DOMAIN audit : j > i => audit[j].event # "update"

AuditTellsMode ==
  loop = Free /\ ~torn =>
    \A i \in DOMAIN audit : LastUpdate(i) => audit[i].mode = row.mode

\* Table and log agree: they have their type, the settings are those submitted,
\* and the log tells the mode.
SettingsTellTruth == TypeOK /\ SettingsAsSubmitted /\ AuditTellsMode

\* What the log calls queued is filed; a task is filed at most once and then
\* the log names its request, as queued or as an error, unless its handler
\* still runs or was killed.
Logged(r) == \E i \in DOMAIN audit : audit[i].of = r

TasksAccounted ==
  /\ \A i \in DOMAIN audit : audit[i].event = "queued" => audit[i].of \in filed
  /\ \A r \in filed : Logged(r) \/ InFlight(r) \/ r \in killed
  /\ \A i, j \in DOMAIN audit : audit[i].of = audit[j].of => i = j

-----------------------------------------------------------------------------
(* Why it holds.                                                           *)

\* The loop is taken by the handler that waits in it, and by no other; only a
\* console that runs has handlers or a poller, and then the row exists.
LoopInv ==
  /\ \A r \in Requests : loop = r <=> request[r].pc \in {"update", "post"}
  /\ (\E r \in Requests : InFlight(r)) \/ poller.pc # "off" => up
  /\ up => row # Absent
  /\ row = Absent <=> expected = Absent
  /\ \A r \in Requests : request[r].pc \in {"form", "update"} =>
       request[r].read \in Settings /\ request[r].form \in Form

\* The row has the mode of the last update event, or of the handler that has
\* still to write its event; what has no row has no events.
ModeInv ==
  /\ row = Absent => audit = <<>>
  /\ \A r \in Requests : request[r].pc = "update" =>
       Merged(request[r].read, request[r].form).mode = row.mode
  /\ ~torn /\ (\A r \in Requests : request[r].pc # "update") =>
       \A i \in DOMAIN audit : LastUpdate(i) => audit[i].mode = row.mode

\* An event is the last step of its handler, and a task on its way to the
\* control server is one whose handler has reported it or was killed.
EventInv ==
  /\ \A i \in DOMAIN audit : request[audit[i].of].pc = "done"
  /\ \A r \in late : Logged(r) \/ r \in killed

ConsoleInv ==
  /\ TypeOK /\ SettingsAsSubmitted /\ LoopInv /\ ModeInv /\ EventInv /\ TasksAccounted

-----------------------------------------------------------------------------
\* The table follows the camera.
StatusFollows ==
  \A a \in Answers : <>[](camera = a) => <>[](row # Absent /\ row.stream = StreamOf(a))

\* README.md, "On the camera detail page you can see": the page is there.
DetailPageAnswers == up => DetailPage = "detail"
=============================================================================
