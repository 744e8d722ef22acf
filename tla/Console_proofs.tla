---------------------------- MODULE Console_proofs ----------------------------
(***************************************************************************)
(* Proofs about the NVR console.  Its session store, for any browsers,     *)
(* tokens and TTL: a cookie means a session, and a logout is final.  Its   *)
(* handlers, for any requests and names: the row, the audit log and the    *)
(* tasks that the control server has filed agree.                          *)
(***************************************************************************)
EXTENDS Sessions, NvrConsole, TLAPS

-----------------------------------------------------------------------------
(* The session store.                                                      *)

\* Restrict of the community modules, as a function.
LEMMA WithoutIs ==
  ASSUME NEW t
  PROVE  /\ DOMAIN Without(t) = DOMAIN sessions \ {t}
         /\ \A u \in DOMAIN sessions \ {t} : Without(t)[u] = sessions[u]
  BY DEF Without, Restrict

-----------------------------------------------------------------------------
(* What is inductive.                                                      *)

Ages == 0..(Ttl + 1)

StoreOK ==
  /\ DOMAIN sessions \subseteq Tokens
  /\ \A t \in DOMAIN sessions : sessions[t] \in Ages

CookiesOK ==
  /\ DOMAIN cookie = Browsers
  /\ \A b \in Browsers :
       cookie[b] = NoCookie \/ (cookie[b].token \in Tokens /\ cookie[b].age \in 0..Ttl)

\* A session was renewed no earlier than its cookie was set.
CookieCovered(b) ==
  LET t == cookie[b].token
  IN cookie[b] # NoCookie /\ t \notin ended \cup lost =>
       t \in DOMAIN sessions /\ sessions[t] <= cookie[b].age

CookieInv == StoreOK /\ CookiesOK /\ \A b \in Browsers : CookieCovered(b)

\* Tokens whose time is over do not come back.
GoneInv == DOMAIN sessions \cap (ended \cup lost) = {}

\* Renewing or dropping the session of any token keeps what is covered.
LEMMA GetKeepsCovered ==
  ASSUME CookieInv, NEW t, GetUsername(t), UNCHANGED <<cookie, ended, lost>>
  PROVE  CookieInv'
  <1> USE SessionsAssumption
  <1>1. CASE t \in DOMAIN sessions /\ ~Expired(t)
    <2>1. sessions' = [sessions EXCEPT ![t] = 0]
      BY <1>1 DEF GetUsername
    <2>2. StoreOK'
      BY <2>1 DEF CookieInv, StoreOK, Ages
    <2>3. CookiesOK'
      BY DEF CookieInv, CookiesOK
    <2>4. ASSUME NEW b \in Browsers PROVE CookieCovered(b)'
      BY <2>1 DEF CookieInv, CookiesOK, CookieCovered, NoCookie
    <2> QED
      BY <2>2, <2>3, <2>4 DEF CookieInv
  <1>2. CASE ~(t \in DOMAIN sessions /\ ~Expired(t))
    <2>1. sessions' = Without(t)
      BY <1>2 DEF GetUsername
    <2>2. StoreOK'
      BY <2>1, WithoutIs DEF CookieInv, StoreOK
    <2>3. CookiesOK'
      BY DEF CookieInv, CookiesOK
    <2>4. ASSUME NEW b \in Browsers PROVE CookieCovered(b)'
      <3>1. SUFFICES ASSUME cookie[b] # NoCookie, cookie[b].token \notin ended \cup lost
                     PROVE  /\ cookie[b].token \in DOMAIN sessions'
                            /\ sessions'[cookie[b].token] <= cookie[b].age
        BY DEF CookieCovered
      <3>2. cookie[b].token \in DOMAIN sessions /\ sessions[cookie[b].token] <= cookie[b].age
        BY <3>1 DEF CookieInv, CookieCovered
      <3>3. cookie[b].token # t
        BY <1>2, <3>1, <3>2 DEF CookieInv, CookiesOK, StoreOK, Ages, Expired
      <3>4. cookie[b].token \in DOMAIN sessions \ {t}
        BY <3>2, <3>3
      <3>5. cookie[b].token \in DOMAIN Without(t)
            /\ Without(t)[cookie[b].token] = sessions[cookie[b].token]
        BY <3>4, WithoutIs
      <3> QED
        BY <2>1, <3>2, <3>5
    <2> QED
      BY <2>2, <2>3, <2>4 DEF CookieInv
  <1> QED
    BY <1>1, <1>2

\* The invariant holds of an empty store, and every step keeps it.
LEMMA CookieInvInit ==
  ASSUME SessionsInit PROVE CookieInv
  BY SessionsAssumption DEF SessionsInit, CookieInv, StoreOK, CookiesOK, CookieCovered

\* Every step keeps what is covered.
LEMMA CookieInvNext ==
  ASSUME CookieInv, [SessionsNext]_sessionVars PROVE CookieInv'
  <1> USE SessionsAssumption
  <1>1. ASSUME NEW b \in Browsers, NEW t \in Tokens, Login(b, t) PROVE CookieInv'
    <2>1. t \notin DOMAIN sessions /\ \A c \in Browsers : cookie[c].token # t
      BY <1>1 DEF Login, Issued
    <2>2. StoreOK'
      BY <1>1 DEF Login, CookieInv, StoreOK, Ages
    <2>3. CookiesOK'
      BY <1>1 DEF Login, CookieInv, CookiesOK
    <2>4. ASSUME NEW c \in Browsers PROVE CookieCovered(c)'
      <3>1. CASE c = b
        BY <1>1, <3>1 DEF Login, CookieInv, CookiesOK, CookieCovered
      <3>2. CASE c # b
        BY <1>1, <2>1, <3>2 DEF Login, CookieInv, CookiesOK, CookieCovered
      <3> QED
        BY <3>1, <3>2
    <2> QED
      BY <2>2, <2>3, <2>4 DEF CookieInv
  <1>2. ASSUME NEW b \in Browsers, Page(b) PROVE CookieInv'
    BY <1>2, GetKeepsCovered DEF Page
  <1>3. ASSUME NEW b \in Browsers, BeginLogout(b) PROVE CookieInv'
    BY <1>3, GetKeepsCovered DEF BeginLogout
  <1>4. ASSUME NEW l \in logouts, DeleteToken(l) PROVE CookieInv'
    <2>1. sessions' = Without(l.token) /\ UNCHANGED <<cookie, lost>>
      BY <1>4 DEF DeleteToken
    <2>2. ended' = ended \cup ({l.token} \ {"none"})
      BY <1>4 DEF DeleteToken
    <2>3. StoreOK'
      BY <2>1, WithoutIs DEF CookieInv, StoreOK
    <2>4. CookiesOK'
      BY <2>1 DEF CookieInv, CookiesOK
    <2>5. ASSUME NEW b \in Browsers PROVE CookieCovered(b)'
      <3>1. SUFFICES ASSUME cookie[b] # NoCookie, cookie[b].token \notin ended' \cup lost
                     PROVE  /\ cookie[b].token \in DOMAIN sessions'
                            /\ sessions'[cookie[b].token] <= cookie[b].age
        BY <2>1 DEF CookieCovered
      <3>2. cookie[b].token \in DOMAIN sessions /\ sessions[cookie[b].token] <= cookie[b].age
        BY <2>2, <3>1 DEF CookieInv, CookieCovered
      <3>3. cookie[b].token # l.token
        BY <2>2, <3>1 DEF CookieInv, CookiesOK
      <3>4. cookie[b].token \in DOMAIN sessions \ {l.token}
        BY <3>2, <3>3
      <3>5. cookie[b].token \in DOMAIN Without(l.token)
            /\ Without(l.token)[cookie[b].token] = sessions[cookie[b].token]
        BY <3>4, WithoutIs
      <3> QED
        BY <2>1, <3>2, <3>5
    <2> QED
      BY <2>3, <2>4, <2>5 DEF CookieInv
  <1>5. ASSUME NEW l \in logouts, AnswerLogout(l) PROVE CookieInv'
    <2>1. UNCHANGED <<sessions, ended, lost>> /\ cookie' = [cookie EXCEPT ![l.browser] = NoCookie]
      BY <1>5 DEF AnswerLogout
    <2>2. DOMAIN cookie' = Browsers /\ \A b \in Browsers : cookie'[b] \in {cookie[b], NoCookie}
      BY <2>1 DEF CookieInv, CookiesOK
    <2>3. StoreOK' /\ CookiesOK'
      BY <2>1, <2>2 DEF CookieInv, StoreOK, CookiesOK
    <2>4. ASSUME NEW b \in Browsers PROVE CookieCovered(b)'
      BY <2>1, <2>2 DEF CookieInv, CookieCovered
    <2> QED
      BY <2>3, <2>4 DEF CookieInv
  <1>6. CASE Restart
    BY <1>6 DEF Restart, CookieInv, StoreOK, CookiesOK, CookieCovered
  <1>7. CASE Tick
    <2>1. DOMAIN sessions' = DOMAIN sessions /\ UNCHANGED <<ended, lost>>
      BY <1>7 DEF Tick
    <2>2. ASSUME NEW t \in DOMAIN sessions
          PROVE  sessions'[t] \in Ages /\ sessions'[t] <= sessions[t] + 1
      BY <1>7 DEF Tick, Expired, CookieInv, StoreOK, Ages
    <2>3. StoreOK'
      BY <2>1, <2>2 DEF CookieInv, StoreOK
    <2>4. ASSUME NEW b \in Browsers, cookie'[b] # NoCookie
          PROVE  /\ cookie[b] # NoCookie /\ cookie'[b].token = cookie[b].token
                 /\ cookie'[b].age = cookie[b].age + 1 /\ cookie[b].age < Ttl
      BY <1>7, <2>4 DEF Tick, CookieInv, CookiesOK
    <2>5. CookiesOK'
      BY <1>7, <2>4 DEF Tick, CookieInv, CookiesOK
    <2>6. ASSUME NEW b \in Browsers PROVE CookieCovered(b)'
      BY <2>1, <2>2, <2>4 DEF CookieInv, CookiesOK, StoreOK, Ages, CookieCovered
    <2> QED
      BY <2>3, <2>5, <2>6 DEF CookieInv
  <1>8. CASE UNCHANGED sessionVars
    BY <1>8 DEF sessionVars, CookieInv, StoreOK, CookiesOK, CookieCovered
  <1> QED
    BY <1>1, <1>2, <1>3, <1>4, <1>5, <1>6, <1>7, <1>8 DEF SessionsNext

\* The operator is not asked to log in again while the browser has the cookie:
\* the store renews a session with every request, from the login on, and both
\* last as long, so the cookie ends first.
THEOREM CookieIsHonoured == SessionsSpec => []CookieMeansSession
  <1>1. CookieInv => CookieMeansSession
    BY SessionsAssumption
    DEF CookieInv, CookiesOK, StoreOK, Ages, CookieCovered, CookieMeansSession
  <1> QED
    BY <1>1, CookieInvInit, CookieInvNext, PTL DEF SessionsSpec

-----------------------------------------------------------------------------
\* Nobody is served with a token that was logged out, or that an earlier
\* process of the console issued, whatever requests are under way.
THEOREM LogoutsAreFinal == SessionsSpec => []LogoutIsFinal
  <1> DEFINE Final == GoneInv /\ LogoutIsFinal
  <1>1. SessionsInit => Final
    BY DEF SessionsInit, GoneInv, LogoutIsFinal, NotServed
  <1>2. ASSUME Final, [SessionsNext]_sessionVars PROVE Final'
    <2>1. ASSUME NEW t, GetUsername(t), UNCHANGED <<ended, lost>> PROVE Final'
      BY <1>2, <2>1, WithoutIs DEF GetUsername, GoneInv, LogoutIsFinal
    <2>2. ASSUME NEW b \in Browsers, NEW t \in Tokens, Login(b, t) PROVE Final'
      BY <1>2, <2>2 DEF Login, Issued, GoneInv, LogoutIsFinal, NotServed
    <2>3. ASSUME NEW b \in Browsers, Page(b) \/ BeginLogout(b) PROVE Final'
      BY <2>1, <2>3 DEF Page, BeginLogout
    <2>4. ASSUME NEW l \in logouts, DeleteToken(l) PROVE Final'
      BY <1>2, <2>4, WithoutIs DEF DeleteToken, GoneInv, LogoutIsFinal, NotServed
    <2>5. ASSUME NEW l \in logouts, AnswerLogout(l) PROVE Final'
      BY <1>2, <2>5 DEF AnswerLogout, GoneInv, LogoutIsFinal, NotServed
    <2>6. CASE Restart
      BY <1>2, <2>6 DEF Restart, GoneInv, LogoutIsFinal, NotServed
    <2>7. CASE Tick
      BY <1>2, <2>7 DEF Tick, GoneInv, LogoutIsFinal, NotServed
    <2>8. CASE UNCHANGED sessionVars
      BY <1>2, <2>8 DEF sessionVars, GoneInv, LogoutIsFinal
    <2> QED
      BY <1>2, <2>2, <2>3, <2>4, <2>5, <2>6, <2>7, <2>8 DEF SessionsNext
  <1>3. Final => LogoutIsFinal
    OBVIOUS
  <1> QED
    BY <1>1, <1>2, <1>3, PTL DEF SessionsSpec

-----------------------------------------------------------------------------
\* The store, the cookies and the handlers under way have their types: no
\* handler works on a token that was never issued to anybody.
THEOREM SessionsTyped == SessionsSpec => []SessionsTypeOK
  <1> DEFINE Handlers == [browser : Browsers, token : Tokens \cup {"none"}, pc : {"delete", "answer"}]
             Found == [token : Tokens \cup {"none"}, found : BOOLEAN]
             Rest == logouts \subseteq Handlers /\ ended \subseteq Tokens /\ lost \subseteq Tokens
                     /\ served \in Found
  <1>1. NotServed \in Found
    BY DEF NotServed
  <1>2. SessionsInit => Rest
    BY <1>1 DEF SessionsInit
  <1>3. ASSUME CookieInv, Rest, [SessionsNext]_sessionVars PROVE Rest'
    <2>1. ASSUME NEW b \in Browsers PROVE cookie[b].token \in Tokens \cup {"none"}
      BY <1>3 DEF CookieInv, CookiesOK, NoCookie
    <2>2. ASSUME NEW t \in Tokens \cup {"none"}, GetUsername(t) PROVE served' \in Found
      BY <2>2 DEF GetUsername
    <2>3. ASSUME NEW b \in Browsers, NEW t \in Tokens, Login(b, t) PROVE Rest'
      BY <1>1, <1>3, <2>3 DEF Login
    <2>4. ASSUME NEW b \in Browsers, Page(b) PROVE Rest'
      <3>1. served' \in Found
        BY <2>1, <2>2, <2>4 DEF Page
      <3> QED
        BY <1>3, <2>4, <3>1 DEF Page
    <2>5. ASSUME NEW b \in Browsers, BeginLogout(b) PROVE Rest'
      <3>1. served' \in Found
        BY <2>1, <2>2, <2>5 DEF BeginLogout
      <3>2. [browser |-> b, token |-> cookie[b].token, pc |-> "delete"] \in Handlers
        BY <2>1
      <3> QED
        BY <1>3, <2>5, <3>1, <3>2 DEF BeginLogout
    <2>6. ASSUME NEW l \in logouts, DeleteToken(l) PROVE Rest'
      <3>1. l \in Handlers /\ [l EXCEPT !.pc = "answer"] \in Handlers
        BY <1>3
      <3>2. {l.token} \ {"none"} \subseteq Tokens
        BY <3>1
      <3> QED
        BY <1>1, <1>3, <2>6, <3>1, <3>2 DEF DeleteToken
    <2>7. ASSUME NEW l \in logouts, AnswerLogout(l) PROVE Rest'
      BY <1>1, <1>3, <2>7 DEF AnswerLogout
    <2>8. CASE Restart
      BY <1>1, <1>3, <2>8 DEF Restart, CookieInv, StoreOK
    <2>9. CASE Tick
      BY <1>1, <1>3, <2>9 DEF Tick
    <2>10. CASE UNCHANGED sessionVars
      BY <1>3, <2>10 DEF sessionVars
    <2> QED
      BY <1>3, <2>3, <2>4, <2>5, <2>6, <2>7, <2>8, <2>9, <2>10 DEF SessionsNext
  <1>4. CookieInv /\ Rest => SessionsTypeOK
    BY DEF SessionsTypeOK, CookieInv, StoreOK, CookiesOK, Ages
  <1> HIDE DEF Rest
  <1> QED
    BY <1>2, <1>3, <1>4, CookieInvInit, CookieInvNext, PTL DEF SessionsSpec

-----------------------------------------------------------------------------
(* The handlers of the console: types.                                     *)

\* What a form leaves out comes from the settings it is merged with.
LEMMA MergedIsSettings ==
  ASSUME NEW old \in Settings, NEW form \in Form
  PROVE  Merged(old, form) \in Settings
  BY DEF Merged, Settings, Form

\* What an update of the settings leaves in the row and in the history.
LEMMA UpdateKeepsType ==
  ASSUME NEW r \in Requests, UpdateSettings(r), row \in Row, expected \in Settings,
         request[r].read \in Settings, request[r].form \in Form
  PROVE  /\ row' \in Row
         /\ SettingsOf(row') = Merged(request[r].read, request[r].form)
         /\ expected' = Merged(expected, request[r].form) /\ expected' \in Settings
  <1> DEFINE merged == Merged(request[r].read, request[r].form)
  <1>1. merged \in Settings
    BY MergedIsSettings
  <1>2. row' = [row EXCEPT !.name = merged.name, !.mode = merged.mode]
    BY DEF UpdateSettings
  <1>3. row' \in Row /\ SettingsOf(row') = merged
    <2> HIDE DEF merged
    <2> QED
      BY <1>1, <1>2 DEF Row, Settings, SettingsOf
  <1>4. expected' = Merged(expected, request[r].form)
    BY DEF UpdateSettings, Merged
  <1> QED
    BY <1>3, <1>4, MergedIsSettings

\* Every step keeps the state well formed.  A handler that merges has read a
\* row and has a form, and the poller only stores into a row that exists.
LEMMA TypeOKNext ==
  ASSUME TypeOK, LoopInv, [Next]_vars PROVE TypeOK'
  <1> USE DEF TypeOK
  <1>1. CASE Boot
    <2>1. PICK n \in Names :
            row' = IF row = Absent
                   THEN [name |-> n, mode |-> "continuous", stream |-> "unknown", polled |-> FALSE]
                   ELSE row
      BY <1>1 DEF Boot
    <2>2. row' \in Row
      BY <2>1 DEF Row, Modes
    <2>3. expected' \in Settings \cup {Absent}
      BY <1>1, <2>2 DEF Boot, Row, SettingsOf, Settings
    <2>4. poller' \in Poller
      BY <1>1 DEF Boot, Off, Poller, Answers
    <2> QED
      BY <1>1, <2>2, <2>3, <2>4 DEF Boot, worldVars
  <1>2. CASE Kill
    <2>1. request' \in [Requests -> Handling]
      <3>1. [Idle EXCEPT !.pc = "done"] \in Handling
        BY DEF Idle, Handling
      <3> QED
        BY <1>2, <3>1 DEF Kill
    <2>2. poller' \in Poller
      BY <1>2 DEF Kill, Off, Poller, Answers
    <2> QED
      BY <1>2, <2>1, <2>2 DEF Kill, worldVars
  <1>3. ASSUME NEW r \in Requests, BeginSettings(r) PROVE TypeOK'
    <2>1. PICK form \in Form : request' = [request EXCEPT ![r] =
            [Idle EXCEPT !.pc = "form", !.read = SettingsOf(row), !.form = form]]
      BY <1>3 DEF BeginSettings
    <2>2. row \in Row
      BY <1>3 DEF BeginSettings, LoopInv
    <2>3. SettingsOf(row) \in Settings
      BY <2>2 DEF Row, SettingsOf, Settings
    <2>4. [Idle EXCEPT !.pc = "form", !.read = SettingsOf(row), !.form = form] \in Handling
      BY <2>3 DEF Idle, Handling
    <2> QED
      BY <1>3, <2>1, <2>4 DEF BeginSettings, worldVars, historyVars
  <1>4. ASSUME NEW r \in Requests, UpdateSettings(r) PROVE TypeOK'
    <2>1. request[r].read \in Settings /\ request[r].form \in Form
      BY <1>4 DEF UpdateSettings, LoopInv
    <2>2. row \in Row /\ expected \in Settings
      BY <1>4 DEF UpdateSettings, LoopInv, InFlight
    <2>3. row' \in Row /\ expected' \in Settings
      BY <1>4, <2>1, <2>2, UpdateKeepsType
    <2>4. request' \in [Requests -> Handling]
      BY <1>4 DEF UpdateSettings, Handling
    <2> QED
      BY <1>4, <2>3, <2>4 DEF UpdateSettings, worldVars
  <1>5. ASSUME NEW r \in Requests, AuditSettings(r) PROVE TypeOK'
    <2>1. Merged(request[r].read, request[r].form).mode \in Modes
      <3>1. request[r].read \in Settings /\ request[r].form \in Form
        BY <1>5 DEF AuditSettings, LoopInv
      <3> QED
        BY <3>1, MergedIsSettings DEF Settings
    <2>2. audit' \in Seq(Event)
      <3>1. [event |-> "update", of |-> r, mode |-> Merged(request[r].read, request[r].form).mode] \in Event
        BY <2>1 DEF Event
      <3> QED
        BY <1>5, <3>1 DEF AuditSettings
    <2>3. request' \in [Requests -> Handling]
      BY <1>5 DEF AuditSettings, Handling
    <2> QED
      BY <1>5, <2>2, <2>3 DEF AuditSettings, worldVars, historyVars
  <1>6. ASSUME NEW r \in Requests, BeginTask(r) PROVE TypeOK'
    <2>1. PICK valid \in BOOLEAN :
            request' = [request EXCEPT ![r] = [Idle EXCEPT !.pc = "task", !.valid = valid]]
      BY <1>6 DEF BeginTask
    <2>2. [Idle EXCEPT !.pc = "task", !.valid = valid] \in Handling
      BY DEF Idle, Handling
    <2> QED
      BY <1>6, <2>1, <2>2 DEF BeginTask, worldVars, historyVars
  <1>7. ASSUME NEW r \in Requests, NEW event \in {"queued", "error"}, Audited(r, event)
        PROVE  audit' \in Seq(Event) /\ request' \in [Requests -> Handling]
    <2>1. [event |-> event, of |-> r] \in Event
      BY DEF Event
    <2> QED
      BY <1>7, <2>1 DEF Audited, Handling
  <1>8. ASSUME NEW r \in Requests, RejectTask(r) \/ TaskQueued(r) PROVE TypeOK'
    <2>1. audit' \in Seq(Event) /\ request' \in [Requests -> Handling]
      BY <1>7, <1>8 DEF RejectTask, TaskQueued
    <2> QED
      BY <1>8, <2>1 DEF RejectTask, TaskQueued, worldVars, historyVars
  <1>9. ASSUME NEW r \in Requests, TaskError(r) PROVE TypeOK'
    <2>1. audit' \in Seq(Event) /\ request' \in [Requests -> Handling]
      BY <1>7, <1>9 DEF TaskError
    <2> QED
      BY <1>9, <2>1 DEF TaskError, worldVars, historyVars
  <1>10. ASSUME NEW r \in Requests, PostTask(r) PROVE TypeOK'
    <2>1. request' \in [Requests -> Handling]
      BY <1>10 DEF PostTask, Handling
    <2> QED
      BY <1>10, <2>1 DEF PostTask, worldVars, historyVars
  <1>11. ASSUME NEW r \in Requests, FileTask(r) PROVE TypeOK'
    BY <1>11 DEF FileTask, worldVars, historyVars
  <1>12. CASE List \/ Get \/ Wait
    <2>1. poller' \in Poller
      BY <1>12 DEF List, Get, Wait, Poller
    <2> QED
      BY <1>12, <2>1 DEF List, Get, Wait, worldVars, historyVars
  <1>13. CASE Store
    <2>1. row \in Row
      BY <1>13 DEF Store, LoopInv
    <2>2. poller.answer \in Answers
      BY DEF Poller
    <2>3. row' \in Row
      BY <1>13, <2>1, <2>2 DEF Store, StreamOf, Row
    <2>4. poller' \in Poller
      BY <1>13 DEF Store, Off, Poller, Answers
    <2> QED
      BY <1>13, <2>3, <2>4 DEF Store, worldVars, historyVars
  <1>14. CASE CameraChanges
    BY <1>14 DEF CameraChanges, historyVars
  <1>15. CASE UNCHANGED vars
    BY <1>15 DEF vars, worldVars, historyVars
  <1> QED
    BY <1>1, <1>2, <1>3, <1>4, <1>5, <1>6, <1>8, <1>9, <1>10, <1>11, <1>12, <1>13, <1>14, <1>15
    DEF Next, Poll, Handler

-----------------------------------------------------------------------------
(* The handlers of the console: who has the loop.                          *)

\* A step of one handler leaves the others where they are.
OthersStay(r) == \A q \in Requests \ {r} : request'[q] = request[q]

\* Where a handler is after each of its steps, and what it works on.
LEMMA HandlerMoves ==
  ASSUME TypeOK, NEW r \in Requests
  PROVE  /\ BeginSettings(r) => OthersStay(r) /\ request'[r].pc = "form"
                                 /\ request'[r].read = SettingsOf(row) /\ request'[r].form \in Form
         /\ UpdateSettings(r) => OthersStay(r) /\ request'[r].pc = "update"
                                  /\ request'[r].read = request[r].read
                                  /\ request'[r].form = request[r].form
         /\ BeginTask(r) => OthersStay(r) /\ request'[r].pc = "task"
         /\ PostTask(r) => OthersStay(r) /\ request'[r].pc = "post"
         /\ AuditSettings(r) \/ RejectTask(r) \/ TaskQueued(r) \/ TaskError(r) =>
              OthersStay(r) /\ request'[r].pc = "done"
  <1> USE DEF TypeOK, OthersStay, Idle, Handling
  <1>1. ASSUME BeginSettings(r)
        PROVE  /\ OthersStay(r) /\ request'[r].pc = "form"
               /\ request'[r].read = SettingsOf(row) /\ request'[r].form \in Form
    BY <1>1 DEF BeginSettings
  <1>2. ASSUME UpdateSettings(r)
        PROVE  /\ OthersStay(r) /\ request'[r].pc = "update"
               /\ request'[r].read = request[r].read /\ request'[r].form = request[r].form
    BY <1>2 DEF UpdateSettings
  <1>3. ASSUME BeginTask(r) PROVE OthersStay(r) /\ request'[r].pc = "task"
    BY <1>3 DEF BeginTask
  <1>4. ASSUME PostTask(r) PROVE OthersStay(r) /\ request'[r].pc = "post"
    BY <1>4 DEF PostTask
  <1>5. ASSUME AuditSettings(r) \/ RejectTask(r) \/ TaskQueued(r) \/ TaskError(r)
        PROVE  OthersStay(r) /\ request'[r].pc = "done"
    <2>1. request' = [request EXCEPT ![r].pc = "done"]
      BY <1>5 DEF AuditSettings, RejectTask, TaskQueued, TaskError, Audited
    <2> QED
      BY <2>1
  <1> QED
    BY <1>1, <1>2, <1>3, <1>4, <1>5

\* A kill ends every handler that was under way.
LEMMA KillEnds ==
  ASSUME TypeOK, Kill, NEW r \in Requests
  PROVE  request'[r].pc = (IF InFlight(r) THEN "done" ELSE request[r].pc)
  BY DEF TypeOK, Kill, Idle, Handling

\* Steps of the poller, the camera and the control server move no handler.
LEMMA OutsideMovesNone ==
  ASSUME List \/ Get \/ Store \/ Wait \/ CameraChanges \/ Boot \/ (\E r \in Requests : FileTask(r))
         \/ UNCHANGED vars
  PROVE  UNCHANGED <<request, loop>>
  BY DEF List, Get, Store, Wait, CameraChanges, Boot, FileTask, vars

\* The settings of a row, and the rows that have some.
LEMMA RowFacts ==
  /\ \A w \in Row : SettingsOf(w) \in Settings
  /\ Absent \notin Row /\ Absent \notin Settings
  <1>1. \A w \in Row : SettingsOf(w) \in Settings
    BY DEF Row, SettingsOf, Settings
  <1>2. "mode" \notin DOMAIN Absent
    BY DEF Absent
  <1>3. \A w \in Row : "mode" \in DOMAIN w
    BY DEF Row
  <1>4. \A w \in Settings : "mode" \in DOMAIN w
    BY DEF Settings
  <1> QED
    BY <1>1, <1>2, <1>3, <1>4, Zenon

\* A handler works with settings that it has read and a form that it got.
ReadsOK(r) ==
  request[r].pc \in {"form", "update"} => request[r].read \in Settings /\ request[r].form \in Form

\* One handler moves, and takes the loop or leaves it as its new place demands.
LEMMA MovingKeepsLoop ==
  ASSUME TypeOK, LoopInv, NEW r \in Requests, OthersStay(r), UNCHANGED <<poller, up>>, up,
         row' # Absent, expected' # Absent, ReadsOK(r)', loop \in {r, Free},
         loop' = IF request'[r].pc \in {"update", "post"} THEN r ELSE Free
  PROVE  LoopInv'
  <1>1. r # Free
    BY ConsoleAssumption DEF Free
  <1>2. ASSUME NEW q \in Requests, q # r
        PROVE  loop' = q <=> request'[q].pc \in {"update", "post"}
    <2>1. loop # q /\ loop' # q
      BY <1>2, ConsoleAssumption DEF Free
    <2>2. request'[q] = request[q]
      BY <1>2 DEF OthersStay
    <2> QED
      BY <2>1, <2>2 DEF LoopInv
  <1>3. loop' = r <=> request'[r].pc \in {"update", "post"}
    BY <1>1
  <1>4. \A q \in Requests : ReadsOK(q)'
    BY DEF OthersStay, LoopInv, ReadsOK
  <1> QED
    BY <1>2, <1>3, <1>4 DEF LoopInv, InFlight, ReadsOK

\* Only a console that runs has a handler under way, and then there is a row.
LEMMA InFlightMeansRow ==
  ASSUME TypeOK, LoopInv, (\E r \in Requests : InFlight(r)) \/ poller.pc # "off" \/ up
  PROVE  up /\ row \in Row /\ row # Absent /\ expected \in Settings /\ expected # Absent
  BY DEF TypeOK, LoopInv

\* Every step keeps the loop with the handler that waits in it.
LEMMA LoopInvNext ==
  ASSUME TypeOK, LoopInv, [Next]_vars PROVE LoopInv'
  <1>1. ASSUME NEW r \in Requests, BeginSettings(r) PROVE LoopInv'
    <2>1. row \in Row /\ row # Absent /\ expected # Absent /\ up
      BY <1>1, InFlightMeansRow DEF BeginSettings
    <2>2. OthersStay(r) /\ ReadsOK(r)' /\ request'[r].pc = "form"
      BY <1>1, <2>1, HandlerMoves, RowFacts DEF ReadsOK
    <2>3. UNCHANGED <<row, poller, expected, up, loop>> /\ loop = Free
      BY <1>1 DEF BeginSettings, historyVars
    <2> QED
      BY <2>1, <2>2, <2>3, MovingKeepsLoop
  <1>2. ASSUME NEW r \in Requests, BeginTask(r) PROVE LoopInv'
    <2>1. row # Absent /\ expected # Absent /\ up
      BY <1>2, InFlightMeansRow DEF BeginTask
    <2>2. OthersStay(r) /\ request'[r].pc = "task"
      BY <1>2, HandlerMoves
    <2>3. UNCHANGED <<row, poller, expected, up, loop>> /\ loop = Free
      BY <1>2 DEF BeginTask, historyVars
    <2> QED
      BY <2>1, <2>2, <2>3, MovingKeepsLoop DEF ReadsOK
  <1>3. ASSUME NEW r \in Requests, Handler(r) PROVE LoopInv'
    <2>1. InFlight(r)
      BY <1>3 DEF Handler, UpdateSettings, AuditSettings, RejectTask, PostTask, TaskQueued, TaskError,
         InFlight
    <2>2. /\ row \in Row /\ row # Absent /\ expected # Absent /\ up
          /\ expected \in Settings
      BY <2>1, InFlightMeansRow
    <2>3. UNCHANGED <<poller, up>>
      BY <1>3 DEF Handler, UpdateSettings, AuditSettings, RejectTask, PostTask, TaskQueued, TaskError
    <2>4. CASE UpdateSettings(r)
      <3>1. OthersStay(r) /\ request'[r].pc = "update" /\ ReadsOK(r)'
        <4>1. ReadsOK(r) /\ request[r].pc = "form"
          BY <2>4 DEF LoopInv, ReadsOK, UpdateSettings
        <4> QED
          BY <2>4, <4>1, HandlerMoves DEF ReadsOK
      <3>2. loop = Free /\ loop' = r
        BY <2>4 DEF UpdateSettings
      <3>3. row' # Absent /\ expected' # Absent
        <4>1. request[r].read \in Settings /\ request[r].form \in Form
          BY <2>4 DEF UpdateSettings, LoopInv
        <4>2. row' \in Row /\ expected' \in Settings
          BY <2>2, <2>4, <4>1, UpdateKeepsType
        <4> QED
          BY <4>2, RowFacts
      <3> QED
        BY <2>2, <2>3, <3>1, <3>2, <3>3, MovingKeepsLoop
    <2>5. CASE PostTask(r)
      <3>1. OthersStay(r) /\ request'[r].pc = "post"
        BY <2>5, HandlerMoves
      <3>2. loop = Free /\ loop' = r /\ UNCHANGED <<row, expected>>
        BY <2>5 DEF PostTask, historyVars
      <3> QED
        BY <2>2, <2>3, <3>1, <3>2, MovingKeepsLoop DEF ReadsOK
    <2>6. CASE AuditSettings(r) \/ RejectTask(r) \/ TaskQueued(r) \/ TaskError(r)
      <3>1. OthersStay(r) /\ request'[r].pc = "done"
        BY <2>6, HandlerMoves
      <3>2. loop' = Free /\ loop \in {r, Free} /\ UNCHANGED <<row, expected>>
        <4>1. request[r].pc \in {"update", "post"} => loop = r
          BY DEF LoopInv
        <4> QED
          BY <2>6, <4>1 DEF AuditSettings, RejectTask, TaskQueued, TaskError, historyVars
      <3> QED
        BY <2>2, <2>3, <3>1, <3>2, MovingKeepsLoop DEF ReadsOK
    <2> QED
      BY <1>3, <2>4, <2>5, <2>6 DEF Handler
  <1>4. CASE Kill
    <2>1. \A r \in Requests : ~InFlight(r)'
      BY <1>4, KillEnds DEF InFlight
    <2>2. loop' = Free /\ Free \notin Requests
      BY <1>4, ConsoleAssumption DEF Kill, Free
    <2>3. poller'.pc = "off" /\ ~up' /\ UNCHANGED <<row, expected>>
      BY <1>4 DEF Kill, Off
    <2>4. \A r \in Requests : request'[r].pc \notin {"form", "update", "post"}
      BY <2>1 DEF InFlight
    <2> QED
      BY <2>1, <2>2, <2>3, <2>4 DEF LoopInv
  <1>5. CASE Boot
    <2>1. row' \in Row /\ expected' # Absent
      <3>1. row' \in Row
        BY <1>5 DEF Boot, TypeOK, Row, Modes
      <3> QED
        BY <1>5, <3>1, RowFacts DEF Boot, LoopInv
    <2>2. UNCHANGED <<request, loop>> /\ up'
      BY <1>5 DEF Boot
    <2> QED
      BY <2>1, <2>2, RowFacts DEF LoopInv, InFlight
  <1>6. CASE Store
    <2>1. row \in Row /\ row # Absent /\ expected # Absent /\ up
      BY <1>6, InFlightMeansRow DEF Store
    <2>2. UNCHANGED <<request, loop, up, expected>>
      BY <1>6 DEF Store, historyVars
    <2>3. row' # Absent
      <3>1. row' \in Row
        BY <1>6, <2>1 DEF Store, StreamOf, Row, TypeOK, Poller
      <3> QED
        BY <3>1, RowFacts
    <2> QED
      BY <2>1, <2>2, <2>3 DEF LoopInv, InFlight
  <1>7. CASE List \/ Get \/ Wait
    <2>1. UNCHANGED <<request, loop, up, row, expected>> /\ poller.pc # "off"
      BY <1>7 DEF List, Get, Wait, historyVars
    <2> QED
      BY <2>1 DEF LoopInv, InFlight
  <1>8. CASE CameraChanges \/ (\E r \in Requests : FileTask(r)) \/ UNCHANGED vars
    <2>1. UNCHANGED <<request, loop, up, row, expected, poller>>
      BY <1>8 DEF CameraChanges, FileTask, vars, historyVars
    <2> QED
      BY <2>1 DEF LoopInv, InFlight
  <1> QED
    BY <1>1, <1>2, <1>3, <1>4, <1>5, <1>6, <1>7, <1>8 DEF Next, Poll

-----------------------------------------------------------------------------
(* The handlers of the console: the row, the settings and the log.         *)

\* The steps that have nothing to do with the settings.
LEMMA SettingsAlone ==
  ASSUME TypeOK, LoopInv, [Next]_vars
  PROVE  \/ \E r \in Requests : UpdateSettings(r)
         \/ Boot
         \/ /\ SettingsOf(row') = SettingsOf(row) /\ UNCHANGED <<expected, overlap>>
            /\ row' = Absent <=> row = Absent
  <1>1. CASE Store
    <2>1. row \in Row
      BY <1>1, InFlightMeansRow DEF Store
    <2>2. row' \in Row /\ SettingsOf(row') = SettingsOf(row)
      BY <1>1, <2>1 DEF Store, StreamOf, Row, SettingsOf, TypeOK, Poller
    <2> QED
      BY <1>1, <2>1, <2>2, RowFacts DEF Store, historyVars
  <1>2. ASSUME UNCHANGED <<row, expected, overlap>>
        PROVE  /\ SettingsOf(row') = SettingsOf(row) /\ UNCHANGED <<expected, overlap>>
               /\ row' = Absent <=> row = Absent
    BY <1>2
  <1>3. CASE Kill \/ CameraChanges \/ List \/ Get \/ Wait \/ UNCHANGED vars
    BY <1>2, <1>3 DEF Kill, CameraChanges, List, Get, Wait, vars, historyVars
  <1>4. ASSUME NEW r \in Requests,
               BeginSettings(r) \/ BeginTask(r) \/ FileTask(r) \/ AuditSettings(r)
               \/ RejectTask(r) \/ PostTask(r) \/ TaskQueued(r) \/ TaskError(r)
        PROVE  UNCHANGED <<row, expected, overlap>>
    <2>1. CASE BeginSettings(r)
      BY <2>1 DEF BeginSettings, historyVars
    <2>4. CASE BeginTask(r)
      BY <2>4, Zenon DEF BeginTask, historyVars
    <2>5. CASE FileTask(r) \/ PostTask(r)
      BY <2>5 DEF FileTask, PostTask, historyVars
    <2>2. CASE AuditSettings(r) \/ RejectTask(r) \/ TaskQueued(r)
      BY <2>2 DEF AuditSettings, RejectTask, TaskQueued, historyVars
    <2>3. CASE TaskError(r)
      BY <2>3 DEF TaskError, historyVars
    <2> QED
      BY <1>4, <2>1, <2>2, <2>3, <2>4, <2>5
  <1> QED
    BY <1>1, <1>2, <1>3, <1>4 DEF Next, Poll, Handler

\* Forms are applied as if at once, until an update comes between.
LEMMA SettingsNext ==
  ASSUME TypeOK, LoopInv, SettingsAsSubmitted, [Next]_vars
  PROVE  SettingsAsSubmitted'
  <1>1. ASSUME NEW r \in Requests, UpdateSettings(r) PROVE SettingsAsSubmitted'
    <2>1. row \in Row /\ row # Absent /\ expected \in Settings
      BY <1>1, InFlightMeansRow DEF UpdateSettings, InFlight
    <2>2. request[r].read \in Settings /\ request[r].form \in Form
      BY <1>1 DEF UpdateSettings, LoopInv
    <2>3. /\ SettingsOf(row') = Merged(request[r].read, request[r].form)
          /\ expected' = Merged(expected, request[r].form)
      BY <1>1, <2>1, <2>2, UpdateKeepsType
    <2>4. overlap' = (overlap \/ SettingsOf(row) # request[r].read)
      BY <1>1 DEF UpdateSettings
    <2>5. ~overlap' => request[r].read = expected
      BY <2>1, <2>4 DEF SettingsAsSubmitted
    <2> QED
      BY <2>3, <2>5 DEF SettingsAsSubmitted
  <1>2. CASE Boot
    BY <1>2 DEF Boot, SettingsAsSubmitted
  <1> QED
    BY <1>1, <1>2, SettingsAlone DEF SettingsAsSubmitted

\* The event with which a handler ends.
EventOf(r, event) ==
  IF event = "update"
  THEN [event |-> "update", of |-> r, mode |-> Merged(request[r].read, request[r].form).mode]
  ELSE [event |-> event, of |-> r]

\* Handler r ends, and its event is the last one of the log now.
Logs(r, event) ==
  /\ InFlight(r) /\ OthersStay(r) /\ request'[r].pc = "done"
  /\ DOMAIN audit' = DOMAIN audit \cup {Len(audit) + 1}
  /\ \A i \in DOMAIN audit : audit'[i] = audit[i] /\ i < Len(audit) + 1
  /\ audit'[Len(audit) + 1] = EventOf(r, event)

\* Appending an event to the log.
LEMMA AppendIs ==
  ASSUME TypeOK, NEW e, audit' = Append(audit, e)
  PROVE  /\ DOMAIN audit' = DOMAIN audit \cup {Len(audit) + 1}
         /\ \A i \in DOMAIN audit : audit'[i] = audit[i] /\ i < Len(audit) + 1
         /\ audit'[Len(audit) + 1] = e
  <1>1. audit \in Seq(Event) /\ DOMAIN audit = 1..Len(audit) /\ Len(audit) \in Nat
    BY DEF TypeOK
  <1> QED
    BY <1>1

\* Which event a handler ends with.
LEMMA AuditLogs ==
  ASSUME TypeOK, NEW r \in Requests, AuditSettings(r) PROVE Logs(r, "update")
  <1>1. audit' = Append(audit, EventOf(r, "update")) /\ InFlight(r)
    BY DEF AuditSettings, EventOf, InFlight
  <1>2. OthersStay(r) /\ request'[r].pc = "done"
    BY HandlerMoves
  <1> QED
    BY <1>1, <1>2, AppendIs DEF Logs

LEMMA ReportLogs ==
  ASSUME TypeOK, NEW r \in Requests
  PROVE  /\ RejectTask(r) \/ TaskError(r) => Logs(r, "error")
         /\ TaskQueued(r) => Logs(r, "queued")
  <1>1. ASSUME NEW event \in {"queued", "error"}, Audited(r, event), InFlight(r)
        PROVE  Logs(r, event)
    <2>1. audit' = Append(audit, EventOf(r, event))
      BY <1>1 DEF Audited, EventOf
    <2>2. OthersStay(r) /\ request'[r].pc = "done"
      BY <1>1 DEF Audited, OthersStay, TypeOK, Handling
    <2> QED
      BY <1>1, <2>1, <2>2, AppendIs DEF Logs
  <1>2. RejectTask(r) => Logs(r, "error")
    BY <1>1 DEF RejectTask, InFlight
  <1>3. TaskQueued(r) => Logs(r, "queued")
    BY <1>1 DEF TaskQueued, InFlight
  <1>4. TaskError(r) => Logs(r, "error")
    BY <1>1 DEF TaskError, InFlight
  <1> QED
    BY <1>2, <1>3, <1>4

\* The steps that end no handler leave the log alone.
LEMMA LogNext ==
  ASSUME [Next]_vars
  PROVE  \/ UNCHANGED audit
         \/ \E r \in Requests : AuditSettings(r) \/ RejectTask(r) \/ TaskQueued(r) \/ TaskError(r)
  <1>1. CASE Boot \/ Kill \/ Poll \/ CameraChanges \/ UNCHANGED vars
    BY <1>1 DEF Boot, Kill, Poll, List, Get, Store, Wait, CameraChanges, vars
  <1>2. ASSUME NEW r \in Requests,
               BeginSettings(r) \/ BeginTask(r) \/ FileTask(r) \/ UpdateSettings(r) \/ PostTask(r)
        PROVE  UNCHANGED audit
    <2>1. CASE BeginSettings(r) \/ BeginTask(r)
      BY <2>1, Zenon DEF BeginSettings, BeginTask
    <2>2. CASE FileTask(r) \/ UpdateSettings(r) \/ PostTask(r)
      BY <2>2 DEF FileTask, UpdateSettings, PostTask
    <2> QED
      BY <1>2, <2>1, <2>2
  <1> QED
    BY <1>1, <1>2 DEF Next, Handler

\* The events of the log are of requests that are done, one for each.
EventsApart ==
  /\ \A i \in DOMAIN audit : audit[i].of \in Requests /\ request[audit[i].of].pc = "done"
  /\ \A i, j \in DOMAIN audit : audit[i].of = audit[j].of => i = j

\* A request that is done stays so.
LEMMA DoneStays ==
  ASSUME TypeOK, [Next]_vars, NEW r \in Requests, request[r].pc = "done"
  PROVE  request'[r].pc = "done"
  <1>1. ASSUME NEW q \in Requests, OthersStay(q), q # r PROVE request'[r].pc = "done"
    BY <1>1 DEF OthersStay
  <1>2. ASSUME NEW q \in Requests, BeginSettings(q) \/ BeginTask(q) \/ Handler(q)
        PROVE  request'[r].pc = "done"
    <2>1. OthersStay(q)
      BY <1>2, HandlerMoves DEF Handler
    <2>2. request[q].pc # "done"
      <3>1. CASE BeginSettings(q) \/ BeginTask(q)
        <4>1. request[q].pc = "idle"
          BY <3>1, Zenon DEF BeginSettings, BeginTask
        <4> QED
          BY <4>1
      <3>2. CASE Handler(q)
        BY <3>2 DEF Handler, UpdateSettings, AuditSettings, RejectTask, PostTask, TaskQueued, TaskError
      <3> QED
        BY <1>2, <3>1, <3>2
    <2> QED
      BY <1>1, <2>1, <2>2
  <1>3. CASE Kill
    BY <1>3, KillEnds
  <1> QED
    BY <1>2, <1>3, OutsideMovesNone DEF Next, Poll

\* Every step keeps the events apart.
LEMMA EventsNext ==
  ASSUME TypeOK, EventsApart, [Next]_vars PROVE EventsApart'
  <1>1. CASE UNCHANGED audit
    BY <1>1, DoneStays DEF EventsApart
  <1>2. ASSUME NEW r \in Requests, NEW event, Logs(r, event) PROVE EventsApart'
    <2>1. EventOf(r, event).of = r
      BY DEF EventOf
    <2>2. \A i \in DOMAIN audit : audit[i].of # r
      BY <1>2 DEF EventsApart, Logs, InFlight
    <2>3. \A i \in DOMAIN audit : request'[audit[i].of].pc = "done"
      BY DoneStays DEF EventsApart
    <2> QED
      BY <1>2, <2>1, <2>2, <2>3 DEF EventsApart, Logs
  <1> QED
    BY <1>1, <1>2, LogNext, AuditLogs, ReportLogs

\* A step that touches neither the log nor the mode nor a handler that has
\* updated the row keeps the log telling the mode.
LEMMA ModeUntouched ==
  ASSUME ModeInv, UNCHANGED <<audit, torn>>, row'.mode = row.mode, row' = Absent => row = Absent,
         \A q \in Requests : request'[q].pc = "update" <=> request[q].pc = "update",
         \A q \in Requests : request[q].pc = "update" =>
           request'[q].read = request[q].read /\ request'[q].form = request[q].form
  PROVE  ModeInv'
  <1>1. \A i \in DOMAIN audit : LastUpdate(i)' <=> LastUpdate(i)
    BY DEF LastUpdate
  <1>2. \A q \in Requests : request'[q].pc = "update" =>
          Merged(request'[q].read, request'[q].form) = Merged(request[q].read, request[q].form)
    OBVIOUS
  <1> QED
    BY <1>1, <1>2 DEF ModeInv

\* The step of one handler that was not at its update and is not there now.
LEMMA MovingKeepsMode ==
  ASSUME ModeInv, UNCHANGED <<audit, torn, row>>, NEW r \in Requests, OthersStay(r),
         request[r].pc # "update", request'[r].pc # "update"
  PROVE  ModeInv'
  BY ModeUntouched DEF OthersStay

\* Only the handler that has the loop has updated the row.
LEMMA OneUpdates ==
  ASSUME LoopInv, NEW r, loop \in {r, Free}
  PROVE  \A q \in Requests \ {r} : request[q].pc # "update"
  BY ConsoleAssumption DEF LoopInv, Free

\* An update, its event, and the event of another handler.
LEMMA UpdateKeepsMode ==
  ASSUME TypeOK, LoopInv, ModeInv, NEW r \in Requests, UpdateSettings(r) PROVE ModeInv'
  <1>1. row \in Row /\ row # Absent /\ expected \in Settings
    BY InFlightMeansRow DEF UpdateSettings, InFlight
  <1>2. request[r].read \in Settings /\ request[r].form \in Form
    BY DEF UpdateSettings, LoopInv
  <1>3. row' \in Row /\ SettingsOf(row') = Merged(request[r].read, request[r].form)
    BY <1>1, <1>2, UpdateKeepsType
  <1>4. row'.mode = Merged(request[r].read, request[r].form).mode
    BY <1>3 DEF SettingsOf
  <1>5. /\ OthersStay(r) /\ request'[r].pc = "update"
        /\ request'[r].read = request[r].read /\ request'[r].form = request[r].form
    BY HandlerMoves
  <1>6. \A q \in Requests \ {r} : request'[q].pc # "update"
    <2>1. loop = Free
      BY DEF UpdateSettings
    <2>2. \A q \in Requests \ {r} : request[q].pc # "update"
      BY <2>1, OneUpdates
    <2> QED
      BY <1>5, <2>2 DEF OthersStay
  <1> QED
    BY <1>3, <1>4, <1>5, <1>6, RowFacts DEF ModeInv

LEMMA AuditKeepsMode ==
  ASSUME TypeOK, LoopInv, ModeInv, NEW r \in Requests, AuditSettings(r), Logs(r, "update")
  PROVE  ModeInv'
  <1>1. UNCHANGED row /\ request[r].pc = "update" /\ row # Absent
    BY InFlightMeansRow DEF AuditSettings, InFlight
  <1>2. loop = r
    BY <1>1 DEF LoopInv
  <1>3. \A q \in Requests : request'[q].pc # "update"
    BY <1>2, OneUpdates DEF Logs, OthersStay
  <1>4. EventOf(r, "update").event = "update" /\ EventOf(r, "update").mode = row.mode
    BY <1>1 DEF EventOf, ModeInv
  <1>5. \A i \in DOMAIN audit : ~LastUpdate(i)'
    BY <1>4 DEF Logs, LastUpdate
  <1> QED
    BY <1>1, <1>3, <1>4, <1>5 DEF ModeInv, Logs

LEMMA ReportKeepsMode ==
  ASSUME TypeOK, LoopInv, ModeInv, NEW r \in Requests, NEW event \in {"queued", "error"},
         Logs(r, event), UNCHANGED <<row, torn>>, request[r].pc # "update"
  PROVE  ModeInv'
  <1>1. EventOf(r, event).event # "update"
    BY DEF EventOf
  <1>2. \A i \in DOMAIN audit' : LastUpdate(i)' => i \in DOMAIN audit /\ LastUpdate(i)
    <2>1. ASSUME NEW i \in DOMAIN audit', LastUpdate(i)' PROVE i \in DOMAIN audit
      BY <1>1, <2>1 DEF Logs, LastUpdate
    <2>2. ASSUME NEW i \in DOMAIN audit, LastUpdate(i)' PROVE LastUpdate(i)
      BY <2>2 DEF Logs, LastUpdate
    <2> QED
      BY <2>1, <2>2
  <1>3. \A q \in Requests : request'[q].pc = "update" => q # r /\ request'[q] = request[q]
    BY DEF Logs, OthersStay
  <1>4. \A q \in Requests : request[q].pc = "update" => request'[q] = request[q]
    BY DEF Logs, OthersStay
  <1>5. row # Absent
    BY InFlightMeansRow DEF Logs
  <1> QED
    BY <1>2, <1>3, <1>4, <1>5 DEF ModeInv, Logs

\* Every step keeps the log telling the mode, unless a kill tears the two.
LEMMA ModeNext ==
  ASSUME TypeOK, LoopInv, ModeInv, [Next]_vars PROVE ModeInv'
  <1>1. ASSUME NEW r \in Requests, UpdateSettings(r) PROVE ModeInv'
    BY <1>1, UpdateKeepsMode
  <1>2. ASSUME NEW r \in Requests, AuditSettings(r) PROVE ModeInv'
    BY <1>2, AuditLogs, AuditKeepsMode
  <1>3. ASSUME NEW r \in Requests, RejectTask(r) \/ TaskQueued(r) \/ TaskError(r) PROVE ModeInv'
    <2>1. PICK event \in {"queued", "error"} : Logs(r, event)
      BY <1>3, ReportLogs
    <2>2. UNCHANGED <<row, torn>> /\ request[r].pc # "update"
      BY <1>3 DEF RejectTask, TaskQueued, TaskError, historyVars
    <2> QED
      BY <2>1, <2>2, ReportKeepsMode
  <1>4. ASSUME NEW r \in Requests, BeginSettings(r) PROVE ModeInv'
    <2>1. OthersStay(r) /\ request'[r].pc = "form"
      BY <1>4, HandlerMoves
    <2>2. UNCHANGED <<audit, torn, row>> /\ request[r].pc = "idle"
      BY <1>4 DEF BeginSettings, historyVars
    <2> QED
      BY <2>1, <2>2, MovingKeepsMode
  <1>5. ASSUME NEW r \in Requests, BeginTask(r) PROVE ModeInv'
    <2>1. OthersStay(r) /\ request'[r].pc = "task"
      BY <1>5, HandlerMoves
    <2>2. UNCHANGED <<audit, torn, row>> /\ request[r].pc = "idle"
      BY <1>5, Zenon DEF BeginTask, historyVars
    <2> QED
      BY <2>1, <2>2, MovingKeepsMode
  <1>6. ASSUME NEW r \in Requests, PostTask(r) PROVE ModeInv'
    <2>1. OthersStay(r) /\ request'[r].pc = "post"
      BY <1>6, HandlerMoves
    <2>2. UNCHANGED <<audit, torn, row>> /\ request[r].pc = "task"
      BY <1>6 DEF PostTask, historyVars
    <2> QED
      BY <2>1, <2>2, MovingKeepsMode
  <1>7. CASE Kill
    <2>1. \A q \in Requests : request'[q].pc # "update"
      BY <1>7, KillEnds DEF InFlight
    <2>2. UNCHANGED <<row, audit>> /\ torn' = (torn \/ \E r \in Requests : request[r].pc = "update")
      BY <1>7 DEF Kill
    <2>3. \A i \in DOMAIN audit : LastUpdate(i)' <=> LastUpdate(i)
      BY <2>2 DEF LastUpdate
    <2> QED
      BY <2>1, <2>2, <2>3 DEF ModeInv
  <1>8. CASE Boot
    <2>1. UNCHANGED <<audit, torn, request>>
      BY <1>8 DEF Boot
    <2>2. CASE row = Absent
      <3>1. audit = <<>> /\ \A q \in Requests : request[q].pc # "update"
        BY <2>2, <1>8 DEF ModeInv, LoopInv, InFlight, Boot
      <3> QED
        BY <2>1, <3>1 DEF ModeInv
    <2>3. CASE row # Absent
      <3>1. UNCHANGED row
        BY <1>8, <2>3 DEF Boot
      <3> QED
        BY <2>1, <3>1, ModeUntouched
    <2> QED
      BY <2>2, <2>3
  <1>9. CASE Store
    <2>1. row \in Row
      BY <1>9, InFlightMeansRow DEF Store
    <2>2. row'.mode = row.mode /\ row # Absent /\ row' # Absent
      <3>1. row' \in Row /\ row'.mode = row.mode
        BY <1>9, <2>1 DEF Store, StreamOf, Row, TypeOK, Poller
      <3> QED
        BY <2>1, <3>1, RowFacts
    <2>3. UNCHANGED <<audit, torn, request>>
      BY <1>9 DEF Store, historyVars
    <2> QED
      BY <2>2, <2>3, ModeUntouched
  <1>10. CASE List \/ Get \/ Wait \/ CameraChanges \/ (\E r \in Requests : FileTask(r)) \/ UNCHANGED vars
    <2>1. UNCHANGED <<audit, torn, request, row>>
      BY <1>10 DEF List, Get, Wait, CameraChanges, FileTask, vars, historyVars
    <2> QED
      BY <2>1, ModeUntouched
  <1> QED
    BY <1>1, <1>2, <1>3, <1>4, <1>5, <1>6, <1>7, <1>8, <1>9, <1>10 DEF Next, Poll, Handler

-----------------------------------------------------------------------------
(* The handlers of the console: the tasks and the log.                     *)

\* What the log calls queued is filed; what is filed is logged, or its handler
\* still runs or was killed; what is on its way is logged or killed.
TasksInv ==
  /\ \A i \in DOMAIN audit : audit[i].event = "queued" => audit[i].of \in filed
  /\ \A r \in filed : Logged(r) \/ InFlight(r) \/ r \in killed
  /\ \A r \in late : Logged(r) \/ r \in killed

\* The event of a handler names it.
LEMMA LogsNames == ASSUME NEW r, NEW event, Logs(r, event) PROVE Logged(r)'
  <1>1. EventOf(r, event).of = r
    BY DEF EventOf
  <1> QED
    BY <1>1 DEF Logs, Logged

\* A request that the log names is named for ever.
LEMMA LoggedStays ==
  ASSUME TypeOK, [Next]_vars, NEW r, Logged(r) PROVE Logged(r)'
  <1>1. ASSUME NEW q, NEW event, Logs(q, event) PROVE Logged(r)'
    BY <1>1 DEF Logs, Logged
  <1>2. CASE UNCHANGED audit
    BY <1>2 DEF Logged
  <1> QED
    BY <1>1, <1>2, LogNext, AuditLogs, ReportLogs

\* A handler runs on, or ends with an event, or is killed.
LEMMA HandlerGoesOn ==
  ASSUME TypeOK, [Next]_vars, NEW r \in Requests, InFlight(r)
  PROVE  InFlight(r)' \/ Logged(r)' \/ r \in killed'
  <1>1. ASSUME NEW q \in Requests, OthersStay(q), q # r PROVE InFlight(r)'
    BY <1>1 DEF OthersStay, InFlight
  <1>2. ASSUME NEW q \in Requests, BeginSettings(q) \/ BeginTask(q) \/ UpdateSettings(q) \/ PostTask(q)
        PROVE  InFlight(r)'
    <2>1. OthersStay(q) /\ InFlight(q)'
      BY <1>2, HandlerMoves DEF InFlight
    <2> QED
      BY <1>1, <2>1
  <1>3. ASSUME NEW q \in Requests, NEW event, Logs(q, event) PROVE InFlight(r)' \/ Logged(r)'
    <2>1. CASE q = r
      BY <1>3, <2>1, LogsNames
    <2>2. CASE q # r
      BY <1>1, <1>3, <2>2 DEF Logs
    <2> QED
      BY <2>1, <2>2
  <1>4. ASSUME NEW q \in Requests, AuditSettings(q) \/ RejectTask(q) \/ TaskQueued(q) \/ TaskError(q)
        PROVE  InFlight(r)' \/ Logged(r)'
    BY <1>3, <1>4, AuditLogs, ReportLogs
  <1>5. CASE Kill
    BY <1>5 DEF Kill
  <1> QED
    BY <1>2, <1>4, <1>5, OutsideMovesNone DEF Next, Poll, Handler, InFlight

\* What a step adds to what is filed, on its way, killed or called queued.
LEMMA TasksMove ==
  ASSUME TypeOK, [Next]_vars
  PROVE  /\ killed \subseteq killed' /\ filed \subseteq filed' /\ filed' \subseteq Requests
         /\ \A r \in filed' \ filed : InFlight(r) \/ r \in late
         /\ \A r \in late' \ late : Logged(r)' \/ r \in killed'
  <1>1. ASSUME NEW r \in Requests, TaskError(r)
        PROVE  Logged(r)' /\ UNCHANGED <<killed, filed>> /\ late' \subseteq late \cup {r}
    <2>1. Logged(r)'
      BY <1>1, ReportLogs, LogsNames
    <2> QED
      BY <1>1, <2>1 DEF TaskError, historyVars
  <1>2. ASSUME NEW r \in Requests, FileTask(r)
        PROVE  /\ UNCHANGED killed /\ filed' = filed \cup {r} /\ late' \subseteq late
               /\ InFlight(r) \/ r \in late
    BY <1>2 DEF FileTask, historyVars, InFlight
  <1>3. CASE Kill
    <2>1. UNCHANGED filed /\ killed' = killed \cup {r \in Requests : InFlight(r)}
      BY <1>3 DEF Kill
    <2>2. late' \subseteq late \cup {r \in Requests : InFlight(r)}
      BY <1>3 DEF Kill, InFlight
    <2> QED
      BY <2>1, <2>2 DEF TypeOK
  <1>4. ASSUME NEW r \in Requests, BeginSettings(r) \/ UpdateSettings(r) \/ AuditSettings(r)
        PROVE  UNCHANGED <<killed, filed, late>>
    <2>1. CASE BeginSettings(r)
      BY <2>1 DEF BeginSettings, historyVars
    <2>2. CASE UpdateSettings(r)
      BY <2>2 DEF UpdateSettings
    <2>3. CASE AuditSettings(r)
      BY <2>3 DEF AuditSettings, historyVars
    <2> QED
      BY <1>4, <2>1, <2>2, <2>3
  <1>5. ASSUME NEW r \in Requests, BeginTask(r) PROVE UNCHANGED <<killed, filed, late>>
    BY <1>5, Zenon DEF BeginTask, historyVars
  <1>6. ASSUME NEW r \in Requests, RejectTask(r) \/ PostTask(r) \/ TaskQueued(r)
        PROVE  UNCHANGED <<killed, filed, late>>
    BY <1>6 DEF RejectTask, PostTask, TaskQueued, historyVars
  <1>7. ASSUME Boot \/ Poll \/ CameraChanges \/ UNCHANGED vars
        PROVE  UNCHANGED <<killed, filed, late>>
    BY <1>7 DEF Boot, Poll, List, Get, Store, Wait, CameraChanges, vars, historyVars
  <1> QED
    BY <1>1, <1>2, <1>3, <1>4, <1>5, <1>6, <1>7 DEF Next, Handler, TypeOK

\* What is called queued has been filed.
LEMMA QueuedIsFiled ==
  ASSUME TypeOK, TasksInv, [Next]_vars
  PROVE  \A i \in DOMAIN audit' : audit'[i].event = "queued" => audit'[i].of \in filed'
  <1>1. filed \subseteq filed'
    BY TasksMove
  <1>2. CASE UNCHANGED audit
    BY <1>1, <1>2 DEF TasksInv
  <1>3. ASSUME NEW r \in Requests, NEW event, Logs(r, event), event = "queued" => r \in filed
        PROVE  \A i \in DOMAIN audit' : audit'[i].event = "queued" => audit'[i].of \in filed'
    <2>1. EventOf(r, event).of = r /\ EventOf(r, event).event = event
      BY DEF EventOf
    <2> QED
      BY <1>1, <1>3, <2>1 DEF Logs, TasksInv
  <1>4. ASSUME NEW r \in Requests, TaskQueued(r) PROVE r \in filed
    BY <1>4 DEF TaskQueued
  <1> QED
    BY <1>2, <1>3, <1>4, LogNext, AuditLogs, ReportLogs

\* Every step keeps the tasks accounted for.
LEMMA TasksNext ==
  ASSUME TypeOK, TasksInv, [Next]_vars PROVE TasksInv'
  <1>1. ASSUME NEW r \in filed' PROVE (Logged(r) \/ InFlight(r) \/ r \in killed)'
    <2>1. r \in Requests
      BY TasksMove
    <2>2. Logged(r) \/ InFlight(r) \/ r \in killed
      BY TasksMove DEF TasksInv
    <2> QED
      BY <2>1, <2>2, LoggedStays, HandlerGoesOn, TasksMove
  <1>2. ASSUME NEW r \in late' PROVE (Logged(r) \/ r \in killed)'
    BY LoggedStays, TasksMove DEF TasksInv
  <1> QED
    BY <1>1, <1>2, QueuedIsFiled DEF TasksInv

-----------------------------------------------------------------------------
(* The handlers of the console: theorems.                                  *)

\* The parts of the invariant, as the lemmas have them.
ConsoleParts ==
  TypeOK /\ LoopInv /\ SettingsAsSubmitted /\ ModeInv /\ EventsApart /\ TasksInv

LEMMA ConsoleInit == ASSUME Init PROVE ConsoleParts
  <1>1. TypeOK
    <2>1. Idle \in Handling
      BY DEF Idle, Handling
    <2>2. poller \in Poller /\ camera \in Answers /\ <<>> \in Seq(Event)
      BY DEF Init, Off, Poller, Answers
    <2> QED
      BY <2>1, <2>2 DEF Init, TypeOK
  <1>2. LoopInv
    BY ConsoleAssumption DEF Init, LoopInv, InFlight, Idle, Off, Free
  <1>3. SettingsAsSubmitted /\ ModeInv /\ EventsApart /\ TasksInv
    BY DEF Init, SettingsAsSubmitted, ModeInv, EventsApart, TasksInv, Idle
  <1> QED
    BY <1>1, <1>2, <1>3 DEF ConsoleParts

LEMMA ConsoleNext == ASSUME ConsoleParts, [Next]_vars PROVE ConsoleParts'
  BY TypeOKNext, LoopInvNext, SettingsNext, ModeNext, EventsNext, TasksNext DEF ConsoleParts

\* While no handler is in the loop the last update event tells the row's mode.
LEMMA ModeIsTold == ASSUME ConsoleParts PROVE AuditTellsMode
  BY ConsoleAssumption DEF ConsoleParts, LoopInv, ModeInv, AuditTellsMode, Free

\* The table has the settings that the forms submitted, unless an update came
\* between the read and the write of another, and the log tells its mode, unless
\* a kill came between an update and its event: for any requests and names.
THEOREM SettingsAreTrue == Spec => []SettingsTellTruth
  <1>1. ConsoleParts => SettingsTellTruth
    BY ModeIsTold DEF ConsoleParts, SettingsTellTruth
  <1> QED
    BY <1>1, ConsoleInit, ConsoleNext, PTL DEF Spec

\* The audit log accounts for every task that the control server filed, although
\* the console may stop waiting for it or be killed, and each request has at
\* most one event.
THEOREM TasksAreAccounted == Spec => []TasksAccounted
  <1>1. ConsoleParts => TasksAccounted
    BY DEF ConsoleParts, EventsApart, TasksInv, TasksAccounted, Logged
  <1> QED
    BY <1>1, ConsoleInit, ConsoleNext, PTL DEF Spec

\* The invariant by which both hold: the loop and its handler, the row and the
\* event that is still to come, and the tasks that are on their way.
THEOREM ConsoleInvariant == Spec => []ConsoleInv
  <1>1. ConsoleParts => ConsoleInv
    BY DEF ConsoleParts, EventsApart, TasksInv, ConsoleInv, EventInv, TasksAccounted
  <1> QED
    BY <1>1, ConsoleInit, ConsoleNext, PTL DEF Spec
=============================================================================
