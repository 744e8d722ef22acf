------------------------------ MODULE Sessions ------------------------------
(***************************************************************************)
(* Login, logout and the session store of services/nvr-console/app.py.     *)
(* A session slides: every request renews it for another TTL.  The cookie  *)
(* does not: its max_age is counted from the login.  Pages and logouts run *)
(* on pool threads, a browser may have several requests under way.         *)
(***************************************************************************)
EXTENDS Integers, FiniteSets, Functions

CONSTANTS Browsers,
          Tokens,   \* bound: one for every login
          Ttl       \* NVR_SESSION_TTL_SECONDS, in ticks

ASSUME SessionsAssumption == Ttl \in Nat /\ "none" \notin Tokens

VARIABLES sessions,   \* the store: token -> ticks since updated_at
          cookie,     \* browser -> its cookie, with the ticks since it was set
          logouts,    \* the logout handlers under way
          ended,      \* history: tokens whose deletion took effect
          lost,       \* history: tokens of an earlier process
          served      \* history: what this step's request found, if it is one

sessionVars == <<sessions, cookie, logouts, ended, lost, served>>

NoCookie == [token |-> "none", age |-> 0]
NotServed == [token |-> "none", found |-> FALSE]
Issued == DOMAIN sessions \cup {cookie[b].token : b \in Browsers} \cup ended \cup lost
            \cup {l.token : l \in logouts}

SessionsTypeOK ==
  /\ DOMAIN sessions \subseteq Tokens /\ \A t \in DOMAIN sessions : sessions[t] \in 0..(Ttl + 1)
  /\ \A b \in Browsers : cookie[b] = NoCookie \/ (cookie[b].token \in Tokens /\ cookie[b].age \in 0..Ttl)
  /\ logouts \subseteq [browser : Browsers, token : Tokens \cup {"none"}, pc : {"delete", "answer"}]
  /\ ended \subseteq Tokens /\ lost \subseteq Tokens
  /\ served \in [token : Tokens \cup {"none"}, found : BOOLEAN]

SessionsInit ==
  /\ sessions = [t \in {} |-> 0]
  /\ cookie = [b \in Browsers |-> NoCookie]
  /\ logouts = {} /\ ended = {} /\ lost = {}
  /\ served = NotServed

-----------------------------------------------------------------------------
(* SessionStore: each operation holds the lock throughout.                 *)

Without(t) == Restrict(sessions, DOMAIN sessions \ {t})

\* Mutant: sessions end a tick early.
ExpiredEarly(t) == sessions[t] >= Ttl
Expired(t) == sessions[t] > Ttl

\* get_username: a session that is too old is dropped, any other renewed.
GetUsername(t) ==
  LET found == t \in DOMAIN sessions /\ ~Expired(t)
  IN /\ sessions' = IF found THEN [sessions EXCEPT ![t] = 0] ELSE Without(t)
     /\ served' = [token |-> t, found |-> found]

-----------------------------------------------------------------------------
(* Handlers.                                                               *)

\* A POST of the right name and password: verify_user, create, the audit
\* event and the answer.  Nobody knows the token before the answer.
Login(b, t) ==
  /\ t \notin Issued
  /\ sessions' = [u \in DOMAIN sessions \cup {t} |-> IF u = t THEN 0 ELSE sessions[u]]
  /\ cookie' = [cookie EXCEPT ![b] = [token |-> t, age |-> 0]]
  /\ UNCHANGED <<logouts, ended, lost>> /\ served' = NotServed

\* Any page: user_from_request, then the page or a redirect to the login.
Page(b) ==
  /\ GetUsername(cookie[b].token)
  /\ UNCHANGED <<cookie, logouts, ended, lost>>

\* logout looks the user up for the audit event, which renews the session.
BeginLogout(b) ==
  /\ GetUsername(cookie[b].token)
  /\ logouts' = logouts \cup {[browser |-> b, token |-> cookie[b].token, pc |-> "delete"]}
  /\ UNCHANGED <<cookie, ended, lost>>

\* Mutant: only the cookie is deleted.
ForgetToken(l) ==
  /\ l \in logouts /\ l.pc = "delete"
  /\ sessions' = sessions
  /\ ended' = ended \cup ({l.token} \ {"none"})
  /\ logouts' = (logouts \ {l}) \cup {[l EXCEPT !.pc = "answer"]}
  /\ UNCHANGED <<cookie, lost>> /\ served' = NotServed

DeleteToken(l) ==
  /\ l \in logouts /\ l.pc = "delete"
  /\ sessions' = Without(l.token)
  /\ ended' = ended \cup ({l.token} \ {"none"})
  /\ logouts' = (logouts \ {l}) \cup {[l EXCEPT !.pc = "answer"]}
  /\ UNCHANGED <<cookie, lost>> /\ served' = NotServed

\* The audit event and the answer, which deletes whatever cookie is set now.
AnswerLogout(l) ==
  /\ l \in logouts /\ l.pc = "answer"
  /\ logouts' = logouts \ {l}
  /\ cookie' = [cookie EXCEPT ![l.browser] = NoCookie]
  /\ UNCHANGED <<sessions, ended, lost>> /\ served' = NotServed

\* The store is in memory.
Restart ==
  /\ DOMAIN sessions # {}
  /\ lost' = lost \cup DOMAIN sessions
  /\ sessions' = [t \in {} |-> 0]
  /\ logouts' = {}
  /\ UNCHANGED <<cookie, ended>> /\ served' = NotServed

\* A browser drops a cookie that is older than its max_age.
Tick ==
  /\ sessions' = [t \in DOMAIN sessions |-> IF Expired(t) THEN sessions[t] ELSE sessions[t] + 1]
  /\ cookie' = [b \in Browsers |->
       IF cookie[b] = NoCookie \/ cookie[b].age = Ttl THEN NoCookie
       ELSE [cookie[b] EXCEPT !.age = @ + 1]]
  /\ UNCHANGED <<logouts, ended, lost>> /\ served' = NotServed

SessionsNext ==
  \/ \E b \in Browsers :
       \/ \E t \in Tokens : Login(b, t)
       \/ Page(b) \/ BeginLogout(b)
  \/ \E l \in logouts : DeleteToken(l) \/ AnswerLogout(l)
  \/ Restart \/ Tick

SessionsSpec == SessionsInit /\ [][SessionsNext]_sessionVars

-----------------------------------------------------------------------------
\* An operator is not asked to log in again as long as the browser keeps the
\* cookie: the session is there and young enough, unless it was logged out or
\* the console restarted.
CookieMeansSession ==
  \A b \in Browsers :
    LET t == cookie[b].token
    IN cookie[b] # NoCookie /\ t \notin ended \cup lost =>
         t \in DOMAIN sessions /\ ~(sessions[t] > Ttl)

\* A token that was logged out is never served again, and neither is one of an
\* earlier process, whatever requests with it are under way.
LogoutIsFinal ==
  served.token \in ended \cup lost => ~served.found
=============================================================================
