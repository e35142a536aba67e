----------------------------- MODULE AuthSessions -----------------------------
(***************************************************************************)
(* auth-service: sign-in with GitHub, refreshing the access token, logging *)
(* out, and the sessions these keep in Redis.  Requests run concurrently;  *)
(* every call to GitHub, PostgreSQL, Redis or Kafka is one step.  Redis    *)
(* drops a key when its time to live has passed.  A tick of the clock is   *)
(* longer than any request, so a request sees the time change once at      *)
(* most.                                                                   *)
(***************************************************************************)
EXTENDS Integers

CONSTANTS
  Accounts,    \* GitHub accounts, each with its own address and login
  Callers,     \* HTTP requests in flight at a time
  AccessLife,  \* access_token_expire_minutes
  RefreshLife, \* refresh_token_expire_days
  SessionLife, \* 30 days
  Slack,       \* an hour: by how much the set of a user's sessions outlives them
  MaxSessions, \* bound: sign-ins that reach the session
  MaxTime,     \* bound of the clock
  Faults       \* "github", "db", "redis", "kafka": calls that may fail; "crash"

ASSUME LivesAreNat ==
  /\ AccessLife \in Nat \ {0} /\ RefreshLife \in Nat /\ SessionLife \in Nat /\ Slack \in Nat
  /\ AccessLife <= SessionLife
  /\ Slack >= 2 \* longer than two requests
ASSUME BoundsAreNat == MaxSessions \in Nat /\ MaxTime \in Nat
ASSUME SomeAccount == Accounts # {}

VARIABLES
  now,         \* the clock
  users,       \* rows of users: the accounts that have one
  connections, \* rows of oauth_connections, likewise
  owner,       \* owner[s]: user_id of session s
  login,       \* login[s]: its created_at; expires_at is SessionLife later
  until,       \* until[s]: when Redis drops session:s, 0 if it has no such key
  sessions,    \* sign-ins that reached the session
  members,     \* sessions that were added to user_sessions:u of their user
  setUntil,    \* setUntil[u]: when Redis drops user_sessions:u
  access,      \* access[s]: expiry of the last access token handed out for s
  refresh,     \* refresh[s]: expiry of its refresh token
  task,        \* task[x]: request x
  out,         \* history: sessions a logout deleted
  overlapped,  \* history: of these, the ones a refresh was about to write back
  unlisted     \* history: sessions whose SADD and EXPIRE did not both take
               \* effect, on one and the same set

tables  == <<users, connections>>
session == <<owner, login, until, sessions>>
index   == <<members, setUntil>>
tokens  == <<access, refresh>>
history == <<out, overlapped, unlisted>>
vars == <<now, tables, session, index, tokens, task, history>>

Sessions == 1 .. MaxSessions
Never == MaxTime + SessionLife + RefreshLife + Slack + 1
Time == 0 .. Never

Steps == {"idle", "exchange", "find", "insert", "touch", "connect", "setex",
          "sadd", "expire", "get", "reread", "rewrite", "delete", "srem", "announce"}

\* since: the time when the request arrived; time, ttl: `now` and `ttl` in
\* the code; found: the session existed when it was read last.
Idle == [kind |-> "none", at |-> "idle", account |-> CHOOSE a \in Accounts : TRUE,
         session |-> 0, since |-> 0, time |-> 0, ttl |-> 0, found |-> FALSE]

Task == [kind : {"none", "login", "refresh", "logout"}, at : Steps, account : Accounts,
         session : Sessions \cup {0}, since : Time, time : Time, ttl : 0 .. SessionLife,
         found : BOOLEAN]

TypeOK ==
  /\ now \in 0 .. MaxTime
  /\ users \subseteq Accounts /\ connections \subseteq Accounts
  /\ owner \in [Sessions -> Accounts]
  /\ login \in [Sessions -> Time] /\ until \in [Sessions -> Time]
  /\ sessions \in 0 .. MaxSessions
  /\ members \subseteq Sessions
  /\ setUntil \in [Accounts -> Time]
  /\ access \in [Sessions -> Time] /\ refresh \in [Sessions -> Time]
  /\ task \in [Callers -> Task]
  /\ \A x \in Callers : task[x].at \in {"setex", "rewrite"} => task[x].ttl > 0
  /\ out \subseteq Sessions /\ overlapped \subseteq Sessions /\ unlisted \subseteq Sessions

Init ==
  /\ now = 0
  /\ users = {} /\ connections = {}
  /\ owner = [s \in Sessions |-> CHOOSE a \in Accounts : TRUE]
  /\ login = [s \in Sessions |-> 0] /\ until = [s \in Sessions |-> 0]
  /\ sessions = 0
  /\ members = {} /\ setUntil = [a \in Accounts |-> 0]
  /\ access = [s \in Sessions |-> 0] /\ refresh = [s \in Sessions |-> 0]
  /\ task = [x \in Callers |-> Idle]
  /\ out = {} /\ overlapped = {} /\ unlisted = {}

\* verify_access_token wants a role, which only access tokens carry;
\* verify_refresh_token accepts either token of a session.
AccessValid(s) == now < access[s]
RefreshValid(s) == now < refresh[s] \/ AccessValid(s)

\* The unique columns of users.
Taken(a) == a \in users

Live(s) == now < until[s]
Listed(s) == s \in members /\ now < setUntil[owner[s]]

\* "ok", "err" without effect, or "lost": with effect, the reply missing.
Outcome(call) == {"ok"} \cup (IF call \in Faults THEN {"err", "lost"} ELSE {})

-----------------------------------------------------------------------------
(* Steps of a request                                                       *)

Goto(x, step) == task' = [task EXCEPT ![x].at = step]

\* The response is sent, whatever its status; nothing is taken back.
End(x) == task' = [task EXCEPT ![x] = Idle]

\* An exception: 400 for a sign-in, 401 or 500 else.
Step(x, o, step) == IF o = "ok" THEN Goto(x, step) ELSE End(x)

Arrive(x, kind, step, a, s) ==
  /\ task[x].at = "idle"
  /\ task' = [task EXCEPT ![x] = [Idle EXCEPT !.kind = kind, !.at = step, !.account = a,
                                              !.session = s, !.since = now]]
  /\ UNCHANGED <<now, tables, session, index, tokens, history>>

-----------------------------------------------------------------------------
(* GET /auth/github/callback: GitHubOAuthLoginInteractor                    *)

Callback(x, a) == Arrive(x, "login", "exchange", a, 0)

\* exchange_code and get_user_info.
Exchange(x) ==
  /\ task[x].at = "exchange"
  /\ \E o \in Outcome("github") : Step(x, o, "find")
  /\ UNCHANGED <<now, tables, session, index, tokens, history>>

\* get_by_email, then `now`.
Find(x) ==
  /\ task[x].at = "find"
  /\ \E o \in Outcome("db") :
       IF o = "ok"
       THEN task' = [task EXCEPT ![x].time = now,
                       ![x].at = IF task[x].account \in users THEN "touch" ELSE "insert"]
       ELSE End(x)
  /\ UNCHANGED <<now, tables, session, index, tokens, history>>

\* save: the address and the name are unique, so of two first sign-ins at
\* once the later one fails.
Insert(x) ==
  /\ task[x].at = "insert"
  /\ IF Taken(task[x].account) THEN End(x) /\ UNCHANGED users
     ELSE \E o \in Outcome("db") :
            /\ users' = IF o = "err" THEN users ELSE users \cup {task[x].account}
            /\ Step(x, o, "connect")
  /\ UNCHANGED <<now, connections, session, index, tokens, history>>

\* update_last_login.
Touch(x) ==
  /\ task[x].at = "touch"
  /\ \E o \in Outcome("db") : Step(x, o, "connect")
  /\ UNCHANGED <<now, tables, session, index, tokens, history>>

\* Mutant of Connect: an error of upsert is only logged.
ConnectLogged(x) ==
  /\ task[x].at = "connect"
  /\ sessions < MaxSessions
  /\ task' = [task EXCEPT ![x].at = "setex", ![x].session = sessions + 1,
                          ![x].ttl = SessionLife]
  /\ sessions' = sessions + 1
  /\ UNCHANGED <<now, tables, owner, login, until, index, tokens, history>>

\* upsert; then the session's id and time to live are made up.
Connect(x) ==
  LET ttl == task[x].time + SessionLife - now IN
  /\ task[x].at = "connect"
  /\ sessions < MaxSessions
  /\ \E o \in Outcome("db") :
       /\ connections' = IF o = "err" THEN connections
                         ELSE connections \cup {task[x].account}
       /\ IF o = "ok" /\ ttl > 0
          THEN /\ task' = [task EXCEPT ![x].at = "setex", ![x].session = sessions + 1,
                                       ![x].ttl = ttl]
               /\ sessions' = sessions + 1
          ELSE End(x) /\ UNCHANGED sessions
  /\ UNCHANGED <<now, users, owner, login, until, index, tokens, history>>

\* create: SETEX session:s.
Create(x) ==
  LET s == task[x].session IN
  /\ task[x].at = "setex"
  /\ \E o \in Outcome("redis") :
       /\ until' = IF o = "err" THEN until ELSE [until EXCEPT ![s] = now + task[x].ttl]
       /\ unlisted' = IF o = "ok" THEN unlisted ELSE unlisted \cup {s}
       /\ Step(x, o, "sadd")
  /\ owner' = [owner EXCEPT ![s] = task[x].account]
  /\ login' = [login EXCEPT ![s] = task[x].time]
  /\ UNCHANGED <<now, tables, sessions, index, tokens, out, overlapped>>

\* SADD user_sessions:u; a set that had expired starts again without a time
\* to live.
AddMember(x) ==
  LET s == task[x].session
      u == task[x].account
      expired == now >= setUntil[u]
  IN
  /\ task[x].at = "sadd"
  /\ \E o \in Outcome("redis") :
       /\ IF o = "err" THEN UNCHANGED index
          ELSE /\ members' = (IF expired THEN {t \in members : owner[t] # u} ELSE members)
                               \cup {s}
               /\ setUntil' = IF expired THEN [setUntil EXCEPT ![u] = Never] ELSE setUntil
       /\ unlisted' = IF o = "ok" THEN unlisted ELSE unlisted \cup {s}
       /\ Step(x, o, "expire")
  /\ UNCHANGED <<now, tables, session, tokens, out, overlapped>>

\* EXPIRE user_sessions:u, the only time its time to live is set; nothing
\* happens if the set has expired since, and it may be a new set without s.
ExpireSet(x) ==
  LET s == task[x].session
      u == task[x].account
  IN
  /\ task[x].at = "expire"
  /\ \E o \in Outcome("redis") :
       /\ setUntil' = IF o = "err" \/ now >= setUntil[u] THEN setUntil
                      ELSE [setUntil EXCEPT ![u] = now + task[x].ttl + Slack]
       /\ unlisted' = IF o = "err" \/ now >= setUntil[u] \/ s \notin members
                      THEN unlisted \cup {s} ELSE unlisted
       /\ IF o = "ok" THEN task' = [task EXCEPT ![x].at = "announce", ![x].time = now]
          ELSE End(x)
  /\ UNCHANGED <<now, tables, session, members, tokens, out, overlapped>>

\* service-logs; an error loses the response, and the tokens with it.
HandOut(x) ==
  LET s == task[x].session IN
  /\ task[x].at = "announce" /\ task[x].kind = "login"
  /\ \E o \in Outcome("kafka") :
       IF o = "ok"
       THEN /\ access'  = [access  EXCEPT ![s] = task[x].time + AccessLife]
            /\ refresh' = [refresh EXCEPT ![s] = task[x].time + RefreshLife]
       ELSE UNCHANGED tokens
  /\ End(x)
  /\ UNCHANGED <<now, tables, session, index, history>>

-----------------------------------------------------------------------------
(* POST /auth/refresh: RefreshTokenInteractor                               *)

Refresh(x, s) ==
  /\ RefreshValid(s)
  /\ Arrive(x, "refresh", "get", owner[s], s)

\* get_by_id of the session, then of its user.  Logging out reads only the
\* session, and has nothing to do without one.
GetSession(x) ==
  LET s == task[x].session IN
  /\ task[x].at = "get"
  /\ \E o \in Outcome("redis") \cup (IF task[x].kind = "refresh" THEN Outcome("db") ELSE {}) :
       Step(x, IF Live(s) \/ task[x].kind = "logout" THEN o ELSE "err",
               IF Live(s) THEN "reread" ELSE "announce")
  /\ UNCHANGED <<now, tables, session, index, tokens, history>>

\* Mutant of Reread: update trusts the session read before.
RereadNothing(x) ==
  LET ttl == login[task[x].session] + SessionLife - now IN
  /\ task[x].at = "reread"
  /\ IF task[x].kind = "logout"
     THEN task' = [task EXCEPT ![x].at = "delete", ![x].found = TRUE]
     ELSE IF ttl > 0
     THEN task' = [task EXCEPT ![x].at = "rewrite", ![x].ttl = ttl]
     ELSE End(x)
  /\ UNCHANGED <<now, tables, session, index, tokens, history>>

\* Mutant of Reread: a session past its expires_at is not refused.
RereadUnchecked(x) ==
  LET s == task[x].session IN
  /\ task[x].at = "reread" /\ task[x].kind = "refresh" /\ Live(s)
  /\ task' = [task EXCEPT ![x].at = "rewrite", ![x].ttl = login[s] + SessionLife - now]
  /\ UNCHANGED <<now, tables, session, index, tokens, history>>

\* Mutant of Reread: the session starts its life again.
RereadRenews(x) ==
  LET s == task[x].session IN
  /\ task[x].at = "reread" /\ task[x].kind = "refresh" /\ Live(s)
  /\ task' = [task EXCEPT ![x].at = "rewrite", ![x].ttl = SessionLife]
  /\ UNCHANGED <<now, tables, session, index, tokens, history>>

\* update and delete read the session again; update leaves expires_at alone
\* and refuses a session that is gone or past it.
Reread(x) ==
  LET s == task[x].session
      ttl == login[s] + SessionLife - now
  IN
  /\ task[x].at = "reread"
  /\ \E o \in Outcome("redis") :
       IF o # "ok" THEN End(x)
       ELSE IF task[x].kind = "logout"
       THEN task' = [task EXCEPT ![x].at = "delete", ![x].found = Live(s)]
       ELSE IF Live(s) /\ ttl > 0
       THEN task' = [task EXCEPT ![x].at = "rewrite", ![x].ttl = ttl]
       ELSE End(x)
  /\ UNCHANGED <<now, tables, session, index, tokens, history>>

\* update: SETEX; then a new access token.  The new refresh token is not sent.
Rewrite(x) ==
  LET s == task[x].session IN
  /\ task[x].at = "rewrite"
  /\ \E o \in Outcome("redis") :
       /\ until' = IF o = "err" THEN until ELSE [until EXCEPT ![s] = now + task[x].ttl]
       /\ access' = IF o = "ok" THEN [access EXCEPT ![s] = now + AccessLife] ELSE access
  /\ End(x)
  /\ UNCHANGED <<now, tables, owner, login, sessions, index, refresh, history>>

-----------------------------------------------------------------------------
(* POST /auth/logout: LogoutInteractor                                      *)

Logout(x, s) ==
  /\ AccessValid(s)
  /\ Arrive(x, "logout", "get", owner[s], s)

\* DEL session:s.
Delete(x) ==
  LET s == task[x].session IN
  /\ task[x].at = "delete"
  /\ \E o \in Outcome("redis") :
       /\ IF o = "err" THEN UNCHANGED <<until, out, overlapped>>
          ELSE /\ until' = [until EXCEPT ![s] = 0]
               /\ out' = out \cup {s}
               /\ overlapped' =
                    IF \E y \in Callers : task[y].at = "rewrite" /\ task[y].session = s
                    THEN overlapped \cup {s} ELSE overlapped
       /\ Step(x, o, IF task[x].found THEN "srem" ELSE "announce")
  /\ UNCHANGED <<now, tables, owner, login, sessions, index, tokens, unlisted>>

\* Mutant of RemoveMember: the user's set is deleted.
RemoveSet(x) ==
  /\ task[x].at = "srem"
  /\ setUntil' = [setUntil EXCEPT ![task[x].account] = 0]
  /\ Goto(x, "announce")
  /\ UNCHANGED <<now, tables, session, members, tokens, history>>

\* SREM user_sessions:u.
RemoveMember(x) ==
  /\ task[x].at = "srem"
  /\ \E o \in Outcome("redis") :
       /\ members' = IF o = "err" THEN members ELSE members \ {task[x].session}
       /\ Step(x, o, "announce")
  /\ UNCHANGED <<now, tables, session, setUntil, tokens, history>>

\* service-logs, then the cookie is cleared; an error is a 500.
Farewell(x) ==
  /\ task[x].at = "announce" /\ task[x].kind = "logout"
  /\ End(x)
  /\ UNCHANGED <<now, tables, session, index, tokens, history>>

-----------------------------------------------------------------------------
\* The process of a request ends.
Crash(x) ==
  /\ "crash" \in Faults
  /\ task[x].at # "idle"
  /\ End(x)
  /\ unlisted' = IF task[x].at \in {"setex", "sadd", "expire"} THEN unlisted \cup {task[x].session}
                 ELSE unlisted
  /\ UNCHANGED <<now, tables, session, index, tokens, out, overlapped>>

Tick ==
  /\ now < MaxTime
  /\ \A x \in Callers : task[x].at # "idle" => task[x].since = now
  /\ now' = now + 1
  /\ UNCHANGED <<tables, session, index, tokens, task, history>>

Work(x) ==
  \/ Exchange(x) \/ Find(x) \/ Insert(x) \/ Touch(x) \/ Connect(x) \/ Create(x)
  \/ AddMember(x) \/ ExpireSet(x) \/ HandOut(x)
  \/ GetSession(x) \/ Reread(x) \/ Rewrite(x)
  \/ Delete(x) \/ RemoveMember(x) \/ Farewell(x)

Next ==
  \/ \E x \in Callers, a \in Accounts : Callback(x, a)
  \/ \E x \in Callers, s \in Sessions : Refresh(x, s) \/ Logout(x, s)
  \/ \E x \in Callers : Work(x) \/ Crash(x)
  \/ Tick

Spec == Init /\ [][Next]_vars

-----------------------------------------------------------------------------
(* GET /auth/me and GET /auth/oauth/github/token read and answer only.      *)

GetUser(s) == AccessValid(s) /\ Live(s) /\ owner[s] \in users
MeAnswer(s) == IF GetUser(s) THEN 200 ELSE 401

\* `.one()`: without a connection the answer is not the 404 the interactor
\* means to give.
GetByUserAndProvider(u) == IF u \in connections THEN "token" ELSE "NoResultFound"
GetGitHubToken(s) == IF AccessValid(s) THEN GetByUserAndProvider(owner[s]) ELSE "ValueError"
GitHubTokenAnswer(s) ==
  CASE GetGitHubToken(s) = "token" -> 200
    [] GetGitHubToken(s) = "ValueError" -> 404
    [] OTHER -> 500

Expires(s) == login[s] + SessionLife

(* A refresh keeps a session but never prolongs it: no session outlives its *)
(* sign-in by more than its 30 days and the time a request takes.           *)
SessionEnds == \A s \in Sessions : until[s] <= Expires(s) + 1

(* A token that was handed out does what it is for until it or the session  *)
(* expires, or a logout deletes the session: /me and the GitHub token are   *)
(* answered, the refresh token finds its session, whatever failed and       *)
(* whoever ran beside.                                                      *)
TokensServe ==
  \A s \in Sessions :
    /\ now < access[s] => GitHubTokenAnswer(s) = 200
    /\ now < Expires(s) /\ s \notin out =>
         /\ now < access[s] => MeAnswer(s) = 200
         /\ now < refresh[s] => Live(s)

(* A session that was logged out is not brought back, unless a refresh had  *)
(* read it for the second time when it was deleted and wrote it back.       *)
LoggedOutStaysOut ==
  \A s \in out : Live(s) => s \in overlapped

(* The set of a user's sessions, which other operations go by, holds every  *)
(* live one: but for a sign-in still under way, one that ended before the   *)
(* set's EXPIRE, and a session a refresh wrote back.                        *)
LiveIsListed ==
  \A s \in Sessions :
    Live(s) => \/ Listed(s)
               \/ s \in unlisted \cup overlapped
               \/ \E x \in Callers : task[x].at \in {"sadd", "expire"} /\ task[x].session = s

-----------------------------------------------------------------------------
(* The inductive invariant                                                  *)

\* x makes the session task[x].session, which no other request knows yet.
Making(x) == \/ task[x].at \in {"setex", "sadd", "expire"}
             \/ task[x].at = "announce" /\ task[x].kind = "login"

\* x works on a session whose tokens were handed out.
Using(x) == \/ task[x].at \in {"get", "reread", "rewrite", "delete", "srem"}
            \/ task[x].at = "announce" /\ task[x].kind # "login"

Known(s) == access[s] > 0 \/ refresh[s] > 0

\* A request sees the clock move once at most, so that the times to live it
\* computes are off by one tick at most.
TaskTimes(x) ==
  LET t == task[x] IN
  /\ t.since <= now /\ t.time <= now
  /\ t.at # "idle" => now <= t.since + 1
  /\ t.at \in {"insert", "touch", "connect"} => t.since <= t.time
  /\ t.at = "setex" => t.time + SessionLife <= now + t.ttl /\ t.since + t.ttl <= t.time + SessionLife
  /\ t.at \in {"setex", "sadd", "expire"} => SessionLife <= t.ttl + 1
  /\ t.at = "rewrite" => Expires(t.session) <= now + t.ttl /\ t.since + t.ttl <= Expires(t.session)

TaskSession(x) ==
  LET t == task[x]
      s == t.session
  IN
  /\ t.at \in {"touch", "connect"} \/ Making(x) => t.account \in users
  /\ t.at \in {"exchange", "find", "insert", "touch", "connect", "setex", "sadd", "expire"}
       => t.kind = "login"
  /\ Making(x) =>
       /\ t.account \in connections
       /\ s \in 1 .. sessions /\ ~Known(s) /\ s \notin out
       /\ IF t.at = "setex" THEN login[s] = 0 /\ until[s] = 0
          ELSE owner[s] = t.account /\ Expires(s) <= until[s]
       /\ \A y \in Callers : y # x /\ Making(y) => task[y].session # s
  /\ Using(x) => s \in Sessions /\ Known(s) /\ t.kind # "login"
  /\ t.at = "srem" => s \in out

\* What LiveIsListed rests on: the set outlives its members.
Kept(s) == s \in members /\ Expires(s) < setUntil[owner[s]]

SessionInv(s) ==
  /\ login[s] <= now
  /\ until[s] <= Expires(s) + 1
  /\ s > sessions => ~Known(s) /\ login[s] = 0 /\ until[s] = 0 /\ s \notin out
  /\ Known(s) => /\ owner[s] \in users /\ owner[s] \in connections
                 /\ s \in out \/ Expires(s) <= until[s]
  /\ s \in out \ overlapped =>
       until[s] = 0 /\ \A y \in Callers : task[y].at = "rewrite" => task[y].session # s
  /\ until[s] > 0 /\ now <= Expires(s) =>
       \/ Kept(s)
       \/ s \in unlisted \cup overlapped
       \/ \E x \in Callers : task[x].at \in {"sadd", "expire"} /\ task[x].session = s

\* What makes the properties above inductive.
IInv ==
  /\ TypeOK
  /\ \A x \in Callers : TaskTimes(x) /\ TaskSession(x)
  /\ \A s \in Sessions : SessionInv(s)
=============================================================================
