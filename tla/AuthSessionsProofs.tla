-------------------------- MODULE AuthSessionsProofs --------------------------
(***************************************************************************)
(* Theorems about AuthSessions, from the inductive invariant IInv.         *)
(***************************************************************************)
EXTENDS AuthSessions, TLAPS

\* The time and space a session or a task may take.
LEMMA Ranges ==
  ASSUME TypeOK
  PROVE  /\ now \in Nat /\ now \in Time /\ now <= MaxTime /\ MaxTime \in Nat /\ MaxSessions \in Nat
         /\ SessionLife \in Nat /\ AccessLife \in Nat /\ AccessLife > 0
         /\ AccessLife <= SessionLife /\ RefreshLife \in Nat /\ Slack \in Nat /\ Slack >= 2
         /\ \A t \in Time : t \in Nat
         /\ \A n \in Nat : n <= MaxTime + SessionLife + RefreshLife + Slack + 1 => n \in Time
         /\ Never \in Time /\ Never = MaxTime + SessionLife + RefreshLife + Slack + 1
         /\ sessions \in Nat
BY LivesAreNat, BoundsAreNat DEF TypeOK, Time, Never

LEMMA IdleIsTask == Idle \in Task
<1>1. (CHOOSE a \in Accounts : TRUE) \in Accounts
  BY SomeAccount
<1>2. 0 \in Time /\ 0 \in 0 .. SessionLife
  BY LivesAreNat, BoundsAreNat DEF Time, Never
<1> QED
  BY <1>1, <1>2 DEF Idle, Task, Steps

\* A step that moves request x to t, and otherwise only adds rows or excuses a
\* session from being listed, keeps IInv if t itself is as IInv says, does not
\* take up a session, and does not drop one that is being listed.
LEMMA OnlyTask ==
  ASSUME IInv, NEW x \in Callers, NEW t \in Task,
         task' = [task EXCEPT ![x] = t],
         UNCHANGED <<now, session, index, tokens, out, overlapped>>,
         users \subseteq users', users' \subseteq Accounts,
         connections \subseteq connections', connections' \subseteq Accounts,
         unlisted \subseteq unlisted', unlisted' \subseteq Sessions,
         TaskTimes(x)', TaskSession(x)',
         t.at \in {"setex", "rewrite"} => t.ttl > 0,
         task[x].at \in {"sadd", "expire"} => task[x].session \in unlisted',
         t.at = "rewrite" => t.session \notin out \ overlapped,
         Making(x)' => Making(x) /\ t.session = task[x].session
  PROVE  IInv'
<1>1. /\ \A y \in Callers : y # x => task'[y] = task[y]
      /\ task'[x] = t
      /\ task' \in [Callers -> Task]
  BY DEF IInv, TypeOK
<1>2. TypeOK'
  BY <1>1 DEF IInv, TypeOK, session, index, tokens
<1>3. ASSUME NEW y \in Callers, y # x PROVE TaskTimes(y)' /\ TaskSession(y)'
  <2>1. TaskTimes(y)'
    BY <1>1, <1>3 DEF IInv, TaskTimes, Expires, session
  <2>2. TaskSession(y)'
    BY <1>1, <1>3 DEF IInv, TaskSession, Making, Using, Known, Expires, session, tokens
  <2> QED BY <2>1, <2>2
<1>4. ASSUME NEW s \in Sessions PROVE SessionInv(s)'
  BY <1>1 DEF IInv, SessionInv, Known, Expires, Kept, session, index, tokens
<1> QED
  BY <1>2, <1>3, <1>4 DEF IInv, Sessions

\* A step that ends request x, and otherwise only adds rows or excuses a
\* session from being listed.
LEMMA Ends ==
  ASSUME IInv, NEW x \in Callers, End(x),
         UNCHANGED <<now, session, index, tokens, out, overlapped>>,
         users \subseteq users', users' \subseteq Accounts,
         connections \subseteq connections', connections' \subseteq Accounts,
         unlisted \subseteq unlisted', unlisted' \subseteq Sessions,
         task[x].at \in {"sadd", "expire"} => task[x].session \in unlisted'
  PROVE  IInv'
<1>1. TypeOK /\ task'[x] = Idle
  BY DEF IInv, TypeOK, End
<1>2. /\ Idle.at = "idle" /\ Idle.since = 0 /\ Idle.time = 0 /\ Idle.kind = "none"
  BY DEF Idle
<1>3. TaskTimes(x)'
  BY <1>1, <1>2, Ranges DEF TaskTimes
<1>4. TaskSession(x)' /\ ~Making(x)'
  BY <1>1, <1>2 DEF TaskSession, Making, Using
<1> QED
  BY <1>1, <1>2, <1>3, <1>4, IdleIsTask, OnlyTask DEF End
-----------------------------------------------------------------------------
(* Every step keeps IInv: first the ones that only move a request           *)

LEMMA ArriveInv ==
  ASSUME IInv, NEW x \in Callers, NEW kind \in {"refresh", "logout"}, NEW s \in Sessions,
         Known(s), Arrive(x, kind, "get", owner[s], s)
  PROVE  IInv'
<1> DEFINE t == [Idle EXCEPT !.kind = kind, !.at = "get", !.account = owner[s],
                             !.session = s, !.since = now]
<1>1. /\ t \in Task /\ t.kind = kind /\ t.at = "get" /\ t.session = s
      /\ t.since = now /\ t.time = 0
  <2>1. owner[s] \in Accounts /\ now \in Time
    BY Ranges DEF IInv, TypeOK
  <2> QED BY <2>1, IdleIsTask DEF Task, Steps, Idle
<1>2. task' = [task EXCEPT ![x] = t] /\ task[x].at = "idle" /\ task'[x] = t
  BY DEF Arrive, IInv, TypeOK
<1>3. UNCHANGED <<now, tables, session, index, tokens, history>>
  BY DEF Arrive
<1> HIDE DEF t
<1>4. TaskTimes(x)'
  BY <1>1, <1>2, <1>3, Ranges DEF TaskTimes, IInv
<1>5. TaskSession(x)' /\ ~Making(x)'
  BY <1>1, <1>2, <1>3 DEF TaskSession, Making, Using, Known, tokens
<1> QED
  BY <1>1, <1>2, <1>3, <1>4, <1>5, OnlyTask DEF tables, history, IInv, TypeOK

LEMMA CallbackInv ==
  ASSUME IInv, NEW x \in Callers, NEW a \in Accounts, Callback(x, a)
  PROVE  IInv'
<1> DEFINE t == [Idle EXCEPT !.kind = "login", !.at = "exchange", !.account = a,
                             !.session = 0, !.since = now]
<1>1. /\ t \in Task /\ t.kind = "login" /\ t.at = "exchange"
      /\ t.since = now /\ t.time = 0
  <2>1. now \in Time
    BY Ranges DEF IInv, TypeOK
  <2> QED BY <2>1, IdleIsTask DEF Task, Steps, Idle
<1>2. task' = [task EXCEPT ![x] = t] /\ task[x].at = "idle" /\ task'[x] = t
  BY DEF Callback, Arrive, IInv, TypeOK
<1>3. UNCHANGED <<now, tables, session, index, tokens, history>>
  BY DEF Callback, Arrive
<1> HIDE DEF t
<1>4. TaskTimes(x)'
  BY <1>1, <1>2, <1>3, Ranges DEF TaskTimes, IInv
<1>5. TaskSession(x)' /\ ~Making(x)'
  BY <1>1, <1>2, <1>3 DEF TaskSession, Making, Using, Known, tokens
<1> QED
  BY <1>1, <1>2, <1>3, <1>4, <1>5, OnlyTask DEF tables, history, IInv, TypeOK

\* A request that goes on to the next step, with nothing else changed.
LEMMA GoesOn ==
  ASSUME IInv, NEW x \in Callers, NEW step \in Steps, Goto(x, step),
         UNCHANGED <<now, session, index, tokens, history>>,
         users \subseteq users', users' \subseteq Accounts,
         connections \subseteq connections', connections' \subseteq Accounts,
         \/ task[x].at = "exchange" /\ step = "find" /\ task[x].kind = "login"
         \/ task[x].at \in {"insert", "touch"} /\ step = "connect" /\ task[x].account \in users'
         \/ task[x].at = "get" /\ step \in {"reread", "announce"}
  PROVE  IInv'
<1> DEFINE t == [task[x] EXCEPT !.at = step]
<1>1. /\ t \in Task /\ t.at = step
      /\ t.kind = task[x].kind /\ t.account = task[x].account /\ t.session = task[x].session
      /\ t.since = task[x].since /\ t.time = task[x].time /\ t.ttl = task[x].ttl
  BY DEF IInv, TypeOK, Task
<1>2. task' = [task EXCEPT ![x] = t] /\ task'[x] = t
  BY DEF Goto, IInv, TypeOK
<1> HIDE DEF t
<1>3. TaskTimes(x)'
  BY <1>1, <1>2, Ranges DEF TaskTimes, IInv
<1>4. TaskSession(x)' /\ ~Making(x)'
  BY <1>1, <1>2 DEF TaskSession, Making, Using, Known, tokens, IInv
<1> QED
  BY <1>1, <1>2, <1>3, <1>4, OnlyTask DEF history, IInv, TypeOK

LEMMA ExchangeInv ==
  ASSUME IInv, NEW x \in Callers, Exchange(x)
  PROVE  IInv'
<1>1. task[x].kind = "login" /\ "find" \in Steps
  BY DEF IInv, TaskSession, Exchange, Steps, Using, Making
<1>2. CASE Goto(x, "find")
  BY <1>1, <1>2, GoesOn DEF Exchange, tables, IInv, TypeOK
<1>3. CASE End(x)
  BY <1>3, Ends DEF Exchange, tables, history, IInv, TypeOK
<1> QED
  BY <1>2, <1>3 DEF Exchange, Step

LEMMA FindInv ==
  ASSUME IInv, NEW x \in Callers, Find(x)
  PROVE  IInv'
<1> DEFINE step == IF task[x].account \in users THEN "touch" ELSE "insert"
           t == [task[x] EXCEPT !.time = now, !.at = step]
<1>1. CASE task' = [task EXCEPT ![x].time = now, ![x].at = step]
  <2>1. /\ t \in Task /\ t.at = step /\ t.time = now
        /\ t.kind = "login" /\ t.account = task[x].account
        /\ t.since = task[x].since
    <3>1. now \in Time /\ task[x] \in Task /\ task[x].kind = "login"
      BY Ranges DEF IInv, TypeOK, Find, TaskSession
    <3>2. step \in Steps
      BY DEF Steps
    <3> QED BY <3>1, <3>2 DEF Task
  <2>2. task' = [task EXCEPT ![x] = t] /\ task'[x] = t
    BY <1>1 DEF IInv, TypeOK
  <2>3. t.at \in {"touch", "insert"} /\ (t.at = "touch" => t.account \in users)
    BY <2>1
  <2> HIDE DEF t
  <2>4. TaskTimes(x)'
    BY <2>1, <2>2, <2>3, Ranges DEF TaskTimes, IInv, Find
  <2>5. TaskSession(x)' /\ ~Making(x)'
    BY <2>1, <2>2, <2>3 DEF TaskSession, Making, Using, Find, tables
  <2> QED
    BY <2>1, <2>2, <2>3, <2>4, <2>5, OnlyTask DEF Find, tables, history, IInv, TypeOK
<1>2. CASE End(x)
  BY <1>2, Ends DEF Find, tables, history, IInv, TypeOK
<1> QED
  BY <1>1, <1>2 DEF Find

LEMMA InsertInv ==
  ASSUME IInv, NEW x \in Callers, Insert(x)
  PROVE  IInv'
<1>1. /\ UNCHANGED <<now, connections, session, index, tokens, history>>
      /\ task[x].at = "insert" /\ "connect" \in Steps /\ task[x].account \in Accounts
  BY DEF Insert, Steps, IInv, TypeOK, Task
<1>2. users \subseteq users' /\ users' \subseteq Accounts
  BY <1>1 DEF Insert, IInv, TypeOK
<1>3. CASE End(x)
  BY <1>1, <1>2, <1>3, Ends DEF history, IInv, TypeOK
<1>4. CASE Goto(x, "connect") /\ task[x].account \in users'
  BY <1>1, <1>2, <1>4, GoesOn DEF IInv, TypeOK
<1> QED
  BY <1>3, <1>4 DEF Insert, Step

LEMMA TouchInv ==
  ASSUME IInv, NEW x \in Callers, Touch(x)
  PROVE  IInv'
<1>1. "connect" \in Steps /\ task[x].account \in users
  BY DEF IInv, TaskSession, Touch, Steps
<1>2. CASE Goto(x, "connect")
  BY <1>1, <1>2, GoesOn DEF Touch, tables, IInv, TypeOK
<1>3. CASE End(x)
  BY <1>3, Ends DEF Touch, tables, history, IInv, TypeOK
<1> QED
  BY <1>2, <1>3 DEF Touch, Step

LEMMA GetSessionInv ==
  ASSUME IInv, NEW x \in Callers, GetSession(x)
  PROVE  IInv'
<1>1. {"reread", "announce"} \subseteq Steps
  BY DEF Steps
<1>2. CASE End(x)
  BY <1>2, Ends DEF GetSession, tables, history, IInv, TypeOK
<1>3. CASE \E step \in {"reread", "announce"} : Goto(x, step)
  BY <1>1, <1>3, GoesOn DEF GetSession, tables, IInv, TypeOK
<1> QED
  BY <1>2, <1>3 DEF GetSession, Step

LEMMA RereadInv ==
  ASSUME IInv, NEW x \in Callers, Reread(x)
  PROVE  IInv'
<1> DEFINE s == task[x].session
           ttl == login[s] + SessionLife - now
<1>1. /\ task[x] \in Task /\ s \in Sessions /\ Known(s) /\ task[x].kind # "login"
      /\ task[x].at = "reread" /\ SessionInv(s) /\ TaskTimes(x) /\ TypeOK
      /\ UNCHANGED <<now, tables, session, index, tokens, history>>
  BY DEF IInv, TypeOK, Reread, TaskSession, Using
<1>2. CASE task' = [task EXCEPT ![x].at = "delete", ![x].found = Live(s)]
  <2> DEFINE t == [task[x] EXCEPT !.at = "delete", !.found = Live(s)]
  <2>1. /\ t \in Task /\ t.at = "delete" /\ t.kind # "login" /\ t.session = s
        /\ t.since = task[x].since /\ t.time = task[x].time
    <3>1. Live(s) \in BOOLEAN
      BY DEF Live
    <3> QED BY <1>1, <3>1 DEF Task, Steps
  <2>2. task' = [task EXCEPT ![x] = t] /\ task'[x] = t
    BY <1>2 DEF IInv, TypeOK
  <2> HIDE DEF t
  <2>3. TaskTimes(x)'
    BY <1>1, <2>1, <2>2 DEF TaskTimes
  <2>4. TaskSession(x)' /\ ~Making(x)'
    BY <1>1, <2>1, <2>2 DEF TaskSession, Making, Using, Known, tokens
  <2> QED
    BY <1>1, <2>1, <2>2, <2>3, <2>4, OnlyTask DEF tables, history, IInv, TypeOK
<1>3. CASE /\ Live(s) /\ ttl > 0
           /\ task' = [task EXCEPT ![x].at = "rewrite", ![x].ttl = ttl]
  <2> DEFINE t == [task[x] EXCEPT !.at = "rewrite", !.ttl = ttl]
  <2>0. login[s] \in Nat /\ until[s] \in Nat /\ ttl \in 0 .. SessionLife
    BY <1>1, <1>3, Ranges DEF TypeOK, SessionInv
  <2>1. /\ t \in Task /\ t.at = "rewrite" /\ t.kind # "login" /\ t.session = s
        /\ t.since = task[x].since /\ t.time = task[x].time /\ t.ttl = ttl
    BY <1>1, <2>0 DEF Task, Steps
  <2>2. task' = [task EXCEPT ![x] = t] /\ task'[x] = t
    BY <1>3 DEF IInv, TypeOK
  <2> HIDE DEF t
  <2>3. TaskTimes(x)'
    BY <1>1, <2>0, <2>1, <2>2, Ranges DEF TaskTimes, Expires, session, Task
  <2>4. TaskSession(x)' /\ ~Making(x)'
    BY <1>1, <2>1, <2>2 DEF TaskSession, Making, Using, Known, tokens
  <2>5. s \notin out \ overlapped
    BY <1>1, <1>3, <2>0, Ranges DEF SessionInv, Live
  <2> QED
    BY <1>1, <1>3, <2>1, <2>2, <2>3, <2>4, <2>5, OnlyTask DEF tables, history, IInv, TypeOK
<1>4. CASE End(x)
  BY <1>1, <1>4, Ends DEF tables, history, IInv, TypeOK
<1> QED
  BY <1>2, <1>3, <1>4 DEF Reread

LEMMA FarewellInv ==
  ASSUME IInv, NEW x \in Callers, Farewell(x)
  PROVE  IInv'
BY Ends DEF Farewell, tables, history, IInv, TypeOK

LEMMA CrashInv ==
  ASSUME IInv, NEW x \in Callers, Crash(x)
  PROVE  IInv'
<1>1. task[x].at \in {"setex", "sadd", "expire"} => task[x].session \in Sessions
  BY Ranges DEF IInv, TypeOK, TaskSession, Making, Sessions
<1> QED
  BY <1>1, Ends DEF Crash, tables, IInv, TypeOK

LEMMA TickInv ==
  ASSUME IInv, Tick
  PROVE  IInv'
<1>1. TypeOK'
  BY Ranges DEF IInv, TypeOK, Tick, tables, session, index, tokens, history
<1>2. ASSUME NEW x \in Callers PROVE TaskTimes(x)'
  <2>1. task[x] \in Task /\ TaskTimes(x) /\ now \in Nat /\ now' = now + 1 /\ UNCHANGED <<task, login>>
    BY Ranges DEF IInv, TypeOK, Tick, session
  <2>2. /\ task[x].since \in Nat /\ task[x].time \in Nat /\ task[x].ttl \in Nat
        /\ task[x].at # "idle" => task[x].since = now
    BY <2>1, Ranges DEF Task, Tick, IInv
  <2>3. task[x].at = "rewrite" => Expires(task[x].session) \in Nat
    BY Ranges DEF IInv, TypeOK, TaskSession, Using, Expires
  <2> QED BY <2>1, <2>2, <2>3, Ranges DEF TaskTimes, Expires, IInv
<1>3. ASSUME NEW x \in Callers PROVE TaskSession(x)'
  BY DEF IInv, TaskSession, Making, Using, Known, Expires, Tick, tables, session, tokens, history
<1>4. ASSUME NEW s \in Sessions PROVE SessionInv(s)'
  <2>1. /\ now \in Nat /\ now' = now + 1 /\ SessionInv(s)
        /\ login[s] \in Nat /\ Expires(s) \in Nat
        /\ UNCHANGED <<tables, session, index, tokens, task, history>>
    BY Ranges DEF IInv, TypeOK, Tick, Expires
  <2> QED
    BY <2>1 DEF SessionInv, Known, Expires, Kept, tables, session, index, tokens, history
<1> QED
  BY <1>1, <1>2, <1>3, <1>4 DEF IInv, Sessions

-----------------------------------------------------------------------------
(* A sign-in makes its session                                              *)

\* A request that makes or uses a session has one.
LEMMA HasSession ==
  ASSUME IInv, NEW x \in Callers, Making(x) \/ Using(x)
  PROVE  task[x].session \in Sessions
<1>1. TypeOK /\ TaskSession(x)
  BY DEF IInv
<1>2. CASE Making(x)
  <2>1. task[x].session \in 1 .. sessions /\ sessions \in Nat /\ sessions <= MaxSessions
    BY <1>1, <1>2, Ranges DEF TaskSession, TypeOK
  <2> QED BY <2>1, BoundsAreNat DEF Sessions
<1>3. CASE Using(x)
  BY <1>1, <1>3 DEF TaskSession
<1> QED BY <1>2, <1>3

\* Facts about a request that makes a session.
LEMMA MakingFacts ==
  ASSUME IInv, NEW x \in Callers, task[x].at \in {"setex", "sadd", "expire"}
  PROVE  LET t == task[x] IN
         /\ TypeOK /\ t \in Task /\ t.session \in Sessions /\ t.account \in Accounts
         /\ t.kind = "login" /\ ~Known(t.session) /\ t.session \notin out
         /\ t.session <= sessions
         /\ t.since \in Nat /\ t.time \in Nat /\ t.ttl \in Nat /\ t.ttl <= SessionLife
         /\ t.since <= now /\ t.time <= now /\ now <= t.since + 1
         /\ SessionLife <= t.ttl + 1
         /\ \A y \in Callers : y # x /\ (Making(y) \/ Using(y)) => task[y].session # t.session
<1>1. /\ TypeOK /\ task[x] \in Task /\ TaskSession(x) /\ TaskTimes(x)
      /\ Making(x)
  BY DEF IInv, TypeOK, Making
<1>2. /\ task[x].since \in Nat /\ task[x].time \in Nat /\ task[x].ttl \in 0 .. SessionLife
      /\ task[x].account \in Accounts
  BY <1>1, Ranges DEF Task
<1>3. ASSUME NEW y \in Callers, y # x, Making(y) \/ Using(y)
      PROVE  task[y].session # task[x].session
  BY <1>1, <1>3 DEF IInv, TaskSession
<1>4. /\ task[x].session \in 1 .. sessions /\ sessions \in Nat /\ sessions <= MaxSessions
      /\ ~Known(task[x].session) /\ task[x].session \notin out /\ task[x].kind = "login"
  BY <1>1, Ranges DEF TaskSession, TypeOK
<1>5. task[x].session \in Sessions /\ task[x].session <= sessions
  BY <1>4, BoundsAreNat DEF Sessions
<1> QED
  BY <1>1, <1>2, <1>3, <1>4, <1>5 DEF TaskTimes

LEMMA ConnectInv ==
  ASSUME IInv, NEW x \in Callers, Connect(x)
  PROVE  IInv'
<1> DEFINE ttl == task[x].time + SessionLife - now
           s == sessions + 1
           t == [task[x] EXCEPT !.at = "setex", !.session = s, !.ttl = ttl]
<1>1. /\ TypeOK /\ task[x] \in Task /\ task[x].kind = "login" /\ task[x].account \in users
      /\ task[x].at = "connect" /\ sessions < MaxSessions /\ TaskTimes(x)
      /\ UNCHANGED <<now, users, owner, login, until, index, tokens, history>>
  BY DEF IInv, TypeOK, TaskSession, Connect
<1>2. /\ connections \subseteq connections' /\ connections' \subseteq Accounts
      /\ task[x].since \in Nat /\ task[x].time \in Nat /\ task[x].account \in Accounts
  BY <1>1, Ranges DEF Connect, TypeOK, Task
<1>3. CASE /\ ttl > 0 /\ sessions' = sessions + 1 /\ task[x].account \in connections'
           /\ task' = [task EXCEPT ![x].at = "setex", ![x].session = sessions + 1,
                                   ![x].ttl = ttl]
  <2>1. /\ s \in Sessions /\ s \in 1 .. sessions' /\ ttl \in 0 .. SessionLife /\ ttl > 0
        /\ sessions' \in 0 .. MaxSessions
    BY <1>1, <1>2, <1>3, Ranges DEF Sessions, TaskTimes
  <2>2. /\ t \in Task /\ t.at = "setex" /\ t.session = s /\ t.ttl = ttl
        /\ t.kind = "login" /\ t.account = task[x].account
        /\ t.since = task[x].since /\ t.time = task[x].time
    BY <1>1, <2>1 DEF Task, Steps
  <2>3. task' = [task EXCEPT ![x] = t]
    BY <1>3, <1>1 DEF TypeOK
  <2> HIDE DEF t
  <2>4. /\ task'[x] = t /\ task' \in [Callers -> Task]
        /\ \A y \in Callers : y # x => task'[y] = task[y]
    BY <1>1, <2>2, <2>3 DEF TypeOK
  <2>5. TypeOK'
    BY <1>1, <1>2, <2>1, <2>2, <2>4 DEF IInv, TypeOK, index, tokens, history
  <2>6. /\ ~Known(s) /\ login[s] = 0 /\ until[s] = 0 /\ s \notin out
        /\ \A y \in Callers : Making(y) \/ Using(y) => task[y].session # s
    <3>1. s > sessions /\ SessionInv(s)
      BY <2>1, Ranges, <1>1 DEF IInv
    <3> QED BY <3>1, Ranges, <1>1 DEF IInv, SessionInv, TaskSession
  <2>7. TaskTimes(x)'
    BY <1>1, <1>2, <1>3, <2>1, <2>2, <2>4, Ranges DEF TaskTimes
  <2>8. ~Making(x) /\ ~Using(x)
    BY <1>1 DEF Making, Using
  <2>9. \A y \in Callers : y # x => (Making(y)' <=> Making(y)) /\ (Using(y)' <=> Using(y))
    BY <2>4 DEF Making, Using
  <2>10. TaskSession(x)'
    BY <1>1, <1>3, <2>1, <2>2, <2>4, <2>6, <2>9 DEF TaskSession, Making, Using, Known, tokens, history
  <2>11. ASSUME NEW y \in Callers, y # x PROVE TaskTimes(y)' /\ TaskSession(y)'
    <3>1. TaskTimes(y)'
      BY <1>1, <2>4, <2>11 DEF IInv, TaskTimes, Expires
    <3>2. Making(y) => task[y].session \in 1 .. sessions'
      BY <1>1, <1>3, Ranges DEF IInv, TaskSession
    <3>3. TaskSession(y)'
      BY <1>1, <1>2, <2>2, <2>4, <2>6, <2>9, <2>11, <3>2
         DEF IInv, TaskSession, Making, Using, Known, Expires, tokens, history
    <3> QED BY <3>1, <3>3
  <2>12. ASSUME NEW r \in Sessions PROVE SessionInv(r)'
    BY <1>1, <1>2, <1>3, <2>2, <2>4, <2>6, Ranges
       DEF IInv, SessionInv, Known, Expires, Kept, index, tokens, history, Sessions
  <2> QED
    BY <2>5, <2>7, <2>10, <2>11, <2>12 DEF IInv, Sessions
<1>4. CASE End(x) /\ UNCHANGED sessions
  BY <1>1, <1>2, <1>4, Ends DEF session, index, tokens, history, IInv, TypeOK
<1> QED
  BY <1>3, <1>4, <1>1 DEF Connect, TypeOK

\* What remains of request x after Step: it has ended or gone on.
LEMMA AfterStep ==
  ASSUME TypeOK, NEW x \in Callers, NEW o, NEW step \in Steps, Step(x, o, step)
  PROVE  /\ task' \in [Callers -> Task]
         /\ \A y \in Callers : y # x => task'[y] = task[y]
         /\ \/ task'[x] = Idle /\ o # "ok"
            \/ /\ o = "ok" /\ task'[x].at = step
               /\ task'[x].kind = task[x].kind /\ task'[x].account = task[x].account
               /\ task'[x].session = task[x].session /\ task'[x].since = task[x].since
               /\ task'[x].time = task[x].time /\ task'[x].ttl = task[x].ttl
<1>1. task[x] \in Task
  BY DEF TypeOK
<1>2. CASE o # "ok"
  BY <1>2, IdleIsTask DEF TypeOK, Step, End
<1>3. CASE o = "ok"
  BY <1>1, <1>3 DEF TypeOK, Step, Goto, Task
<1> QED BY <1>2, <1>3

\* An idle request holds nothing.
LEMMA IdleHoldsNothing ==
  ASSUME NEW x \in Callers, task'[x] = Idle, TypeOK, now' = now
  PROVE  TaskTimes(x)' /\ TaskSession(x)' /\ ~Making(x)' /\ ~Using(x)'
<1>1. Idle.at = "idle" /\ Idle.since = 0 /\ Idle.time = 0 /\ Idle.kind = "none"
  BY DEF Idle
<1>2. ~Making(x)' /\ ~Using(x)'
  BY <1>1 DEF Making, Using
<1>3. TaskTimes(x)'
  BY <1>1, Ranges DEF TaskTimes
<1>4. TaskSession(x)'
  BY <1>1, <1>2 DEF TaskSession
<1> QED BY <1>2, <1>3, <1>4

LEMMA CreateInv ==
  ASSUME IInv, NEW x \in Callers, Create(x)
  PROVE  IInv'
<1> DEFINE ttl == task[x].ttl
<1>0. PICK s \in Sessions : s = task[x].session
  BY MakingFacts DEF Create
<1>1. /\ TypeOK /\ task[x].at = "setex" /\ TaskTimes(x) /\ TaskSession(x)
      /\ SessionInv(s) /\ s \in Sessions /\ task[x].account \in Accounts
      /\ task[x].time \in Time /\ ttl > 0
      /\ UNCHANGED <<now, tables, sessions, index, tokens, out, overlapped>>
      /\ owner' = [owner EXCEPT ![s] = task[x].account]
      /\ login' = [login EXCEPT ![s] = task[x].time]
  BY <1>0, MakingFacts DEF IInv, TypeOK, Create, Task
<1>2. PICK o :
        /\ until' = IF o = "err" THEN until ELSE [until EXCEPT ![s] = now + ttl]
        /\ unlisted' = IF o = "ok" THEN unlisted ELSE unlisted \cup {s}
        /\ Step(x, o, "sadd")
  BY <1>0 DEF Create
<1>3. /\ task' \in [Callers -> Task]
      /\ \A y \in Callers : y # x => task'[y] = task[y]
      /\ \/ task'[x] = Idle /\ o # "ok"
         \/ /\ o = "ok" /\ task'[x].at = "sadd"
            /\ task'[x].kind = task[x].kind /\ task'[x].account = task[x].account
            /\ task'[x].session = s /\ task'[x].since = task[x].since
            /\ task'[x].time = task[x].time /\ task'[x].ttl = ttl
  BY <1>0, <1>1, <1>2, AfterStep DEF Steps
<1>4. now + ttl \in Time /\ now + ttl \in Nat
  BY <1>1, <1>0, MakingFacts, Ranges
<1>5. /\ owner'[s] = task[x].account /\ login'[s] = task[x].time
      /\ until'[s] = IF o = "err" THEN 0 ELSE now + ttl
      /\ \A r \in Sessions : r # s => owner'[r] = owner[r] /\ login'[r] = login[r] /\ until'[r] = until[r]
  BY <1>0, <1>1, <1>2 DEF TypeOK, TaskSession, Making
<1>6. TypeOK'
  <2>1. \A y \in Callers : task'[y].at \in {"setex", "rewrite"} => task'[y].ttl > 0
    BY <1>1, <1>3 DEF TypeOK, Idle
  <2> QED BY <1>1, <1>2, <1>3, <1>4, <2>1 DEF TypeOK, tables, index, tokens
<1>7. Expires(s)' = task[x].time + SessionLife
  BY <1>5 DEF Expires
<1>8. ASSUME NEW r \in Sessions, r # s PROVE Expires(r)' = Expires(r)
  BY <1>5, <1>8 DEF Expires
<1>9. TaskTimes(x)' /\ TaskSession(x)' /\ (Making(x)' => task'[x].session = s) /\ ~Using(x)'
  <2>1. CASE task'[x] = Idle
    BY <1>1, <2>1, IdleHoldsNothing
  <2>2. CASE o = "ok" /\ task'[x].at = "sadd"
    <3>1. TaskTimes(x)' /\ ~Using(x)'
      BY <1>1, <1>3, <2>2, <1>0, MakingFacts, Ranges DEF TaskTimes, Using, Idle
    <3>2. TaskSession(x)'
      <4>1. ASSUME NEW y \in Callers, y # x, Making(y)' PROVE task'[y].session # s
        BY <1>1, <1>3, <4>1, <1>0, MakingFacts DEF Making
      <4>2. Expires(s)' <= until'[s]
        BY <1>1, <1>4, <1>5, <1>7, <2>2 DEF TaskTimes
      <4>3. s \in 1 .. sessions' /\ ~Known(s)' /\ s \notin out'
        BY <1>1, <1>0, MakingFacts DEF TaskSession, Making, Known, tokens
      <4>4. task'[x].session = s /\ task'[x].account = task[x].account /\ task'[x].kind = "login"
            /\ ~Using(x)' /\ task'[x].at = "sadd"
        BY <1>3, <2>2, <3>1, <1>1, <1>0, MakingFacts DEF Idle
      <4> QED BY <1>1, <1>5, <4>1, <4>2, <4>3, <4>4 DEF TaskSession, Making, tables
    <3> QED BY <3>1, <3>2, <1>3, <2>2 DEF Idle
  <2> QED BY <1>3, <2>1, <2>2
<1>10. ASSUME NEW y \in Callers, y # x PROVE TaskTimes(y)' /\ TaskSession(y)'
  <2>1. task'[y] = task[y] /\ TaskTimes(y) /\ TaskSession(y)
    BY <1>3, <1>10 DEF IInv
  <2>2. Making(y) \/ Using(y) => task[y].session # s /\ task[y].session \in Sessions
    BY <1>0, <1>1, <1>10, HasSession, MakingFacts
  <2>3. Making(y)' = Making(y) /\ Using(y)' = Using(y)
    BY <2>1 DEF Making, Using
  <2>4. TaskTimes(y)'
    BY <1>1, <1>8, <2>1, <2>2, <2>3 DEF TaskTimes, Using
  <2>5. ASSUME NEW z \in Callers, z # y, Making(z)', Making(y)
        PROVE  task'[z].session # task'[y].session
    BY <1>3, <1>9, <1>10, <2>1, <2>2, <2>5 DEF TaskSession, Making
  <2>6. TaskSession(y)'
    BY <1>1, <1>5, <1>8, <2>1, <2>2, <2>3, <2>5 DEF TaskSession, Known, tables, tokens
  <2> QED BY <2>4, <2>6
<1>11. ASSUME NEW r \in Sessions PROVE SessionInv(r)'
  <2>1. CASE r # s
    BY <1>1, <1>2, <1>3, <1>5, <1>8, <2>1 DEF IInv, SessionInv, Known, Kept, tables, index, tokens, Idle
  <2>2. CASE r = s
    <3>1. login'[s] <= now /\ now' = now
      BY <1>1, <1>5, <1>0, MakingFacts
    <3>2. until'[s] <= Expires(s)' + 1
      BY <1>1, <1>4, <1>5, <1>7, <1>0, MakingFacts, Ranges DEF TaskTimes
    <3>3. s <= sessions' /\ ~Known(s)' /\ s \notin out' /\ s \in Nat /\ sessions' \in Nat
      BY <1>1, <1>0, MakingFacts, Ranges DEF Known, tokens, Sessions
    <3>4. until'[s] > 0 => \/ s \in unlisted'
                           \/ task'[x].at \in {"sadd", "expire"} /\ task'[x].session = s
      BY <1>2, <1>3, <1>5 DEF Idle
    <3> QED BY <2>2, <3>1, <3>2, <3>3, <3>4 DEF SessionInv
  <2> QED BY <2>1, <2>2
<1> QED
  BY <1>6, <1>9, <1>10, <1>11 DEF IInv, Sessions

\* A step of a request on the index alone keeps IInv if every session that was
\* listed, or excused, still is.
LEMMA OnlyIndex ==
  ASSUME IInv, NEW x \in Callers,
         \A y \in Callers : y # x => task'[y] = task[y],
         UNCHANGED <<now, tables, session, tokens, out, overlapped>>,
         TypeOK', TaskTimes(x)', TaskSession(x)', task'[x].at # "rewrite",
         Making(x)' => Making(x) /\ task'[x].session = task[x].session,
         \A r \in Sessions : until[r] > 0 /\ now <= Expires(r) =>
           \/ Kept(r)'
           \/ r \in unlisted' \cup overlapped
           \/ \E y \in Callers : task'[y].at \in {"sadd", "expire"} /\ task'[y].session = r
  PROVE  IInv'
<1>1. ASSUME NEW y \in Callers, y # x PROVE TaskTimes(y)' /\ TaskSession(y)'
  <2>1. TaskTimes(y)'
    BY <1>1 DEF IInv, TaskTimes, Expires, session
  <2>2. TaskSession(y)'
    BY <1>1 DEF IInv, TaskSession, Making, Using, Known, Expires, tables, session, tokens
  <2> QED BY <2>1, <2>2
<1>2. ASSUME NEW r \in Sessions PROVE SessionInv(r)'
  <2>1. SessionInv(r) /\ Expires(r)' = Expires(r)
    BY DEF IInv, Expires, session
  <2> QED BY <2>1 DEF SessionInv, Known, tables, session, tokens
<1> QED
  BY <1>1, <1>2 DEF IInv, Sessions

LEMMA AddMemberInv ==
  ASSUME IInv, NEW x \in Callers, AddMember(x)
  PROVE  IInv'
<1>0. PICK s \in Sessions : s = task[x].session
  BY MakingFacts DEF AddMember
<1> DEFINE u == task[x].account
           expired == now >= setUntil[u]
<1>1. /\ TypeOK /\ task[x].at = "sadd" /\ TaskTimes(x) /\ TaskSession(x)
      /\ u \in Accounts /\ Making(x)
      /\ UNCHANGED <<now, tables, session, tokens, out, overlapped>>
  BY MakingFacts DEF IInv, AddMember, Making
<1>2. PICK o :
        /\ IF o = "err" THEN UNCHANGED index
           ELSE /\ members' = (IF expired THEN {t \in members : owner[t] # u} ELSE members)
                                \cup {s}
                /\ setUntil' = IF expired THEN [setUntil EXCEPT ![u] = Never] ELSE setUntil
        /\ unlisted' = IF o = "ok" THEN unlisted ELSE unlisted \cup {s}
        /\ Step(x, o, "expire")
  BY <1>0 DEF AddMember
<1>3. /\ task' \in [Callers -> Task]
      /\ \A y \in Callers : y # x => task'[y] = task[y]
      /\ \/ task'[x] = Idle /\ o # "ok"
         \/ /\ o = "ok" /\ task'[x].at = "expire"
            /\ task'[x].kind = task[x].kind /\ task'[x].account = u
            /\ task'[x].session = s /\ task'[x].since = task[x].since
            /\ task'[x].time = task[x].time /\ task'[x].ttl = task[x].ttl
  BY <1>0, <1>1, <1>2, AfterStep DEF Steps
<1>4. TypeOK'
  <2>1. members' \subseteq Sessions /\ setUntil' \in [Accounts -> Time] /\ unlisted' \subseteq Sessions
    BY <1>0, <1>1, <1>2, Ranges DEF TypeOK, index
  <2>2. \A y \in Callers : task'[y].at \in {"setex", "rewrite"} => task'[y].ttl > 0
    BY <1>1, <1>3 DEF TypeOK, Idle
  <2> QED BY <1>1, <1>3, <2>1, <2>2 DEF TypeOK, tables, session, tokens
<1>5. /\ TaskTimes(x)' /\ TaskSession(x)' /\ task'[x].at # "rewrite"
      /\ Making(x)' => task'[x].session = task[x].session
  <2>1. CASE task'[x] = Idle
    BY <1>1, <2>1, IdleHoldsNothing DEF Idle
  <2>2. CASE task'[x].at = "expire"
    <3>1. TaskTimes(x)'
      BY <1>1, <1>3, <2>2 DEF TaskTimes, Idle
    <3>2. \A y \in Callers : y # x => Making(y)' = Making(y)
      BY <1>3 DEF Making
    <3>3. TaskSession(x)'
      BY <1>0, <1>1, <1>3, <2>2, <3>2
         DEF TaskSession, Making, Using, Known, Expires, Idle, tables, session, tokens
    <3> QED BY <1>0, <1>3, <2>2, <3>1, <3>3 DEF Idle
  <2> QED BY <1>3, <2>1, <2>2
<1>6. ASSUME NEW r \in Sessions, until[r] > 0, now <= Expires(r)
      PROVE  \/ Kept(r)'
             \/ r \in unlisted' \cup overlapped
             \/ \E y \in Callers : task'[y].at \in {"sadd", "expire"} /\ task'[y].session = r
  <2>1. CASE r = s
    BY <1>2, <1>3, <2>1
  <2>2. CASE r # s /\ Kept(r)
    <3>1. /\ Expires(r) \in Nat /\ now \in Nat /\ setUntil[owner[r]] \in Nat
          /\ owner[r] \in Accounts /\ Expires(r)' = Expires(r) /\ owner' = owner
      BY <1>1, Ranges DEF TypeOK, Expires, session
    <3>2. Expires(r) < setUntil[owner[r]]
      BY <2>2 DEF Kept
    <3>3. expired => owner[r] # u
      BY <1>1, <1>6, <3>1, <3>2
    <3>4. r \in members' /\ setUntil'[owner[r]] = setUntil[owner[r]]
      BY <1>1, <1>2, <2>2, <3>1, <3>3 DEF Kept, TypeOK, index
    <3> QED BY <2>2, <3>1, <3>4 DEF Kept
  <2>3. CASE r # s /\ r \in unlisted \cup overlapped
    BY <1>2, <2>3
  <2>4. CASE r # s /\ \E y \in Callers : task[y].at \in {"sadd", "expire"} /\ task[y].session = r
    BY <1>0, <1>3, <2>4
  <2> QED BY <1>6, <2>1, <2>2, <2>3, <2>4 DEF IInv, SessionInv
<1> QED
  BY <1>1, <1>3, <1>4, <1>5, <1>6, OnlyIndex

LEMMA ExpireSetInv ==
  ASSUME IInv, NEW x \in Callers, ExpireSet(x)
  PROVE  IInv'
<1>0. PICK s \in Sessions : s = task[x].session
  BY MakingFacts DEF ExpireSet
<1> DEFINE u == task[x].account
           ttl == task[x].ttl
           missed == now >= setUntil[u]
<1>1. /\ TypeOK /\ task[x] \in Task /\ task[x].at = "expire" /\ TaskTimes(x) /\ TaskSession(x)
      /\ u \in Accounts /\ Making(x) /\ ttl \in Nat /\ ttl <= SessionLife /\ SessionLife <= ttl + 1
      /\ UNCHANGED <<now, tables, session, members, tokens, out, overlapped>>
  BY MakingFacts DEF IInv, ExpireSet, Making
<1>2. PICK o :
        /\ setUntil' = IF o = "err" \/ missed THEN setUntil
                       ELSE [setUntil EXCEPT ![u] = now + ttl + Slack]
        /\ unlisted' = IF o = "err" \/ missed \/ s \notin members
                       THEN unlisted \cup {s} ELSE unlisted
        /\ IF o = "ok" THEN task' = [task EXCEPT ![x].at = "announce", ![x].time = now]
           ELSE End(x)
  BY <1>0 DEF ExpireSet
<1>3. /\ task' \in [Callers -> Task]
      /\ \A y \in Callers : y # x => task'[y] = task[y]
      /\ \/ task'[x] = Idle
         \/ /\ task'[x].at = "announce" /\ task'[x].time = now
            /\ task'[x].kind = task[x].kind /\ task'[x].account = u
            /\ task'[x].session = s /\ task'[x].since = task[x].since
  <2>1. CASE o = "ok"
    <3> DEFINE t == [task[x] EXCEPT !.at = "announce", !.time = now]
    <3>1. t \in Task /\ task' = [task EXCEPT ![x] = t]
      BY <1>1, <1>2, <2>1, Ranges DEF TypeOK, Task, Steps
    <3>2. /\ t.at = "announce" /\ t.time = now /\ t.kind = task[x].kind
          /\ t.account = u /\ t.session = s /\ t.since = task[x].since
      BY <1>0, <1>1 DEF Task
    <3> HIDE DEF t
    <3> QED BY <1>1, <3>1, <3>2 DEF TypeOK
  <2>2. CASE o # "ok"
    BY <1>1, <1>2, <2>2, IdleIsTask DEF TypeOK, End
  <2> QED BY <2>1, <2>2
<1>4. TypeOK'
  <2>1. setUntil' \in [Accounts -> Time] /\ unlisted' \subseteq Sessions
    <3>1. now + ttl + Slack \in Time
      BY <1>1, Ranges
    <3> QED BY <1>0, <1>1, <1>2, <3>1 DEF TypeOK
  <2>2. \A y \in Callers : task'[y].at \in {"setex", "rewrite"} => task'[y].ttl > 0
    BY <1>1, <1>3 DEF TypeOK, Idle
  <2> QED BY <1>1, <1>3, <2>1, <2>2 DEF TypeOK, tables, session, tokens
<1>5. /\ TaskTimes(x)' /\ TaskSession(x)' /\ task'[x].at # "rewrite"
      /\ Making(x)' => task'[x].session = task[x].session
  <2>1. CASE task'[x] = Idle
    BY <1>1, <2>1, IdleHoldsNothing DEF Idle
  <2>2. CASE task'[x].at = "announce"
    <3>1. TaskTimes(x)'
      BY <1>1, <1>3, <2>2, Ranges DEF TaskTimes, Idle
    <3>2. \A y \in Callers : y # x => Making(y)' = Making(y)
      BY <1>3 DEF Making
    <3>3. TaskSession(x)'
      BY <1>0, <1>1, <1>3, <2>2, <3>2
         DEF TaskSession, Making, Using, Known, Expires, Idle, tables, session, tokens
    <3> QED BY <1>0, <1>3, <2>2, <3>1, <3>3 DEF Idle
  <2> QED BY <1>3, <2>1, <2>2
<1>6. ASSUME NEW r \in Sessions, until[r] > 0, now <= Expires(r)
      PROVE  \/ Kept(r)'
             \/ r \in unlisted' \cup overlapped
             \/ \E y \in Callers : task'[y].at \in {"sadd", "expire"} /\ task'[y].session = r
  <2>1. /\ Expires(r) \in Nat /\ now \in Nat /\ setUntil[owner[r]] \in Nat
        /\ owner[r] \in Accounts /\ Expires(r)' = Expires(r) /\ owner' = owner
        /\ login[r] \in Nat /\ login[r] <= now
    BY <1>1, Ranges DEF IInv, SessionInv, TypeOK, Expires, session
  <2>2. Expires(r) < now + ttl + Slack
    BY <1>1, <2>1, Ranges DEF Expires
  <2>3. CASE Kept(r)
    <3>1. Expires(r) < setUntil'[owner[r]]
      BY <1>1, <1>2, <2>1, <2>2, <2>3 DEF Kept, TypeOK
    <3> QED BY <1>1, <2>1, <2>3, <3>1 DEF Kept
  <2>4. CASE r \in unlisted \cup overlapped
    BY <1>2, <2>4
  <2>5. CASE \E y \in Callers : task[y].at \in {"sadd", "expire"} /\ task[y].session = r
    <3>1. CASE r # s
      BY <1>0, <1>3, <2>5, <3>1
    <3>2. CASE r = s /\ r \notin unlisted'
      <4>1. /\ setUntil' = [setUntil EXCEPT ![u] = now + ttl + Slack]
            /\ s \in members
        BY <1>2, <3>2
      <4>2. owner[s] = u
        BY <1>0, <1>1 DEF TaskSession
      <4> QED BY <1>1, <2>1, <2>2, <3>2, <4>1, <4>2 DEF Kept, TypeOK
    <3> QED BY <3>1, <3>2
  <2> QED BY <1>6, <2>3, <2>4, <2>5 DEF IInv, SessionInv
<1> QED
  BY <1>1, <1>3, <1>4, <1>5, <1>6, OnlyIndex

LEMMA HandOutInv ==
  ASSUME IInv, NEW x \in Callers, HandOut(x)
  PROVE  IInv'
<1>1. Making(x) /\ TypeOK /\ task[x] \in Task /\ TaskSession(x)
  BY DEF HandOut, Making, IInv, TypeOK
<1>2. PICK s \in Sessions : s = task[x].session
  BY <1>1, HasSession
<1>3. /\ s <= sessions /\ s \in 1 .. sessions /\ ~Known(s) /\ s \notin out
      /\ owner[s] = task[x].account /\ owner[s] \in users /\ owner[s] \in connections
      /\ Expires(s) <= until[s] /\ task[x].time \in Time /\ task[x].time <= now
      /\ \A y \in Callers : y # x /\ (Making(y) \/ Using(y)) => task[y].session # s
  <2>1. s \in 1 .. sessions /\ sessions \in Nat
    BY <1>1, <1>2, Ranges DEF TaskSession
  <2>2. \A y \in Callers : y # x /\ (Making(y) \/ Using(y)) => task[y].session # s
    BY <1>1, <1>2 DEF IInv, TaskSession
  <2> QED
    BY <1>1, <1>2, <2>1, <2>2 DEF HandOut, TaskSession, TaskTimes, IInv, Task
<1>4. /\ task' \in [Callers -> Task] /\ task'[x] = Idle
      /\ \A y \in Callers : y # x => task'[y] = task[y]
      /\ UNCHANGED <<now, tables, session, index, history>>
  BY <1>1, IdleIsTask DEF HandOut, End, TypeOK
<1>5. /\ access' \in [Sessions -> Time] /\ refresh' \in [Sessions -> Time]
      /\ \A r \in Sessions : r # s => access'[r] = access[r] /\ refresh'[r] = refresh[r]
  <2>1. task[x].time + AccessLife \in Time /\ task[x].time + RefreshLife \in Time
    BY <1>1, <1>3, Ranges
  <2> QED BY <1>1, <1>2, <2>1 DEF HandOut, TypeOK, tokens
<1>6. TypeOK'
  BY <1>1, <1>4, <1>5 DEF TypeOK, tables, session, index, history, Idle
<1>7. TaskTimes(x)' /\ TaskSession(x)' /\ ~Making(x)' /\ ~Using(x)'
  BY <1>1, <1>4, IdleHoldsNothing
<1>8. ASSUME NEW y \in Callers, y # x PROVE TaskTimes(y)' /\ TaskSession(y)'
  <2>1. TaskTimes(y)'
    BY <1>4, <1>8 DEF IInv, TaskTimes, Expires, session
  <2>2. Making(y) \/ Using(y) => task[y].session \in Sessions /\ task[y].session # s
    BY <1>3, <1>8, HasSession
  <2>3. TaskSession(y)'
    BY <1>4, <1>5, <1>7, <1>8, <2>2
       DEF IInv, TaskSession, Making, Using, Known, Expires, tables, session, history
  <2> QED BY <2>1, <2>3
<1>9. ASSUME NEW r \in Sessions PROVE SessionInv(r)'
  <2>1. SessionInv(r) /\ Expires(r)' = Expires(r) /\ (r # s => Known(r)' = Known(r))
    BY <1>4, <1>5 DEF IInv, Expires, session, Known
  <2>2. task[x].at = "announce" /\ Idle.at = "idle"
    BY DEF HandOut, Idle
  <2>3. CASE r # s
    BY <1>4, <2>1, <2>2, <2>3 DEF SessionInv, Kept, tables, session, index, history
  <2>4. CASE r = s
    BY <1>1, <1>3, <1>4, <2>1, <2>2, <2>4, Ranges DEF SessionInv, Kept, tables, session, index, history
  <2> QED BY <2>3, <2>4
<1> QED
  BY <1>6, <1>7, <1>8, <1>9 DEF IInv, Sessions

-----------------------------------------------------------------------------
(* Refreshing and logging out                                               *)

\* Facts about a request that uses a session.
LEMMA UsingFacts ==
  ASSUME IInv, NEW x \in Callers, Using(x)
  PROVE  /\ TypeOK /\ task[x] \in Task /\ task[x].session \in Sessions
         /\ Known(task[x].session) /\ task[x].kind # "login" /\ ~Making(x)
         /\ \A y \in Callers : Making(y) => task[y].session # task[x].session
         /\ task[x].session <= sessions /\ SessionInv(task[x].session)
<1>1. TypeOK /\ task[x] \in Task /\ TaskSession(x)
  BY DEF IInv, TypeOK
<1>2. /\ task[x].session \in Sessions /\ Known(task[x].session) /\ task[x].kind # "login"
      /\ ~Making(x)
  BY <1>1 DEF TaskSession, Using, Making
<1>3. ASSUME NEW y \in Callers, Making(y) PROVE task[y].session # task[x].session
  BY <1>2, <1>3 DEF IInv, TaskSession
<1>4. SessionInv(task[x].session) /\ task[x].session <= sessions
  BY <1>1, <1>2, Ranges DEF IInv, SessionInv, Sessions
<1> QED BY <1>1, <1>2, <1>3, <1>4

LEMMA RewriteInv ==
  ASSUME IInv, NEW x \in Callers, Rewrite(x)
  PROVE  IInv'
<1>1. Using(x) /\ task[x].at = "rewrite"
  BY DEF Rewrite, Using
<1>2. PICK s \in Sessions : s = task[x].session
  BY <1>1, UsingFacts
<1> DEFINE ttl == task[x].ttl
<1>3. /\ TypeOK /\ ttl \in Nat /\ ttl <= SessionLife /\ ttl > 0
      /\ Known(s) /\ SessionInv(s) /\ s \notin out \ overlapped /\ s <= sessions
      /\ \A y \in Callers : Making(y) => task[y].session # s
      /\ now <= task[x].since + 1 /\ task[x].since \in Nat /\ Expires(s) \in Nat
      /\ Expires(s) <= now + ttl /\ task[x].since + ttl <= Expires(s)
  <2>1. TypeOK /\ task[x] \in Task /\ TaskTimes(x)
    BY DEF IInv, TypeOK
  <2>2. ttl \in Nat /\ ttl <= SessionLife /\ ttl > 0 /\ task[x].since \in Nat
    BY <1>1, <2>1, Ranges DEF Task, TypeOK
  <2>3. Expires(s) \in Nat
    BY <2>1, Ranges DEF TypeOK, Expires
  <2>4. s \notin out \ overlapped
    BY <1>1, <1>2 DEF IInv, SessionInv
  <2> QED BY <1>1, <1>2, <2>1, <2>2, <2>3, <2>4, UsingFacts DEF TaskTimes
<1>4. PICK o :
        /\ until' = IF o = "err" THEN until ELSE [until EXCEPT ![s] = now + ttl]
        /\ access' = IF o = "ok" THEN [access EXCEPT ![s] = now + AccessLife] ELSE access
  BY <1>2 DEF Rewrite
<1>5. /\ task' \in [Callers -> Task] /\ task'[x] = Idle
      /\ \A y \in Callers : y # x => task'[y] = task[y]
      /\ UNCHANGED <<now, tables, owner, login, sessions, index, refresh, history>>
  BY <1>3, IdleIsTask DEF Rewrite, End, TypeOK
<1>6. now + ttl \in Time /\ now + AccessLife \in Time /\ now \in Nat /\ now + AccessLife > 0
  BY <1>3, Ranges
<1>7. TypeOK'
  BY <1>3, <1>4, <1>5, <1>6 DEF TypeOK, tables, index, history, Idle
<1>8. \A r \in Sessions : /\ Expires(r)' = Expires(r)
                          /\ Known(r)' = Known(r)
                          /\ r # s => until'[r] = until[r]
  BY <1>3, <1>4, <1>5, <1>6 DEF TypeOK, Expires, Known
<1>9. TaskTimes(x)' /\ TaskSession(x)' /\ ~Making(x)'
  BY <1>3, <1>5, IdleHoldsNothing
<1>10. ASSUME NEW y \in Callers, y # x PROVE TaskTimes(y)' /\ TaskSession(y)'
  <2>1. TaskTimes(y)'
    BY <1>5, <1>10 DEF IInv, TaskTimes, Expires
  <2>2. Making(y) \/ Using(y) => task[y].session \in Sessions
    BY HasSession
  <2>3. TaskSession(y)'
    <3>1. TaskSession(y) /\ Making(y)' = Making(y) /\ Using(y)' = Using(y) /\ task'[y] = task[y]
      BY <1>5, <1>10 DEF IInv, Making, Using
    <3>2. \A z \in Callers : Making(z)' => Making(z) /\ task'[z] = task[z]
      BY <1>5, <1>9 DEF Making
    <3> QED
      BY <1>3, <1>5, <1>8, <2>2, <3>1, <3>2 DEF TaskSession, tables, history
  <2> QED BY <2>1, <2>3
<1>11. ASSUME NEW r \in Sessions PROVE SessionInv(r)'
  <2>1. /\ SessionInv(r) /\ Expires(r)' = Expires(r) /\ Known(r)' = Known(r) /\ Idle.at = "idle"
        /\ Kept(r)' = Kept(r)
    BY <1>5, <1>8 DEF IInv, Idle, Kept, index
  <2>2. \A y \in Callers : task'[y].at \in {"sadd", "expire", "rewrite"} => task'[y] = task[y]
    BY <1>5, <2>1
  <2>3. \A y \in Callers : task[y].at \in {"sadd", "expire"} => task'[y] = task[y]
    BY <1>1, <1>5
  <2>4. CASE r # s
    BY <1>5, <1>8, <2>1, <2>2, <2>3, <2>4 DEF SessionInv, tables, history
  <2>5. CASE r = s
    <3>1. until'[s] \in {until[s], now + ttl}
      BY <1>3, <1>4 DEF TypeOK
    <3>2. login'[s] <= now' /\ until'[s] <= Expires(s)' + 1
      BY <1>3, <1>5, <1>6, <2>1, <2>5, <3>1 DEF SessionInv
    <3>3. Known(s)' => /\ owner'[s] \in users' /\ owner'[s] \in connections'
                       /\ s \in out' \/ Expires(s)' <= until'[s]
      BY <1>3, <1>5, <2>1, <2>5, <3>1 DEF SessionInv, tables, history
    <3>4. until[s] > 0 \/ s \in overlapped
      <4>1. s \in out \/ Expires(s) <= until[s]
        BY <1>3 DEF SessionInv
      <4>2. Expires(s) > 0
        BY <1>3, <1>6, Ranges
      <4> QED BY <1>3, <4>1, <4>2, <2>5, Ranges DEF TypeOK, Time
    <3>5. until'[s] > 0 /\ now' <= Expires(s)' =>
            \/ Kept(s)'
            \/ s \in unlisted' \cup overlapped'
            \/ \E y \in Callers : task'[y].at \in {"sadd", "expire"} /\ task'[y].session = s
      BY <1>3, <1>5, <2>1, <2>3, <2>5, <3>4 DEF SessionInv, history
    <3>6. s <= sessions' /\ sessions' \in Nat /\ s \in Nat
      BY <1>3, <1>5, Ranges DEF Sessions
    <3>7. s \notin out' \ overlapped'
      BY <1>3, <1>5 DEF history
    <3> QED BY <2>5, <3>2, <3>3, <3>5, <3>6, <3>7 DEF SessionInv
  <2> QED BY <2>4, <2>5
<1> QED
  BY <1>7, <1>9, <1>10, <1>11 DEF IInv, Sessions

LEMMA DeleteInv ==
  ASSUME IInv, NEW x \in Callers, Delete(x)
  PROVE  IInv'
<1>1. Using(x) /\ task[x].at = "delete"
  BY DEF Delete, Using
<1>2. PICK s \in Sessions : s = task[x].session
  BY <1>1, UsingFacts
<1>3. /\ TypeOK /\ TaskTimes(x) /\ TaskSession(x) /\ ~Making(x)
      /\ Known(s) /\ SessionInv(s) /\ s <= sessions /\ task[x].kind # "login"
      /\ \A y \in Callers : Making(y) => task[y].session # s
      /\ UNCHANGED <<now, tables, owner, login, sessions, index, tokens, unlisted>>
  BY <1>1, <1>2, UsingFacts DEF IInv, Delete
<1>4. PICK o :
        /\ IF o = "err" THEN UNCHANGED <<until, out, overlapped>>
           ELSE /\ until' = [until EXCEPT ![s] = 0]
                /\ out' = out \cup {s}
                /\ overlapped' =
                     IF \E y \in Callers : task[y].at = "rewrite" /\ task[y].session = s
                     THEN overlapped \cup {s} ELSE overlapped
        /\ Step(x, o, IF task[x].found THEN "srem" ELSE "announce")
  BY <1>2 DEF Delete
<1>5. /\ task' \in [Callers -> Task]
      /\ \A y \in Callers : y # x => task'[y] = task[y]
      /\ \/ task'[x] = Idle /\ o # "ok"
         \/ /\ o = "ok" /\ task'[x].at \in {"srem", "announce"}
            /\ task'[x].kind = task[x].kind /\ task'[x].account = task[x].account
            /\ task'[x].session = s /\ task'[x].since = task[x].since
            /\ task'[x].time = task[x].time
  BY <1>2, <1>3, <1>4, AfterStep DEF Steps
<1>6. CASE o = "err"
  <2>1. End(x)
    BY <1>4, <1>6 DEF Step
  <2> QED
    BY <1>1, <1>3, <1>4, <1>6, <2>1, Ends DEF tables, session, IInv, TypeOK
<1>7. CASE o # "err"
  <2>1. /\ until' = [until EXCEPT ![s] = 0]
        /\ out' = out \cup {s}
        /\ overlapped \subseteq overlapped' /\ overlapped' \subseteq overlapped \cup {s}
        /\ s \notin overlapped' => \A y \in Callers : task[y].at = "rewrite" => task[y].session # s
    BY <1>4, <1>7
  <2>2. TypeOK'
    <3>1. 0 \in Time
      BY <1>3, Ranges
    <3>2. \A y \in Callers : task'[y].at \in {"setex", "rewrite"} => task'[y].ttl > 0
      BY <1>3, <1>5 DEF TypeOK, Idle
    <3> QED BY <1>3, <1>5, <2>1, <3>1, <3>2 DEF TypeOK, tables, index, tokens
  <2>3. \A r \in Sessions : Expires(r)' = Expires(r) /\ Known(r)' = Known(r) /\ Kept(r)' = Kept(r)
    BY <1>3 DEF Expires, Known, Kept, tokens, index
  <2>4. TaskTimes(x)' /\ TaskSession(x)' /\ ~Making(x)'
    <3>1. CASE task'[x] = Idle
      BY <1>3, <3>1, IdleHoldsNothing
    <3>2. CASE task'[x].at \in {"srem", "announce"}
      <4>1. TaskTimes(x)'
        BY <1>1, <1>3, <1>5, <3>2 DEF TaskTimes, Idle
      <4>2. ~Making(x)'
        BY <1>3, <1>5, <3>2 DEF Making, Idle
      <4>3. TaskSession(x)'
        BY <1>3, <1>5, <2>1, <2>3, <3>2, <4>2 DEF TaskSession, Making, Using, Idle
      <4> QED BY <4>1, <4>2, <4>3
    <3> QED BY <1>5, <3>1, <3>2
  <2>5. ASSUME NEW y \in Callers, y # x PROVE TaskTimes(y)' /\ TaskSession(y)'
    <3>1. /\ TaskTimes(y) /\ TaskSession(y) /\ task'[y] = task[y]
          /\ Making(y)' = Making(y) /\ Using(y)' = Using(y)
      BY <1>5, <2>5 DEF IInv, Making, Using
    <3>2. TaskTimes(y)'
      BY <1>3, <3>1 DEF TaskTimes, Expires
    <3>3. \A z \in Callers : Making(z)' => Making(z) /\ task'[z] = task[z]
      BY <1>5, <2>4 DEF Making
    <3>4. Making(y) \/ Using(y) => task[y].session \in Sessions
      BY HasSession
    <3>5. Making(y) => task[y].session # s /\ until'[task[y].session] = until[task[y].session]
      BY <1>3, <2>1, <3>4 DEF TypeOK
    <3>6. TaskSession(y)'
      BY <1>3, <2>1, <2>3, <3>1, <3>3, <3>4, <3>5 DEF TaskSession, tables
    <3> QED BY <3>2, <3>6
  <2>6. ASSUME NEW r \in Sessions PROVE SessionInv(r)'
    <3>1. /\ SessionInv(r) /\ Expires(r)' = Expires(r) /\ Known(r)' = Known(r) /\ Idle.at = "idle"
          /\ Kept(r)' = Kept(r)
      BY <2>3 DEF IInv, Idle
    <3>2. \A y \in Callers : task'[y].at \in {"sadd", "expire", "rewrite"} => task'[y] = task[y]
      BY <1>5, <3>1
    <3>3. \A y \in Callers : task[y].at \in {"sadd", "expire"} => task'[y] = task[y]
      BY <1>1, <1>5
    <3>4. CASE r # s
      <4>1. until'[r] = until[r] /\ (r \in out' <=> r \in out) /\ (r \in overlapped' <=> r \in overlapped)
        BY <1>3, <2>1, <3>4 DEF TypeOK
      <4> QED
        BY <1>3, <3>1, <3>2, <3>3, <4>1 DEF SessionInv, tables
    <3>5. CASE r = s
      <4>1. until'[s] = 0 /\ s \in out' /\ Expires(s) \in Nat
        BY <1>3, <2>1, Ranges DEF TypeOK, Expires
      <4>2. s \notin overlapped' => \A y \in Callers : task'[y].at = "rewrite" => task'[y].session # s
        BY <2>1, <3>2
      <4>3. s <= sessions' /\ sessions' \in Nat /\ s \in Nat
        BY <1>3, Ranges DEF Sessions
      <4> QED
        BY <1>3, <3>1, <3>5, <4>1, <4>2, <4>3 DEF SessionInv, tables
    <3> QED BY <3>4, <3>5
  <2> QED
    BY <2>2, <2>4, <2>5, <2>6 DEF IInv, Sessions
<1> QED BY <1>6, <1>7

LEMMA RemoveMemberInv ==
  ASSUME IInv, NEW x \in Callers, RemoveMember(x)
  PROVE  IInv'
<1>1. Using(x) /\ task[x].at = "srem"
  BY DEF RemoveMember, Using
<1>2. PICK s \in Sessions : s = task[x].session
  BY <1>1, UsingFacts
<1>3. /\ TypeOK /\ TaskTimes(x) /\ TaskSession(x) /\ ~Making(x)
      /\ Known(s) /\ task[x].kind # "login" /\ s \in out /\ SessionInv(s)
      /\ UNCHANGED <<now, tables, session, setUntil, tokens, history>>
  BY <1>1, <1>2, UsingFacts DEF IInv, RemoveMember, TaskSession
<1>4. PICK o : /\ members' = IF o = "err" THEN members ELSE members \ {s}
               /\ Step(x, o, "announce")
  BY <1>2 DEF RemoveMember
<1>5. /\ task' \in [Callers -> Task]
      /\ \A y \in Callers : y # x => task'[y] = task[y]
      /\ \/ task'[x] = Idle
         \/ /\ task'[x].at = "announce"
            /\ task'[x].kind = task[x].kind /\ task'[x].account = task[x].account
            /\ task'[x].session = s /\ task'[x].since = task[x].since
            /\ task'[x].time = task[x].time
  BY <1>2, <1>3, <1>4, AfterStep DEF Steps
<1>6. TypeOK'
  <2>1. \A y \in Callers : task'[y].at \in {"setex", "rewrite"} => task'[y].ttl > 0
    BY <1>3, <1>5 DEF TypeOK, Idle
  <2> QED BY <1>3, <1>4, <1>5, <2>1 DEF TypeOK, tables, session, tokens, history
<1>7. TaskTimes(x)' /\ TaskSession(x)' /\ ~Making(x)' /\ task'[x].at # "rewrite"
  <2>1. CASE task'[x] = Idle
    BY <1>3, <2>1, IdleHoldsNothing DEF Idle
  <2>2. CASE task'[x].at = "announce"
    <3>1. TaskTimes(x)'
      BY <1>1, <1>3, <1>5, <2>2 DEF TaskTimes, Idle
    <3>2. ~Making(x)'
      BY <1>3, <1>5, <2>2 DEF Making, Idle
    <3>3. TaskSession(x)'
      BY <1>3, <1>5, <2>2, <3>2 DEF TaskSession, Making, Using, Known, Idle, tables, tokens
    <3> QED BY <2>2, <3>1, <3>2, <3>3
  <2> QED BY <1>5, <2>1, <2>2
<1>8. ASSUME NEW r \in Sessions, until[r] > 0, now <= Expires(r)
      PROVE  \/ Kept(r)'
             \/ r \in unlisted' \cup overlapped
             \/ \E y \in Callers : task'[y].at \in {"sadd", "expire"} /\ task'[y].session = r
  <2>1. SessionInv(r) /\ Expires(r)' = Expires(r) /\ unlisted' = unlisted
    BY <1>3 DEF IInv, Expires, session, history
  <2>2. \A y \in Callers : task[y].at \in {"sadd", "expire"} => task'[y] = task[y]
    BY <1>1, <1>5
  <2>3. CASE r # s
    BY <1>3, <1>4, <1>8, <2>1, <2>2, <2>3 DEF SessionInv, Kept, session
  <2>4. CASE r = s
    BY <1>3, <1>8, <2>4 DEF SessionInv
  <2> QED BY <2>3, <2>4
<1> QED
  BY <1>3, <1>5, <1>6, <1>7, <1>8, OnlyIndex DEF history

-----------------------------------------------------------------------------
LEMMA InitInv == Init => IInv
<1> SUFFICES ASSUME Init PROVE IInv
  OBVIOUS
<1>1. (CHOOSE a \in Accounts : TRUE) \in Accounts
  BY SomeAccount
<1>2. 0 \in Time /\ 0 \in Nat
  BY LivesAreNat, BoundsAreNat DEF Time, Never
<1>3. Idle.at = "idle" /\ Idle.since = 0 /\ Idle.time = 0 /\ Idle.kind = "none"
  BY DEF Idle
<1>4. TypeOK
  <2>1. owner \in [Sessions -> Accounts] /\ task \in [Callers -> Task]
    BY <1>1, IdleIsTask DEF Init
  <2>2. \A x \in Callers : task[x].at = "idle"
    BY <1>3 DEF Init
  <2>3. now \in 0 .. MaxTime /\ sessions \in 0 .. MaxSessions
    BY BoundsAreNat DEF Init
  <2> QED BY <1>2, <2>1, <2>2, <2>3 DEF Init, TypeOK
<1>5. ASSUME NEW x \in Callers PROVE TaskTimes(x) /\ TaskSession(x)
  BY <1>3 DEF Init, TaskTimes, TaskSession, Making, Using
<1>6. ASSUME NEW s \in Sessions PROVE SessionInv(s)
  BY <1>3, LivesAreNat DEF Init, SessionInv, Known, Expires
<1> QED BY <1>4, <1>5, <1>6 DEF IInv

LEMMA NextInv == IInv /\ [Next]_vars => IInv'
<1> SUFFICES ASSUME IInv, [Next]_vars PROVE IInv'
  OBVIOUS
<1>1. CASE UNCHANGED vars
  <2>1. TypeOK'
    BY <1>1 DEF IInv, TypeOK, vars, tables, session, index, tokens, history
  <2>2. ASSUME NEW x \in Callers PROVE TaskTimes(x)' /\ TaskSession(x)'
    BY <1>1 DEF IInv, TaskTimes, TaskSession, Making, Using, Known, Expires,
                vars, tables, session, index, tokens, history
  <2>3. ASSUME NEW s \in Sessions PROVE SessionInv(s)'
    BY <1>1 DEF IInv, SessionInv, Known, Expires, Kept,
                vars, tables, session, index, tokens, history
  <2> QED BY <2>1, <2>2, <2>3 DEF IInv, Sessions
<1>2. ASSUME NEW x \in Callers, NEW a \in Accounts, Callback(x, a) PROVE IInv'
  BY <1>2, CallbackInv
<1>3. ASSUME NEW x \in Callers, NEW s \in Sessions, Refresh(x, s) \/ Logout(x, s) PROVE IInv'
  <2>1. Known(s)
    BY <1>3, Ranges DEF Refresh, Logout, RefreshValid, AccessValid, Known, IInv, TypeOK
  <2> QED BY <1>3, <2>1, ArriveInv DEF Refresh, Logout
<1>4. ASSUME NEW x \in Callers, Work(x) PROVE IInv'
  BY <1>4, ExchangeInv, FindInv, InsertInv, TouchInv, ConnectInv, CreateInv, AddMemberInv,
     ExpireSetInv, HandOutInv, GetSessionInv, RereadInv, RewriteInv, DeleteInv,
     RemoveMemberInv, FarewellInv DEF Work
<1>5. ASSUME NEW x \in Callers, Crash(x) PROVE IInv'
  BY <1>5, CrashInv
<1>6. CASE Tick
  BY <1>6, TickInv
<1> QED
  BY <1>1, <1>2, <1>3, <1>4, <1>5, <1>6 DEF Next

\* IInv holds in every behaviour of the service, for every number of accounts,
\* requests, sign-ins and calls that may fail.
THEOREM Invariance == Spec => []IInv
  BY InitInv, NextInv, PTL DEF Spec

\* The variables keep their types.
THEOREM TypeCorrect == Spec => []TypeOK
<1>1. IInv => TypeOK
  BY DEF IInv
<1> QED BY <1>1, Invariance, PTL

\* A refresh keeps a session but never prolongs it past its 30 days and one
\* tick.
THEOREM SessionsEnd == Spec => []SessionEnds
<1>1. IInv => SessionEnds
  BY DEF IInv, SessionEnds, SessionInv
<1> QED BY <1>1, Invariance, PTL

\* A token handed out is honoured until it or its session expires or a logout
\* deletes the session: the rows of its user and the session are there.
THEOREM HandedOutTokensServe == Spec => []TokensServe
<1>1. IInv => TokensServe
  <2> SUFFICES ASSUME IInv, NEW s \in Sessions
               PROVE  /\ now < access[s] => GitHubTokenAnswer(s) = 200
                      /\ now < Expires(s) /\ s \notin out =>
                           /\ now < access[s] => MeAnswer(s) = 200
                           /\ now < refresh[s] => Live(s)
    BY DEF TokensServe
  <2>1. /\ now \in Nat /\ access[s] \in Nat /\ refresh[s] \in Nat
        /\ Expires(s) \in Nat /\ until[s] \in Nat
    BY Ranges DEF IInv, TypeOK, Expires
  <2>2. now < access[s] \/ now < refresh[s] => Known(s)
    BY <2>1 DEF Known
  <2>3. Known(s) => /\ owner[s] \in users /\ owner[s] \in connections
                    /\ s \in out \/ Expires(s) <= until[s]
    BY DEF IInv, SessionInv
  <2>4. now < access[s] => GitHubTokenAnswer(s) = 200
    BY <2>2, <2>3 DEF GitHubTokenAnswer, GetGitHubToken, GetByUserAndProvider, AccessValid
  <2>5. Known(s) /\ now < Expires(s) /\ s \notin out => Live(s)
    BY <2>1, <2>3 DEF Live
  <2> QED
    BY <2>2, <2>3, <2>4, <2>5 DEF MeAnswer, GetUser, AccessValid
<1> QED BY <1>1, Invariance, PTL

\* A session a logout deleted comes back only by the one refresh that had read
\* it for the second time before.
THEOREM LoggedOutStay == Spec => []LoggedOutStaysOut
<1>1. IInv => LoggedOutStaysOut
  <2> SUFFICES ASSUME IInv, NEW s \in out, s \notin overlapped PROVE ~Live(s)
    BY DEF LoggedOutStaysOut
  <2>1. s \in Sessions /\ now \in Nat
    BY Ranges DEF IInv, TypeOK
  <2>2. until[s] = 0
    BY <2>1 DEF IInv, SessionInv
  <2> QED BY <2>1, <2>2 DEF Live
<1> QED BY <1>1, Invariance, PTL

\* Every live session is in the set of its user, but for the exceptions
\* LiveIsListed names: the set's extra hour outlasts two requests.
THEOREM LiveSessionsAreListed == Spec => []LiveIsListed
<1>1. IInv => LiveIsListed
  <2> SUFFICES ASSUME IInv, NEW s \in Sessions, Live(s)
               PROVE  \/ Listed(s)
                      \/ s \in unlisted \cup overlapped
                      \/ \E x \in Callers : task[x].at \in {"sadd", "expire"} /\ task[x].session = s
    BY DEF LiveIsListed
  <2>1. /\ now \in Nat /\ until[s] \in Nat /\ Expires(s) \in Nat /\ setUntil[owner[s]] \in Nat
        /\ SessionInv(s)
    BY Ranges DEF IInv, TypeOK, Expires
  <2>2. until[s] > 0 /\ now <= Expires(s)
    BY <2>1 DEF Live, SessionInv
  <2>3. Kept(s) => Listed(s)
    BY <2>1, <2>2 DEF Kept, Listed
  <2> QED BY <2>1, <2>2, <2>3 DEF SessionInv
<1> QED BY <1>1, Invariance, PTL

\* Only a refresh beside the logout brings a session back: where requests come
\* one at a time, a session that was logged out stays out.
THEOREM OneAtATimeStayOut ==
  ASSUME NEW c, Callers = {c}
  PROVE  Spec => [](\A s \in out : ~Live(s))
<1>1. Init => overlapped = {}
  BY DEF Init
<1>2. overlapped = {} /\ [Next]_vars => (overlapped = {})'
  <2> SUFFICES ASSUME overlapped = {}, [Next]_vars PROVE overlapped' = {}
    OBVIOUS
  <2>1. ASSUME NEW x \in Callers, Delete(x) PROVE overlapped' = {}
    <3>1. ~ \E y \in Callers : task[y].at = "rewrite" /\ task[y].session = task[x].session
      BY <2>1 DEF Delete
    <3> QED BY <2>1, <3>1 DEF Delete
  <2>2. ASSUME NEW x \in Callers, Work(x) PROVE overlapped' = {}
    BY <2>1, <2>2 DEF Work, Exchange, Find, Insert, Touch, Connect, Create, AddMember, ExpireSet,
       HandOut, GetSession, Reread, Rewrite, RemoveMember, Farewell, history
  <2>3. ASSUME NEW x \in Callers, NEW a \in Accounts, Callback(x, a) PROVE overlapped' = {}
    BY <2>3 DEF Callback, Arrive, history
  <2>4. ASSUME NEW x \in Callers, NEW s \in Sessions, Refresh(x, s) \/ Logout(x, s)
        PROVE  overlapped' = {}
    BY <2>4 DEF Refresh, Logout, Arrive, history
  <2>5. ASSUME NEW x \in Callers, Crash(x) PROVE overlapped' = {}
    BY <2>5 DEF Crash
  <2>6. CASE Tick
    BY <2>6 DEF Tick, history
  <2>7. CASE UNCHANGED vars
    BY <2>7 DEF vars, history
  <2> QED BY <2>2, <2>3, <2>4, <2>5, <2>6, <2>7 DEF Next
<1>3. LoggedOutStaysOut /\ overlapped = {} => \A s \in out : ~Live(s)
  BY DEF LoggedOutStaysOut
<1> QED BY <1>1, <1>2, <1>3, LoggedOutStay, PTL DEF Spec
=============================================================================
