------------------------- MODULE SecretsServiceProofs -------------------------
(***************************************************************************)
(* Theorems about SecretsService, from the inductive invariant IInv, for   *)
(* any number of projects, requests and events and every set of faults.    *)
(***************************************************************************)
EXTENDS SecretsService, TLAPS

LEMMA IdleIsTask == Idle \in Task /\ Idle.at = "idle"
<1>1. (CHOOSE p \in Projects : TRUE) \in Projects
  BY ProjectsExist
<1> QED
  BY <1>1 DEF Idle, Task, Steps

LEMMA RowOf ==
  ASSUME NEW p \in Projects, NEW bulk \in BOOLEAN
  PROVE  <<p, Path(p, bulk)>> \in Row
BY DEF Row

\* What IInv says of positions, events and the handler.
LEMMA Facts ==
  ASSUME IInv
  PROVE  /\ Len(created) \in Nat /\ Len(deleted) \in Nat
         /\ \A t \in Topics : position[t] \in Nat /\ committed[t] \in Nat
         /\ position["created"] \in Nat /\ committed["created"] \in Nat
         /\ position["deleted"] \in Nat
         /\ \A k \in 1 .. Len(created) : created[k] \in Event /\ created[k].project \in Projects
         /\ answered \subseteq 1 .. Len(created)
         /\ \A x \in Workers : task[x] \in Task /\ task[x].project \in Projects
         /\ "created" \in Workers
         /\ task["created"].at # "idle" =>
              task["created"].event \in 1 .. position["created"]
                /\ task["created"].event \in 1 .. Len(created)
<1>1. /\ Len(created) \in Nat /\ Len(deleted) \in Nat
      /\ \A t \in Topics : position[t] \in Nat /\ committed[t] \in Nat
  BY DEF IInv, TypeOK
<1>5. "created" \in Topics /\ "deleted" \in Topics
  BY DEF Topics
<1>2. \A k \in 1 .. Len(created) : created[k] \in Event /\ created[k].project \in Projects
  <2>1. \A k \in 1 .. Len(created) : created[k] \in Event
    BY DEF IInv, TypeOK
  <2> QED BY <2>1 DEF Event
<1>3. /\ answered \subseteq 1 .. Len(created)
      /\ \A x \in Workers : task[x] \in Task /\ task[x].project \in Projects
      /\ "created" \in Workers
  BY DEF IInv, TypeOK, Task, Workers
<1>4. task["created"].at # "idle" => task["created"].event \in 1 .. position["created"]
  BY DEF IInv, HandlerInv
<1>6. position["created"] <= Len(created)
  BY DEF IInv
<1> QED
  BY <1>1, <1>2, <1>3, <1>4, <1>5, <1>6

LEMMA InitInv == Init => IInv
<1> SUFFICES ASSUME Init PROVE IInv
  OBVIOUS
<1>1. TypeOK
  BY IdleIsTask, BoundsAreNat DEF Init, TypeOK, Topics
<1>2. HandlerInv
  BY IdleIsTask DEF Init, HandlerInv, Workers
<1>3. EventsAccounted /\ AnnouncedIsProvisioned
  BY DEF Init, EventsAccounted, AnnouncedIsProvisioned, Topics
<1> QED
  BY <1>1, <1>2, <1>3 DEF IInv, Init, Topics

-----------------------------------------------------------------------------
(* Steps of a task                                                          *)

\* Nothing is taken from Vault but what is noted as undone, and no policy is
\* dropped.
Keeps ==
  /\ vault' \subseteq Paths
  /\ policies \subseteq policies' /\ policies' \subseteq Projects
  /\ undone \subseteq undone' /\ undone' \subseteq Projects
  /\ \A p \in Projects : Path(p, TRUE) \in vault \ vault' => p \in undone'

\* The values of p are in Vault after the step, or were taken back.
Stored(p) == Path(p, TRUE) \in vault' \/ p \in undone'

LEMMA Kept ==
  ASSUME Keeps, NEW p \in Projects
  PROVE  /\ Path(p, TRUE) \in vault \/ p \in undone => Path(p, TRUE) \in vault' \/ p \in undone'
         /\ p \in policies => p \in policies'
         /\ Provisioned(p) => Provisioned(p)'
<1>1. /\ Path(p, TRUE) \in vault \ vault' => p \in undone'
      /\ undone \subseteq undone' /\ policies \subseteq policies'
  BY DEF Keeps
<1> QED
  BY <1>1 DEF Provisioned

LEMMA TaskType ==
  ASSUME TypeOK, NEW x \in Workers, NEW t \in Task, task' = [task EXCEPT ![x] = t]
  PROVE  /\ task' \in [Workers -> Task]
         /\ task'[x] = t
         /\ x # "created" => task'["created"] = task["created"]
BY DEF TypeOK, Workers

\* A step that leaves the handler and the outcome of its events alone.
LEMMA OthersInv ==
  ASSUME IInv, Keeps, TypeOK',
         UNCHANGED <<rows, created, position, outcomeVars, task["created"]>>,
         committed'["created"] = committed["created"], deleted' = deleted
  PROVE  IInv'
<1>1. UNCHANGED <<answered, parked, lost>>
  BY DEF outcomeVars
<1>2. HandlerInv'
  <2> SUFFICES ASSUME task'["created"].at # "idle" PROVE HandlerInv'
    BY DEF HandlerInv
  <2>1. /\ HandlerInv
        /\ task["created"].project \in Projects
        /\ created[task["created"].event].project \in Projects
    BY Facts DEF IInv
  <2>2. /\ task'["created"].event \in 1 .. position'["created"]
        /\ task'["created"].project = created'[task'["created"].event].project
        /\ task'["created"].bulk
        /\ \/ created'[task'["created"].event].secrets
           \/ task'["created"].at \in {"announce", "log", "park"}
        /\ task'["created"].at = "log" => task'["created"].event \in answered'
    BY <1>1, <2>1 DEF HandlerInv
  <2>3. /\ task["created"].at = "publish" => task["created"].project \in policies'
        /\ task["created"].at = "announce" /\ created[task["created"].event].secrets =>
             Provisioned(task["created"].project)'
        /\ task["created"].at \in {"save", "policy", "publish"} =>
             \/ Path(task["created"].project, TRUE) \in vault'
             \/ task["created"].project \in undone'
    BY <2>1, Kept DEF HandlerInv
  <2> QED
    BY <2>2, <2>3 DEF HandlerInv
<1>3. EventsAccounted'
  BY <1>1 DEF IInv, EventsAccounted, InFlight
<1>4. AnnouncedIsProvisioned'
  <2>1. \A k \in answered : created[k].project \in Projects
    BY Facts
  <2> QED
    BY <1>1, <2>1, Kept DEF IInv, AnnouncedIsProvisioned
<1> QED
  BY <1>2, <1>3, <1>4 DEF IInv

\* A caller's request goes on to t.
LEMMA CallerInv ==
  ASSUME IInv, NEW x \in Callers, NEW t \in Task, task' = [task EXCEPT ![x] = t], Keeps,
         UNCHANGED <<rows, topicVars, position, outcomeVars>>,
         crashes' \in 0 .. MaxCrashes
  PROVE  IInv'
<1>1. x # "created" /\ x \in Workers
  BY ProjectsExist DEF Workers
<1>2. /\ task' \in [Workers -> Task]
      /\ task'["created"] = task["created"]
  BY <1>1, TaskType DEF IInv
<1>3. TypeOK'
  BY <1>2 DEF IInv, TypeOK, Keeps, topicVars, outcomeVars
<1> QED
  BY <1>2, <1>3, OthersInv DEF topicVars

\* The handler goes on to t; what it has done by then is done.
LEMMA HandlerGoes ==
  ASSUME IInv, NEW t \in Task, task' = [task EXCEPT !["created"] = t], Keeps,
         task["created"].at # "idle", t.at # "idle", t.event = task["created"].event,
         t.project = task["created"].project, t.bulk = task["created"].bulk,
         UNCHANGED <<rows, topicVars, position, crashes, parked, lost>>,
         answered' \in {answered, answered \cup {t.event}},
         created[t.event].secrets \/ t.at \in {"announce", "log", "park"},
         t.at \in {"save", "policy", "publish"} =>
           Path(t.project, TRUE) \in vault' \/ t.project \in undone',
         t.at = "publish" => t.project \in policies',
         t.at = "announce" /\ created[t.event].secrets => Provisioned(t.project)',
         t.at = "log" => t.event \in answered',
         answered' # answered => task["created"].at = "announce"
  PROVE  IInv'
<1>1. task' \in [Workers -> Task] /\ task'["created"] = t
  BY Facts, TaskType DEF IInv
<1>2. /\ t.event \in 1 .. position["created"]
      /\ t.event \in 1 .. Len(created)
  BY Facts
<1>3. UNCHANGED <<created, deleted, committed>>
  BY DEF topicVars
<1>4. TypeOK'
  BY <1>1, <1>2, <1>3 DEF IInv, TypeOK, Keeps
<1>5. HandlerInv'
  BY <1>1, <1>2, <1>3 DEF IInv, HandlerInv
<1>6. EventsAccounted'
  BY <1>1 DEF IInv, EventsAccounted, InFlight
<1>7. ASSUME NEW k \in answered', created[k].secrets PROVE Provisioned(created[k].project)'
  <2>1. CASE k \in answered
    <3>1. created[k].project \in Projects /\ Provisioned(created[k].project)
      BY <1>7, <2>1, Facts DEF IInv, AnnouncedIsProvisioned
    <3> QED BY <1>3, <3>1, Kept
  <2>2. CASE k = t.event /\ task["created"].at = "announce"
    <3>1. created[k].project \in Projects /\ Provisioned(created[k].project)
      BY <1>7, <2>2, Facts DEF IInv, HandlerInv
    <3> QED BY <1>3, <3>1, Kept
  <2> QED BY <1>7, <2>1, <2>2
<1>8. AnnouncedIsProvisioned'
  BY <1>3, <1>7 DEF AnnouncedIsProvisioned
<1> QED
  BY <1>3, <1>4, <1>5, <1>6, <1>8 DEF IInv

\* The handler is done with its event, or its process ends.
LEMMA HandlerEnds ==
  ASSUME IInv, Finish("created"), UNCHANGED <<created, deleted, answered, vault, policies, undone>>,
         crashes' \in 0 .. MaxCrashes,
         position' = [position EXCEPT !["created"] = position'["created"]],
         committed' = [committed EXCEPT !["created"] = committed'["created"]],
         position'["created"] \in Nat, committed'["created"] \in Nat,
         committed'["created"] <= position'["created"],
         position'["created"] <= position["created"],
         parked \subseteq parked', lost \subseteq lost',
         parked' \cup lost' \subseteq 1 .. Len(created),
         InFlight \cap (1 .. position'["created"]) \subseteq answered \cup parked' \cup lost'
  PROVE  IInv'
<1>1. task' \in [Workers -> Task] /\ task'["created"] = Idle /\ rows' = rows
  BY Facts, IdleIsTask, TaskType DEF IInv, Finish
<1>2. position' \in [Topics -> Nat] /\ committed' \in [Topics -> Nat]
  BY DEF IInv, TypeOK, Topics
<1>3. position'["deleted"] = position["deleted"]
  BY DEF IInv, TypeOK, Topics
<1>4. TypeOK'
  BY <1>1, <1>2 DEF IInv, TypeOK
<1>5. HandlerInv'
  BY <1>1, IdleIsTask DEF HandlerInv
<1>6. EventsAccounted'
  BY <1>1, Facts, IdleIsTask DEF IInv, EventsAccounted, InFlight
<1>7. AnnouncedIsProvisioned'
  BY DEF IInv, AnnouncedIsProvisioned, Provisioned
<1> QED
  BY <1>1, <1>3, <1>4, <1>5, <1>6, <1>7, Facts DEF IInv

-----------------------------------------------------------------------------
(* Every action keeps IInv                                                  *)

\* How a task moves on: to a step, to the dead-letter topic, or to its end.
LEMMA Moves ==
  ASSUME IInv, NEW x \in Workers,
         Raise(x) \/ Finish(x) \/ \E step \in Steps : Continue(x, step)
  PROVE  /\ rows' = rows
         /\ \E t \in Task : task' = [task EXCEPT ![x] = t]
<1>1. task[x] \in Task
  BY Facts
<1>2. ASSUME NEW step \in Steps, Goto(x, step)
      PROVE  \E t \in Task : task' = [task EXCEPT ![x] = t]
  <2>1. /\ [task[x] EXCEPT !.at = step] \in Task
        /\ task' = [task EXCEPT ![x] = [task[x] EXCEPT !.at = step]]
    BY <1>1, <1>2 DEF Task, Goto, IInv, TypeOK
  <2> QED BY <2>1
<1>3. Finish(x) => rows' = rows /\ \E t \in Task : task' = [task EXCEPT ![x] = t]
  BY IdleIsTask DEF Finish
<1>4. "park" \in Steps
  BY DEF Steps
<1> QED
  BY <1>2, <1>3, <1>4 DEF Raise, Continue

LEMMA CallerMoves ==
  ASSUME IInv, NEW x \in Callers,
         Raise(x) \/ Finish(x) \/ \E step \in Steps : Continue(x, step),
         Keeps, UNCHANGED <<topicVars, position, outcomeVars, crashes>>
  PROVE  IInv'
<1>1. x \in Workers /\ crashes' \in 0 .. MaxCrashes
  BY DEF Workers, IInv, TypeOK
<1> QED
  BY <1>1, Moves, CallerInv

\* The handler goes on to a step with nothing else changed but what it kept.
LEMMA HandlerContinues ==
  ASSUME IInv, NEW step \in Steps \ {"idle"}, Goto("created", step), rows' = rows, Keeps,
         task["created"].at # "idle",
         UNCHANGED <<topicVars, position, crashes, parked, lost>>,
         LET p == task["created"].project
             e == task["created"].event
         IN
         /\ answered' \in {answered, answered \cup {e}}
         /\ created[e].secrets \/ step \in {"announce", "log", "park"}
         /\ step \in {"save", "policy", "publish"} => Stored(p)
         /\ step = "publish" => p \in policies'
         /\ step = "announce" /\ created[e].secrets => Stored(p) /\ p \in policies'
         /\ step = "log" => e \in answered'
         /\ answered' # answered => task["created"].at = "announce"
  PROVE  IInv'
<1>1. task["created"] \in Task
  BY Facts
<1>2. PICK u \in Task : u = [task["created"] EXCEPT !.at = step]
  BY <1>1 DEF Task
<1>3. /\ u.at = step /\ u.event = task["created"].event
      /\ u.project = task["created"].project /\ u.bulk = task["created"].bulk
  BY <1>1, <1>2 DEF Task
<1>4. task' = [task EXCEPT !["created"] = u]
  BY <1>2 DEF Goto, IInv, TypeOK
<1>5. Stored(u.project) /\ u.project \in policies' => Provisioned(u.project)'
  BY DEF Stored, Provisioned
<1> QED
  BY <1>3, <1>4, <1>5, HandlerGoes DEF Stored

LEMMA HandlerRaises ==
  ASSUME IInv, Raise("created"), Keeps, task["created"].at # "idle",
         UNCHANGED <<topicVars, position, crashes, parked, lost>>,
         \/ answered' = answered
         \/ /\ answered' = answered \cup {task["created"].event}
            /\ task["created"].at = "announce"
  PROVE  IInv'
<1>1. /\ Goto("created", "park") /\ rows' = rows
      /\ task["created"].project \in Projects /\ "park" \in Steps \ {"idle"}
  BY Facts DEF Raise, Steps
<1> QED
  BY <1>1, HandlerContinues

LEMMA LookInv ==
  ASSUME IInv, NEW x \in Workers, Look(x)
  PROVE  IInv'
<1>1. Keeps /\ UNCHANGED <<topicVars, position, outcomeVars, crashes>>
  BY DEF Look, Keeps, IInv, TypeOK
<1>2. RowsOf(task[x].project) = {}
  BY DEF RowsOf, IInv
<1>3. CASE x \in Callers
  BY <1>1, <1>2, <1>3, CallerMoves DEF Look, Steps
<1>4. CASE x = "created"
  <2>1. CASE Raise("created")
    BY <1>1, <1>4, <2>1, HandlerRaises DEF Look, outcomeVars
  <2>2. CASE Continue("created", "write")
    <3>1. created[task["created"].event].secrets
      BY <1>4 DEF Look, IInv, HandlerInv
    <3> QED
      BY <1>1, <1>4, <2>2, <3>1, Facts, HandlerContinues DEF Look, Continue, Steps, outcomeVars
  <2> QED
    BY <1>2, <1>4, <2>1, <2>2 DEF Look
<1> QED
  BY <1>3, <1>4 DEF Workers

LEMMA WriteInv ==
  ASSUME IInv, NEW x \in Workers, Write(x)
  PROVE  IInv'
<1>1. PICK o \in Outcome("vault") :
        /\ vault' = IF o = "err" THEN vault ELSE vault \cup {Path(task[x].project, task[x].bulk)}
        /\ IF o = "ok" THEN Continue(x, "save") ELSE Raise(x)
  BY DEF Write
<1>2. Path(task[x].project, task[x].bulk) \in Paths
  BY Facts DEF Task, Paths
<1>3. Keeps
  BY <1>1, <1>2 DEF Write, Keeps, IInv, TypeOK
<1>4. UNCHANGED <<topicVars, position, outcomeVars, crashes>>
  BY DEF Write
<1>5. CASE x \in Callers
  BY <1>1, <1>3, <1>4, <1>5, CallerMoves DEF Steps
<1>6. CASE x = "created"
  <2>1. CASE Raise("created")
    BY <1>3, <1>4, <1>6, <2>1, HandlerRaises DEF Write, outcomeVars
  <2>2. CASE o = "ok" /\ Continue("created", "save")
    <3>1. /\ created[task["created"].event].secrets /\ task["created"].bulk
          /\ task["created"].at # "idle"
      BY <1>6 DEF Write, IInv, HandlerInv
    <3>2. Path(task["created"].project, TRUE) \in vault'
      BY <1>1, <1>6, <2>2, <3>1 DEF Path
    <3> QED
      BY <1>3, <1>4, <2>2, <3>1, <3>2, HandlerContinues
      DEF Continue, Steps, Stored, outcomeVars
  <2> QED
    BY <1>1, <1>6, <2>1, <2>2
<1> QED
  BY <1>5, <1>6 DEF Workers

LEMMA SaveRowsInv ==
  ASSUME IInv, NEW x \in Workers, SaveRows(x)
  PROVE  IInv'
<1>1. UNCHANGED <<topicVars, position, outcomeVars, crashes, vault, policies, undone>> /\ Keeps
  BY DEF SaveRows, Keeps, IInv, TypeOK
<1>2. task[x] \in Task /\ task[x].bulk \in BOOLEAN /\ task[x].project \in Projects
  BY Facts DEF Task
<1>3. CASE /\ rows' = rows
           /\ task' = [task EXCEPT ![x].at = IF task[x].bulk THEN "policy" ELSE "publish",
                                   ![x].added = {<<task[x].project,
                                                   Path(task[x].project, task[x].bulk)>>}]
  <2>1. {<<task[x].project, Path(task[x].project, task[x].bulk)>>} \subseteq Row
    BY <1>2, RowOf
  <2>2. PICK u \in Task :
          u = [task[x] EXCEPT !.at = IF task[x].bulk THEN "policy" ELSE "publish",
                              !.added = {<<task[x].project,
                                           Path(task[x].project, task[x].bulk)>>}]
    BY <1>2, <2>1 DEF Task, Steps
  <2>3. task' = [task EXCEPT ![x] = u]
    BY <1>3, <2>2 DEF IInv, TypeOK
  <2>4. CASE x \in Callers
    BY <1>1, <1>3, <2>3, <2>4, CallerInv DEF IInv, TypeOK
  <2>5. CASE x = "created"
    <3>1. /\ task["created"].at = "save" /\ task["created"].bulk
          /\ created[task["created"].event].secrets
          /\ \/ Path(task["created"].project, TRUE) \in vault
             \/ task["created"].project \in undone
      BY <2>5 DEF SaveRows, IInv, HandlerInv
    <3>2. /\ u.at = "policy" /\ u.event = task["created"].event
          /\ u.project = task["created"].project /\ u.bulk = task["created"].bulk
      BY <1>2, <2>2, <2>5, <3>1 DEF Task
    <3> QED
      BY <1>1, <1>3, <2>3, <2>5, <3>1, <3>2, HandlerGoes DEF outcomeVars
  <2> QED
    BY <2>4, <2>5 DEF Workers
<1>4. CASE Raise(x) \/ (task[x].bulk /\ Continue(x, "undo"))
  <2>1. CASE x \in Callers
    BY <1>1, <1>4, <2>1, CallerMoves DEF Steps
  <2>2. CASE x = "created" /\ Raise("created")
    BY <1>1, <2>2, HandlerRaises DEF SaveRows, outcomeVars
  <2>3. CASE x = "created" /\ Continue("created", "undo")
    <3>1. task["created"].at = "save" /\ created[task["created"].event].secrets
      BY <2>3 DEF SaveRows, IInv, HandlerInv
    <3> QED
      BY <1>1, <2>3, <3>1, HandlerContinues DEF Continue, Steps, outcomeVars
  <2> QED
    BY <1>4, <2>1, <2>2, <2>3 DEF Workers
<1> QED
  BY <1>3, <1>4 DEF SaveRows

LEMMA UndoInv ==
  ASSUME IInv, NEW x \in Workers, Undo(x)
  PROVE  IInv'
<1>1. UNCHANGED <<topicVars, position, outcomeVars, crashes>> /\ Raise(x)
      /\ task[x].at = "undo"
  BY DEF Undo
<1>2. Keeps
  <2>1. task[x].project \in Projects
    BY Facts
  <2>2. \/ UNCHANGED <<vault, undone>>
        \/ /\ vault' = vault \ {Path(task[x].project, TRUE)}
           /\ undone' = undone \cup {task[x].project}
    BY DEF Undo
  <2>3. \A p \in Projects : Path(p, TRUE) = Path(task[x].project, TRUE) => p = task[x].project
    BY DEF Path
  <2> QED
    BY <2>1, <2>2, <2>3 DEF Undo, Keeps, IInv, TypeOK
<1>3. CASE x \in Callers
  BY <1>1, <1>2, <1>3, CallerMoves
<1>4. CASE x = "created"
  BY <1>1, <1>2, <1>4, HandlerRaises DEF outcomeVars
<1> QED
  BY <1>3, <1>4 DEF Workers

LEMMA PolicyInv ==
  ASSUME IInv, NEW x \in Workers, Policy(x)
  PROVE  IInv'
<1>1. PICK o \in Outcome("vault") :
        /\ policies' = IF o = "err" THEN policies ELSE policies \cup {task[x].project}
        /\ IF o = "ok" THEN Continue(x, "publish") ELSE Raise(x)
  BY DEF Policy
<1>2. Keeps
  BY <1>1, Facts DEF Policy, Keeps, IInv, TypeOK
<1>3. UNCHANGED <<topicVars, position, outcomeVars, crashes, vault, undone>>
  BY DEF Policy
<1>4. CASE x \in Callers
  BY <1>1, <1>2, <1>3, <1>4, CallerMoves DEF Steps
<1>5. CASE x = "created"
  <2>1. CASE Raise("created")
    BY <1>2, <1>3, <1>5, <2>1, HandlerRaises DEF Policy, outcomeVars
  <2>2. CASE o = "ok" /\ Continue("created", "publish")
    <3>1. /\ created[task["created"].event].secrets
          /\ task["created"].at # "idle"
          /\ \/ Path(task["created"].project, TRUE) \in vault
             \/ task["created"].project \in undone
      BY <1>5 DEF Policy, IInv, HandlerInv
    <3>2. task["created"].project \in policies'
      BY <1>1, <1>5, <2>2
    <3> QED
      BY <1>2, <1>3, <2>2, <3>1, <3>2, HandlerContinues
      DEF Continue, Steps, Stored, outcomeVars
  <2> QED
    BY <1>1, <1>5, <2>1, <2>2
<1> QED
  BY <1>4, <1>5 DEF Workers

LEMMA PublishInv ==
  ASSUME IInv, NEW x \in Workers, Publish(x)
  PROVE  IInv'
<1>1. /\ UNCHANGED <<topicVars, position, outcomeVars, crashes, vault, policies, undone>>
      /\ Keeps
  BY DEF Publish, Keeps, IInv, TypeOK
<1>2. CASE x \in Callers
  BY <1>1, <1>2, CallerMoves DEF Publish, Steps
<1>3. CASE x = "created"
  <2>1. CASE Raise("created")
    BY <1>1, <1>3, <2>1, HandlerRaises DEF Publish, outcomeVars
  <2>2. CASE Continue("created", "announce")
    <3>1. /\ task["created"].at # "idle"
          /\ task["created"].project \in policies
          /\ \/ Path(task["created"].project, TRUE) \in vault
             \/ task["created"].project \in undone
      BY <1>3 DEF Publish, IInv, HandlerInv
    <3> QED
      BY <1>1, <2>2, <3>1, HandlerContinues DEF Continue, Steps, Stored, outcomeVars
  <2> QED
    BY <1>3, <2>1, <2>2 DEF Publish
<1> QED
  BY <1>2, <1>3 DEF Workers

LEMMA AnnounceInv ==
  ASSUME IInv, Announce
  PROVE  IInv'
<1>1. PICK o \in Outcome("kafka") :
        /\ answered' = IF o = "err" THEN answered ELSE answered \cup {task["created"].event}
        /\ IF o = "ok" THEN Continue("created", "log") ELSE Raise("created")
  BY DEF Announce
<1>2. /\ UNCHANGED <<topicVars, position, crashes, vault, policies, undone, parked, lost>>
      /\ Keeps /\ task["created"].at = "announce"
  BY DEF Announce, Keeps, IInv, TypeOK
<1>3. CASE Raise("created")
  BY <1>1, <1>2, <1>3, HandlerRaises
<1>4. CASE o = "ok" /\ Continue("created", "log")
  BY <1>1, <1>2, <1>4, HandlerContinues DEF Continue, Steps
<1> QED
  BY <1>1, <1>3, <1>4

\* The handler's event ends where it is, no position moving.
LEMMA HandlerStops ==
  ASSUME IInv, Finish("created"), task["created"].at # "idle",
         UNCHANGED <<vault, policies, undone, topicVars, position, crashes, answered>>,
         parked \subseteq parked', lost \subseteq lost',
         parked' \subseteq parked \cup {task["created"].event},
         lost' \subseteq lost \cup {task["created"].event},
         task["created"].event \in answered \cup parked' \cup lost'
  PROVE  IInv'
<1>1. /\ UNCHANGED <<created, deleted, committed>>
      /\ position \in [Topics -> Nat] /\ committed \in [Topics -> Nat]
      /\ crashes' \in 0 .. MaxCrashes
      /\ committed["created"] <= position["created"]
  BY DEF topicVars, IInv, TypeOK
<1>2. parked' \cup lost' \subseteq 1 .. Len(created)
  BY Facts DEF IInv, TypeOK
<1>3. InFlight = {task["created"].event}
  BY DEF InFlight
<1>4. /\ position' = [position EXCEPT !["created"] = position'["created"]]
      /\ committed' = [committed EXCEPT !["created"] = committed'["created"]]
  BY <1>1
<1> QED
  BY <1>1, <1>2, <1>3, <1>4, Facts, HandlerEnds

LEMMA LogInv ==
  ASSUME IInv, Log
  PROVE  IInv'
<1>1. CASE Raise("created")
  BY <1>1, HandlerRaises DEF Log, outcomeVars, Keeps, IInv, TypeOK
<1>2. CASE Finish("created")
  <2>1. task["created"].event \in answered
    BY DEF Log, IInv, HandlerInv
  <2> QED
    BY <1>2, <2>1, HandlerStops DEF Log, outcomeVars
<1> QED
  BY <1>1, <1>2 DEF Log

LEMMA ParkInv ==
  ASSUME IInv, Park
  PROVE  IInv'
BY HandlerStops DEF Park

\* The event taken up is the one the handler works on.
LEMMA TakeInv ==
  ASSUME IInv, Take
  PROVE  IInv'
<1> DEFINE n == position["created"] + 1
<1>1. /\ n \in 1 .. Len(created) /\ created[n] \in Event /\ created[n].project \in Projects
      /\ created[n].secrets \in BOOLEAN
  BY Facts DEF Take, Event
<1>2. PICK t \in Task :
        t = [Idle EXCEPT !.at = IF created[n].secrets THEN "look" ELSE "announce",
                         !.event = n, !.project = created[n].project]
  <2>1. n \in Nat /\ Idle \in Task
    BY Facts, IdleIsTask
  <2>2. [Idle EXCEPT !.at = IF created[n].secrets THEN "look" ELSE "announce",
                     !.event = n, !.project = created[n].project] \in Task
    BY <1>1, <2>1 DEF Task, Steps
  <2> QED BY <2>2
<1>3. /\ t.at = IF created[n].secrets THEN "look" ELSE "announce"
      /\ t.event = n /\ t.project = created[n].project /\ t.bulk
  BY <1>2 DEF Idle
<1>4. task' \in [Workers -> Task] /\ task'["created"] = t
  <2>1. task' = [task EXCEPT !["created"] = t]
    BY <1>2 DEF Take
  <2> QED
    BY <2>1, Facts, TaskType DEF IInv
<1>5. /\ UNCHANGED <<vault, policies, rows, undone, crashes, created, deleted, committed>>
      /\ UNCHANGED <<answered, parked, lost>>
      /\ position' = [position EXCEPT !["created"] = n]
      /\ task["created"].at = "idle"
  BY DEF Take, topicVars, outcomeVars
<1>6. /\ position' \in [Topics -> Nat] /\ position'["created"] = n
      /\ position'["deleted"] = position["deleted"]
  BY <1>1, <1>5 DEF IInv, TypeOK, Topics
<1>7. TypeOK'
  BY <1>4, <1>5, <1>6 DEF IInv, TypeOK
<1>8. HandlerInv'
  <2>1. /\ task'["created"].event = n /\ task'["created"].event \in 1 .. position'["created"]
        /\ task'["created"].project = created'[n].project /\ task'["created"].bulk
        /\ created'[n].secrets => task'["created"].at = "look"
        /\ ~ created'[n].secrets => task'["created"].at = "announce"
    BY <1>1, <1>3, <1>4, <1>5, <1>6
  <2> HIDE DEF n
  <2> QED
    BY <2>1 DEF HandlerInv
<1>9. EventsAccounted'
  <2>1. 1 .. position["created"] \subseteq answered \cup parked \cup lost
    BY <1>5 DEF IInv, EventsAccounted, InFlight
  <2>2. InFlight' = {n}
    BY <1>3, <1>4 DEF InFlight
  <2>3. 1 .. n = (1 .. position["created"]) \cup {n}
    BY Facts
  <2> QED
    BY <1>5, <1>6, <2>1, <2>2, <2>3 DEF EventsAccounted
<1>10. AnnouncedIsProvisioned'
  BY <1>5 DEF IInv, AnnouncedIsProvisioned, Provisioned
<1> QED
  BY <1>1, <1>5, <1>6, <1>7, <1>8, <1>9, <1>10, Facts DEF IInv

LEMMA RequestInv ==
  ASSUME IInv, NEW x \in Callers, NEW p \in Projects, NEW bulk \in BOOLEAN, Request(x, p, bulk)
  PROVE  IInv'
<1>1. [Idle EXCEPT !.at = IF bulk THEN "look" ELSE "write", !.project = p, !.bulk = bulk] \in Task
  BY DEF Idle, Task, Steps
<1>2. Keeps
  BY DEF Request, Keeps, IInv, TypeOK
<1>3. crashes' \in 0 .. MaxCrashes
  BY DEF Request, IInv, TypeOK
<1> QED
  BY <1>1, <1>2, <1>3, CallerInv DEF Request

\* A new event is neither taken up nor answered.
LEMMA ProduceInv ==
  ASSUME IInv, NEW p \in Projects, Produce(p)
  PROVE  IInv'
<1>1. /\ created' \in Seq(Event) /\ Len(created') >= Len(created)
      /\ \A k \in 1 .. Len(created) : created'[k] = created[k]
  <2>1. CASE UNCHANGED created
    BY <2>1 DEF IInv, TypeOK
  <2>2. CASE \E s \in BOOLEAN : created' = Append(created, [project |-> p, secrets |-> s])
    <3>1. PICK s \in BOOLEAN : created' = Append(created, [project |-> p, secrets |-> s])
      BY <2>2
    <3>2. [project |-> p, secrets |-> s] \in Event /\ created \in Seq(Event)
      BY DEF Event, IInv, TypeOK
    <3> QED
      BY <3>1, <3>2
  <2>3. \/ UNCHANGED created
        \/ \E s \in BOOLEAN : created' = Append(created, [project |-> p, secrets |-> s])
    BY DEF Produce
  <2> QED
    BY <2>1, <2>2, <2>3
<1>2. deleted' \in Seq(Projects) /\ Len(deleted') >= Len(deleted)
  <2>1. deleted \in Seq(Projects)
    BY DEF IInv, TypeOK
  <2>2. deleted' \in {deleted, Append(deleted, p)}
    BY DEF Produce
  <2> QED
    BY <2>1, <2>2
<1>3. /\ UNCHANGED <<vault, policies, rows, position, committed, task, undone, crashes>>
      /\ UNCHANGED <<answered, parked, lost>>
  BY DEF Produce, outcomeVars
<1>4. Len(created') \in Nat /\ Len(deleted') \in Nat
  BY <1>1, <1>2
<1>5. TypeOK'
  BY <1>1, <1>2, <1>3, <1>4, Facts DEF IInv, TypeOK
<1>6. HandlerInv'
  BY <1>1, <1>3, Facts DEF IInv, HandlerInv, Provisioned
<1>7. EventsAccounted'
  BY <1>3 DEF IInv, EventsAccounted, InFlight
<1>8. AnnouncedIsProvisioned'
  BY <1>1, <1>3, Facts DEF IInv, AnnouncedIsProvisioned, Provisioned
<1> QED
  BY <1>1, <1>2, <1>3, <1>4, <1>5, <1>6, <1>7, <1>8, Facts DEF IInv

\* No row is ever committed, so a deleted project's secrets stay in Vault.
LEMMA HandleDeletedInv ==
  ASSUME IInv, HandleDeleted
  PROVE  IInv'
<1>1. /\ UNCHANGED <<policies, rows, topicVars, task, outcomeVars, undone, crashes>>
      /\ position' = [position EXCEPT !["deleted"] = position["deleted"] + 1]
      /\ position["deleted"] < Len(deleted)
  BY DEF HandleDeleted
<1>2. vault' = vault
  <2>1. \A q : RowsOf(q) = {}
    BY DEF RowsOf, IInv
  <2>2. PICK gone \in SUBSET {r[2] : r \in RowsOf(deleted[position["deleted"] + 1])} :
          vault' = vault \ gone
    BY DEF HandleDeleted
  <2>3. gone = {}
    BY <2>1, <2>2
  <2> QED BY <2>2, <2>3
<1>3. UNCHANGED <<created, deleted, committed, answered, parked, lost>>
  BY <1>1 DEF topicVars, outcomeVars
<1>4. /\ position' \in [Topics -> Nat] /\ position'["created"] = position["created"]
      /\ position'["deleted"] = position["deleted"] + 1
  BY <1>1 DEF IInv, TypeOK, Topics
<1>5. TypeOK'
  BY <1>1, <1>2, <1>3, <1>4 DEF IInv, TypeOK
<1>6. HandlerInv'
  BY <1>1, <1>2, <1>3, <1>4 DEF IInv, HandlerInv, Provisioned
<1>7. EventsAccounted' /\ AnnouncedIsProvisioned'
  BY <1>1, <1>2, <1>3, <1>4 DEF IInv, EventsAccounted, InFlight, AnnouncedIsProvisioned, Provisioned
<1> QED
  BY <1>1, <1>3, <1>4, <1>5, <1>6, <1>7, Facts DEF IInv

\* An event that is cut off is delivered again or noted as lost.
LEMMA CrashInv ==
  ASSUME IInv, NEW x \in Workers, Crash(x)
  PROVE  IInv'
<1>1. /\ UNCHANGED <<vault, policies, created, deleted, answered, parked, undone>>
      /\ crashes' \in 0 .. MaxCrashes
      /\ Finish(x)
  BY BoundsAreNat DEF Crash, IInv, TypeOK
<1>2. CASE x = "created"
  <2>1. PICK resume \in committed["created"] .. position["created"] :
          /\ position' = [position EXCEPT !["created"] = resume]
          /\ committed' = [committed EXCEPT !["created"] = resume]
          /\ lost' = IF resume < task["created"].event THEN lost
                     ELSE lost \cup {task["created"].event}
    BY <1>2 DEF Crash
  <2>2. /\ resume \in Nat /\ committed["created"] <= resume /\ resume <= position["created"]
        /\ position'["created"] = resume /\ committed'["created"] = resume
    BY <2>1, Facts DEF IInv, TypeOK, Topics
  <2>3. /\ task["created"].at # "idle" /\ InFlight = {task["created"].event}
        /\ task["created"].event \in 1 .. Len(created)
    BY <1>2, Facts DEF Crash, InFlight
  <2>4. parked' \cup lost' \subseteq 1 .. Len(created)
    BY <1>1, <2>1, <2>3 DEF IInv, TypeOK
  <2>5. InFlight \cap (1 .. position'["created"]) \subseteq answered \cup parked' \cup lost'
    BY <2>1, <2>2, <2>3, Facts
  <2>6. /\ position' = [position EXCEPT !["created"] = position'["created"]]
        /\ committed' = [committed EXCEPT !["created"] = committed'["created"]]
        /\ lost \subseteq lost' /\ parked \subseteq parked'
    BY <1>1, <2>1, <2>2
  <2> QED
    BY <1>1, <1>2, <2>2, <2>4, <2>5, <2>6, HandlerEnds
<1>3. CASE x \in Callers
  <2>1. x # "created"
    BY <1>3, ProjectsExist
  <2>2. Keeps
    BY <1>1 DEF Keeps, IInv, TypeOK
  <2>3. /\ UNCHANGED <<position, committed, lost, rows>>
        /\ task' = [task EXCEPT ![x] = Idle]
    BY <1>1, <2>1 DEF Crash, Finish
  <2> QED
    BY <1>1, <1>3, <2>2, <2>3, IdleIsTask, CallerInv DEF topicVars, outcomeVars
<1> QED
  BY <1>2, <1>3 DEF Workers

LEMMA NextInv == IInv /\ [Next]_vars => IInv'
<1> SUFFICES ASSUME IInv, [Next]_vars PROVE IInv'
  OBVIOUS
<1>1. ASSUME NEW p \in Projects, Produce(p) PROVE IInv'
  BY <1>1, ProduceInv
<1>2. ASSUME NEW x \in Callers, NEW p \in Projects, NEW bulk \in BOOLEAN, Request(x, p, bulk)
      PROVE  IInv'
  BY <1>2, RequestInv
<1>3. ASSUME NEW x \in Workers, Work(x) PROVE IInv'
  BY <1>3, LookInv, WriteInv, SaveRowsInv, UndoInv, PolicyInv, PublishInv,
     TakeInv, AnnounceInv, LogInv, ParkInv
  DEF Work
<1>4. CASE HandleDeleted
  BY <1>4, HandleDeletedInv
<1>5. ASSUME NEW x \in Workers, Crash(x) PROVE IInv'
  BY <1>5, CrashInv
<1>6. CASE UNCHANGED vars
  <2>1. /\ UNCHANGED <<vault, policies, rows, created, deleted, committed, position>>
        /\ UNCHANGED <<task, answered, parked, lost, undone, crashes>>
    BY <1>6 DEF vars, topicVars, outcomeVars
  <2>2. TypeOK'
    BY <2>1 DEF IInv, TypeOK
  <2>3. Keeps
    BY <2>1 DEF Keeps, IInv, TypeOK
  <2> QED
    BY <2>1, <2>2, <2>3, OthersInv DEF outcomeVars
<1> QED
  BY <1>1, <1>2, <1>3, <1>4, <1>5, <1>6 DEF Next

-----------------------------------------------------------------------------

(* The inductive invariant: the metadata table stays empty, and what the    *)
(* handler of project.created_with_secrets has done so far is in Vault.     *)
THEOREM Invariance == Spec => []IInv
<1> QED
  BY InitInv, NextInv, PTL DEF Spec

(* Every variable stays in its type.                                        *)
THEOREM TypeCorrect == Spec => []TypeOK
<1>1. IInv => TypeOK
  BY DEF IInv
<1> QED
  BY <1>1, Invariance, PTL

(* No error path, crash or redelivery drops an event of                     *)
(* project.created_with_secrets in silence.                                 *)
THEOREM AllEventsAccounted == Spec => []EventsAccounted
<1>1. IInv => EventsAccounted
  BY DEF IInv
<1> QED
  BY <1>1, Invariance, PTL

(* What secrets.bulk_created announces is at its path in Vault, with the    *)
(* policy registered, unless a failing creation of the same project took    *)
(* the values back.                                                         *)
THEOREM AnnouncedProvisioned == Spec => []AnnouncedIsProvisioned
<1>1. IInv => AnnouncedIsProvisioned
  BY DEF IInv
<1> QED
  BY <1>1, Invariance, PTL

NoneUndoes == \A x \in Workers : task[x].at # "undo"

LEMMA StepUndoesNone ==
  ASSUME task \in [Workers -> Task], NoneUndoes, NEW x \in Workers,
         NEW step \in Steps \ {"undo"}, Continue(x, step) \/ Raise(x) \/ Finish(x)
  PROVE  NoneUndoes'
<1>1. CASE task' = [task EXCEPT ![x] = Idle]
  BY <1>1 DEF NoneUndoes, Idle
<1>2. ASSUME NEW next \in {step, "park"}, task' = [task EXCEPT ![x].at = next]
      PROVE  NoneUndoes'
  <2>1. task'[x].at = next
    BY <1>2 DEF Task
  <2>2. ASSUME NEW y \in Workers, y # x PROVE task'[y] = task[y]
    BY <1>2, <2>2
  <2> QED
    BY <2>1, <2>2 DEF NoneUndoes
<1> QED
  BY <1>1, <1>2 DEF Continue, Raise, Finish, Goto

(* Only a failing INSERT of the metadata takes values back from Vault: if   *)
(* none fails, what secrets.bulk_created announces is there, without        *)
(* exception, however Vault, Kafka and the processes fail, and whatever is  *)
(* deleted or requested beside.                                             *)
THEOREM OnlyDbTakesBack ==
  ASSUME "db" \notin Faults
  PROVE  Spec => [](\A k \in answered :
                      created[k].secrets => /\ Path(created[k].project, TRUE) \in vault
                                            /\ created[k].project \in policies)
<1> DEFINE NoneUndone == undone = {} /\ NoneUndoes
<1>1. Init => NoneUndone
  <2>1. Init => \A x \in Workers : task[x] = Idle
    BY DEF Init
  <2>2. Idle.at # "undo"
    BY DEF Idle
  <2> QED
    BY <2>1, <2>2 DEF Init, NoneUndoes
<1>2. IInv /\ NoneUndone /\ [Next]_vars => NoneUndone'
  <2> SUFFICES ASSUME IInv, NoneUndone, [Next]_vars PROVE NoneUndone'
    OBVIOUS
  <2>0. task \in [Workers -> Task]
    BY DEF IInv, TypeOK
  <2>1. ASSUME NEW p \in Projects, Produce(p) PROVE NoneUndone'
    BY <2>1 DEF Produce, NoneUndoes
  <2>2. ASSUME NEW x \in Callers, NEW p \in Projects, NEW bulk \in BOOLEAN, Request(x, p, bulk)
        PROVE  NoneUndone'
    BY <2>2, <2>0 DEF Request, Idle, Workers, NoneUndoes
  <2>3. ASSUME NEW x \in Workers, Work(x) PROVE NoneUndone'
    <3>1. CASE Look(x)
      BY <3>1, <2>0, StepUndoesNone DEF Look, Steps
    <3>2. CASE Write(x)
      BY <3>2, <2>0, StepUndoesNone DEF Write, Steps
    <3>3. CASE SaveRows(x)
      <4>1. \A y \in Workers : y # x => task'[y] = task[y]
        BY <3>3, <2>0 DEF SaveRows, Outcome
      <4>2. task'[x].at # "undo"
        BY <3>3, <2>0 DEF SaveRows, Outcome, Task
      <4> QED
        BY <3>3, <4>1, <4>2 DEF SaveRows, NoneUndoes
    <3>4. CASE Undo(x)
      BY <3>4 DEF Undo, NoneUndoes
    <3>5. CASE Policy(x)
      BY <3>5, <2>0, StepUndoesNone DEF Policy, Steps
    <3>6. CASE Publish(x)
      BY <3>6, <2>0, StepUndoesNone DEF Publish, Steps
    <3>7. CASE Take
      BY <3>7, <2>0 DEF Take, Idle, NoneUndoes
    <3>8. CASE Announce
      BY <3>8, <2>0, StepUndoesNone DEF Announce, Steps, Workers
    <3>9. CASE Log
      BY <3>9, <2>0, StepUndoesNone DEF Log, Continue, Steps, Workers
    <3>10. CASE Park
      BY <3>10, <2>0 DEF Park, Finish, Idle, NoneUndoes
    <3> QED
      BY <2>3, <3>1, <3>2, <3>3, <3>4, <3>5, <3>6, <3>7, <3>8, <3>9, <3>10 DEF Work
  <2>4. CASE HandleDeleted
    BY <2>4 DEF HandleDeleted, NoneUndoes
  <2>5. ASSUME NEW x \in Workers, Crash(x) PROVE NoneUndone'
    BY <2>5, <2>0 DEF Crash, Finish, Idle, NoneUndoes
  <2>6. CASE UNCHANGED vars
    BY <2>6 DEF vars, NoneUndoes
  <2> QED
    BY <2>1, <2>2, <2>3, <2>4, <2>5, <2>6 DEF Next
<1>3. AnnouncedIsProvisioned /\ NoneUndone
        => \A k \in answered :
             created[k].secrets => /\ Path(created[k].project, TRUE) \in vault
                                   /\ created[k].project \in policies
  BY DEF AnnouncedIsProvisioned, Provisioned
<1> HIDE DEF NoneUndone
<1> QED
  BY <1>1, <1>2, <1>3, Invariance, AnnouncedProvisioned, PTL DEF Spec

(* Only a crash, or a dead-letter topic that fails, loses an event: without *)
(* them every event that was taken up is at work, answered or parked.       *)
THEOREM OnlyCrashesLose ==
  ASSUME "kafka" \notin Faults, MaxCrashes = 0
  PROVE  Spec => [](1 .. position["created"] \subseteq answered \cup parked \cup InFlight)
<1>1. Init => lost = {}
  BY DEF Init
<1>2. IInv /\ lost = {} /\ [Next]_vars => (lost = {})'
  <2> SUFFICES ASSUME IInv, lost = {}, [Next]_vars PROVE lost' = {}
    OBVIOUS
  <2>1. ASSUME NEW p \in Projects, Produce(p) PROVE lost' = {}
    BY <2>1 DEF Produce, outcomeVars
  <2>2. ASSUME NEW x \in Callers, NEW p \in Projects, NEW bulk \in BOOLEAN, Request(x, p, bulk)
        PROVE  lost' = {}
    BY <2>2 DEF Request, outcomeVars
  <2>3. ASSUME NEW x \in Workers, Work(x) PROVE lost' = {}
    <3>1. CASE Park
      BY <3>1 DEF Park, Outcome
    <3> QED
      BY <2>3, <3>1 DEF Work, Look, Write, SaveRows, Undo, Policy, Publish, Take, Announce,
                        Log, outcomeVars
  <2>4. CASE HandleDeleted
    BY <2>4 DEF HandleDeleted, outcomeVars
  <2>5. ASSUME NEW x \in Workers, Crash(x) PROVE lost' = {}
    BY <2>5 DEF Crash, IInv, TypeOK
  <2>6. CASE UNCHANGED vars
    BY <2>6 DEF vars, outcomeVars
  <2> QED
    BY <2>1, <2>2, <2>3, <2>4, <2>5, <2>6 DEF Next
<1>3. EventsAccounted /\ lost = {}
        => 1 .. position["created"] \subseteq answered \cup parked \cup InFlight
  BY DEF EventsAccounted
<1> QED
  BY <1>1, <1>2, <1>3, Invariance, AllEventsAccounted, PTL DEF Spec
=============================================================================
