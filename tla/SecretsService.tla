--------------------------- MODULE SecretsService ---------------------------
(***************************************************************************)
(* secrets-service: secrets are written to Vault, their metadata to        *)
(* PostgreSQL, and project.created_with_secrets is answered with           *)
(* secrets.bulk_created.  A topic has one partition, so its events are     *)
(* handled one after another; HTTP requests run beside them.  Every call   *)
(* to PostgreSQL, Vault or Kafka is one step.                              *)
(***************************************************************************)
EXTENDS Integers, Sequences

CONSTANTS
  Projects,    \* project identifiers
  Callers,     \* HTTP requests in flight at a time
  MaxEvents,   \* bound: project.created_with_secrets events
  MaxCrashes,  \* bound: tasks whose process ends under them
  Faults       \* "db", "vault", "kafka": the calls that may fail

ASSUME ProjectsExist == Projects # {} /\ Callers \cap {"created", "deleted"} = {}
ASSUME BoundsAreNat == MaxEvents \in Nat /\ MaxCrashes \in Nat

VARIABLES
  vault,     \* paths of Vault that hold a secret
  policies,  \* projects whose read policy exists
  rows,      \* committed rows of secret_metadata: project and Vault path
  created,   \* the events of project.created_with_secrets
  deleted,   \* the events of project.deleted: projects
  position,  \* position[t]: events of topic t taken up
  committed, \* committed[t]: where the group last resumed
  task,      \* task[x]: the handler of topic x, or the HTTP request x
  answered,  \* events of created that secrets.bulk_created was published for
  parked,    \* events of created in the dead-letter topic
  lost,      \* history: events whose publication there failed, or that were
             \* cut off and not delivered again
  undone,    \* history: projects whose secrets a failed creation deleted
  crashes    \* history, for MaxCrashes

topicVars   == <<created, deleted, committed>>
outcomeVars == <<answered, parked, lost>>
vars == <<vault, policies, rows, topicVars, position, task, outcomeVars, undone, crashes>>

Topics == {"created", "deleted"}
Workers == {"created"} \cup Callers

\* _build_vault_path: projects/p holds the keys of a bulk, projects/p/k a
\* single key; the paths of one deployment are not modelled.
Path(p, bulk) == <<p, IF bulk THEN "all" ELSE "key">>
Paths == {Path(p, b) : p \in Projects, b \in BOOLEAN}
Row == {<<p, Path(q, b)>> : p \in Projects, q \in Projects, b \in BOOLEAN}
Event == [project : Projects, secrets : BOOLEAN]

Steps == {"idle", "look", "write", "save", "undo", "policy", "publish",
          "announce", "log", "park"}
Idle == [at |-> "idle", event |-> 0, bulk |-> TRUE, added |-> {},
         project |-> CHOOSE p \in Projects : TRUE]
Task == [at : Steps, event : Nat, bulk : BOOLEAN, added : SUBSET Row, project : Projects]

TypeOK ==
  /\ vault \subseteq Paths
  /\ policies \subseteq Projects
  /\ rows \subseteq Row
  /\ created \in Seq(Event) /\ deleted \in Seq(Projects)
  /\ position \in [Topics -> Nat] /\ committed \in [Topics -> Nat]
  /\ task \in [Workers -> Task]
  /\ answered \cup parked \cup lost \subseteq 1 .. Len(created)
  /\ undone \subseteq Projects
  /\ crashes \in 0 .. MaxCrashes

Init ==
  /\ vault = {} /\ policies = {} /\ rows = {}
  /\ created = <<>> /\ deleted = <<>>
  /\ position = [t \in Topics |-> 0] /\ committed = [t \in Topics |-> 0]
  /\ task = [x \in Workers |-> Idle]
  /\ answered = {} /\ parked = {} /\ lost = {} /\ undone = {}
  /\ crashes = 0

\* "ok", "err" without effect, or "lost": with effect, the reply missing.
Outcome(call) == {"ok"} \cup (IF call \in Faults THEN {"err", "lost"} ELSE {})

-----------------------------------------------------------------------------
(* project-service: project.created_with_secrets may be produced twice by   *)
(* its client's retries; a project is deleted once.                         *)
Produce(p) ==
  /\ \/ /\ Len(created) < MaxEvents
        /\ \E s \in BOOLEAN : created' = Append(created, [project |-> p, secrets |-> s])
        /\ UNCHANGED deleted
     \/ /\ \A k \in 1 .. Len(deleted) : deleted[k] # p
        /\ deleted' = Append(deleted, p)
        /\ UNCHANGED created
  /\ UNCHANGED <<vault, policies, rows, position, committed, task, outcomeVars,
                 undone, crashes>>

-----------------------------------------------------------------------------
(* Steps of a task                                                          *)

Goto(x, step) == task' = [task EXCEPT ![x].at = step]

\* The request scope closes its session.  Nothing has called commit, so what
\* was flushed is rolled back.
Finish(x) == task' = [task EXCEPT ![x] = Idle] /\ UNCHANGED rows

\* An exception: the subscriber publishes the event to the dead-letter topic,
\* the route answers 500.
Raise(x) ==
  IF x = "created" THEN Goto(x, "park") /\ UNCHANGED rows ELSE Finish(x)

Continue(x, step) == Goto(x, step) /\ UNCHANGED rows

\* The next event; without secrets there is nothing to create.
Take ==
  /\ task["created"].at = "idle"
  /\ position["created"] < Len(created)
  /\ position' = [position EXCEPT !["created"] = @ + 1]
  /\ LET e == created[position["created"] + 1] IN
     task' = [task EXCEPT !["created"] =
       [Idle EXCEPT !.at = IF e.secrets THEN "look" ELSE "announce",
                    !.event = position["created"] + 1, !.project = e.project]]
  /\ UNCHANGED <<vault, policies, rows, topicVars, outcomeVars, undone, crashes>>

\* POST /secrets writes at once, POST /secrets/bulk looks first.
Request(x, p, bulk) ==
  /\ x \in Callers /\ task[x].at = "idle"
  /\ task' = [task EXCEPT ![x] =
       [Idle EXCEPT !.at = IF bulk THEN "look" ELSE "write", !.project = p, !.bulk = bulk]]
  /\ UNCHANGED <<vault, policies, rows, topicVars, position, outcomeVars, undone, crashes>>

\* get_by_project_id: the rows of an earlier creation are returned as they
\* are; the session sees committed rows only.
RowsOf(p) == {r \in rows : r[1] = p}
Look(x) ==
  /\ task[x].at = "look"
  /\ \E o \in Outcome("db") :
       IF o # "ok" THEN Raise(x)
       ELSE IF RowsOf(task[x].project) = {} THEN Continue(x, "write")
       ELSE IF x = "created" THEN Continue(x, "announce") ELSE Finish(x)
  /\ UNCHANGED <<vault, policies, topicVars, position, outcomeVars, undone, crashes>>

\* Mutant of Write: an error of Vault is not raised.
WriteUnchecked(x) ==
  /\ task[x].at = "write"
  /\ \E o \in Outcome("vault") :
       vault' = IF o = "err" THEN vault ELSE vault \cup {Path(task[x].project, task[x].bulk)}
  /\ Continue(x, "save")
  /\ UNCHANGED <<policies, topicVars, position, outcomeVars, undone, crashes>>

\* write_secret creates a version of the path.
Write(x) ==
  /\ task[x].at = "write"
  /\ \E o \in Outcome("vault") :
       /\ vault' = IF o = "err" THEN vault
                   ELSE vault \cup {Path(task[x].project, task[x].bulk)}
       /\ IF o = "ok" THEN Continue(x, "save") ELSE Raise(x)
  /\ UNCHANGED <<policies, topicVars, position, outcomeVars, undone, crashes>>

\* save_many and save add the rows to the session and flush; only the bulk
\* takes the values back when that fails.
SaveRows(x) ==
  LET p == task[x].project
      bulk == task[x].bulk
  IN
  /\ task[x].at = "save"
  /\ \E o \in Outcome("db") :
       IF o = "ok"
       THEN /\ task' = [task EXCEPT ![x].at = IF bulk THEN "policy" ELSE "publish",
                                    ![x].added = {<<p, Path(p, bulk)>>}]
            /\ UNCHANGED rows
       ELSE IF bulk THEN Continue(x, "undo") ELSE Raise(x)
  /\ UNCHANGED <<vault, policies, topicVars, position, outcomeVars, undone, crashes>>

\* delete_secret removes all versions of the path, whoever wrote them.
Undo(x) ==
  LET p == task[x].project IN
  /\ task[x].at = "undo"
  /\ \E o \in Outcome("vault") :
       IF o = "err" THEN UNCHANGED <<vault, undone>>
       ELSE vault' = vault \ {Path(p, TRUE)} /\ undone' = undone \cup {p}
  /\ Raise(x)
  /\ UNCHANGED <<policies, topicVars, position, outcomeVars, crashes>>

\* Mutant of Policy: the policy is named after the path.
PolicyOfPath(x) ==
  /\ task[x].at = "policy"
  /\ \E o \in Outcome("vault") :
       /\ policies' = IF o = "err" THEN policies
                      ELSE policies \cup {Path(task[x].project, task[x].bulk)}
       /\ IF o = "ok" THEN Continue(x, "publish") ELSE Raise(x)
  /\ UNCHANGED <<vault, topicVars, position, outcomeVars, undone, crashes>>

\* The paths that policy p covers: those below projects/p/, which projects/p
\* itself is not.
Granted(p) == IF p \in policies THEN {Path(p, FALSE)} ELSE {}

\* create_policy; an error leaves the values where they are.
Policy(x) ==
  /\ task[x].at = "policy"
  /\ \E o \in Outcome("vault") :
       /\ policies' = IF o = "err" THEN policies ELSE policies \cup {task[x].project}
       /\ IF o = "ok" THEN Continue(x, "publish") ELSE Raise(x)
  /\ UNCHANGED <<vault, topicVars, position, outcomeVars, undone, crashes>>

\* secret.created for every key, each with a record to service-logs.
Publish(x) ==
  /\ task[x].at = "publish"
  /\ \E o \in Outcome("kafka") :
       IF o # "ok" THEN Raise(x)
       ELSE IF x = "created" THEN Continue(x, "announce") ELSE Finish(x)
  /\ UNCHANGED <<vault, policies, topicVars, position, outcomeVars, undone, crashes>>

\* secrets.bulk_created.
Announce ==
  LET x == "created" IN
  /\ task[x].at = "announce"
  /\ \E o \in Outcome("kafka") :
       /\ answered' = IF o = "err" THEN answered ELSE answered \cup {task[x].event}
       /\ IF o = "ok" THEN Continue(x, "log") ELSE Raise(x)
  /\ UNCHANGED <<vault, policies, topicVars, position, parked, lost, undone, crashes>>

\* Its record to service-logs: an error parks an event that was answered.
Log ==
  /\ task["created"].at = "log"
  /\ \E o \in Outcome("kafka") : IF o = "ok" THEN Finish("created") ELSE Raise("created")
  /\ UNCHANGED <<vault, policies, topicVars, position, outcomeVars, undone, crashes>>

\* Mutant of Park: the event is only logged.
ParkNothing ==
  /\ task["created"].at = "park"
  /\ Finish("created")
  /\ UNCHANGED <<vault, policies, topicVars, position, outcomeVars, undone, crashes>>

\* Mutant of Park: when that fails the event is taken up again.
ParkRewinds ==
  LET k == task["created"].event IN
  /\ task["created"].at = "park"
  /\ \/ parked' = parked \cup {k} /\ UNCHANGED position
     \/ /\ "kafka" \in Faults
        /\ position' = [position EXCEPT !["created"] = k - 1]
        /\ UNCHANGED parked
  /\ Finish("created")
  /\ UNCHANGED <<vault, policies, topicVars, answered, lost, undone, crashes>>

\* The dead-letter topic.
Park ==
  /\ task["created"].at = "park"
  /\ \E o \in Outcome("kafka") :
       IF o = "err"
       THEN lost' = lost \cup {task["created"].event} /\ UNCHANGED parked
       ELSE parked' = parked \cup {task["created"].event} /\ UNCHANGED lost
  /\ Finish("created")
  /\ UNCHANGED <<vault, policies, topicVars, position, answered, undone, crashes>>

Work(x) ==
  \/ Look(x) \/ Write(x) \/ SaveRows(x) \/ Undo(x) \/ Policy(x) \/ Publish(x)
  \/ x = "created" /\ (Take \/ Announce \/ Log \/ Park)

\* project.deleted: the rows found are deleted in a session that is rolled
\* back, then their paths in Vault.  An error parks the event.
HandleDeleted ==
  /\ position["deleted"] < Len(deleted)
  /\ position' = [position EXCEPT !["deleted"] = @ + 1]
  /\ LET found == {r[2] : r \in RowsOf(deleted[position["deleted"] + 1])} IN
     \E gone \in SUBSET found :
       /\ gone = found \/ "vault" \in Faults \/ "db" \in Faults
       /\ vault' = vault \ gone
  /\ UNCHANGED <<policies, rows, topicVars, task, outcomeVars, undone, crashes>>

\* The process of a handler or request ends under it.  The consumer commits
\* its position periodically, handled or not, so the topic resumes at any
\* point passed since the group last resumed.
Crash(x) ==
  /\ crashes < MaxCrashes
  /\ task[x].at # "idle"
  /\ crashes' = crashes + 1
  /\ Finish(x)
  /\ IF x = "created"
     THEN \E resume \in committed["created"] .. position["created"] :
            /\ position' = [position EXCEPT !["created"] = resume]
            /\ committed' = [committed EXCEPT !["created"] = resume]
            /\ lost' = IF resume < task[x].event THEN lost ELSE lost \cup {task[x].event}
     ELSE UNCHANGED <<position, committed, lost>>
  /\ UNCHANGED <<vault, policies, created, deleted, answered, parked, undone>>

Next ==
  \/ \E p \in Projects : Produce(p)
  \/ \E x \in Callers, p \in Projects, bulk \in BOOLEAN : Request(x, p, bulk)
  \/ \E x \in Workers : Work(x)
  \/ HandleDeleted
  \/ \E x \in Workers : Crash(x)

Spec == Init /\ [][Next]_vars

\* The subscriber is a coroutine of a running event loop, and every client
\* has a timeout.
FairSpec == Spec /\ WF_vars(Work("created"))

-----------------------------------------------------------------------------
InFlight == IF task["created"].at = "idle" THEN {} ELSE {task["created"].event}

\* The values are where the event says they are and the project's policy is
\* registered.
Provisioned(p) == (Path(p, TRUE) \in vault \/ p \in undone) /\ p \in policies

(* An event that was taken up is being handled, was answered, is in the     *)
(* dead-letter topic, or was lost there or with its process: no error path  *)
(* drops a project in silence.                                              *)
EventsAccounted ==
  1 .. position["created"] \subseteq answered \cup parked \cup lost \cup InFlight

(* What secrets.bulk_created announces was done: the values are at the path *)
(* that the event names and the project's policy is registered, however the *)
(* calls failed, unless a failing creation of the same project (a second    *)
(* delivery, or POST /secrets/bulk) took the values back.  What the policy  *)
(* grants is another matter: see AnnouncedIsReadable.                       *)
AnnouncedIsProvisioned ==
  \A k \in answered : created[k].secrets => Provisioned(created[k].project)

\* The handler of project.created_with_secrets is at work on an event that
\* was taken up, and what it has done so far is in Vault.
HandlerInv ==
  LET t == task["created"]
      p == t.project
      e == t.event
  IN
  t.at # "idle" =>
    /\ e \in 1 .. position["created"] /\ p = created[e].project /\ t.bulk
    /\ created[e].secrets \/ t.at \in {"announce", "log", "park"}
    /\ t.at \in {"save", "policy", "publish"} => Path(p, TRUE) \in vault \/ p \in undone
    /\ t.at = "publish" => p \in policies
    /\ t.at = "announce" /\ created[e].secrets => Provisioned(p)
    /\ t.at = "log" => e \in answered

(* The inductive invariant of the proofs: the table of metadata stays       *)
(* empty, a topic is read from where the group resumed up to its end, and   *)
(* the handler's secrets are in Vault before it announces them.             *)
IInv ==
  /\ TypeOK
  /\ rows = {}
  /\ committed["created"] <= position["created"] /\ position["created"] <= Len(created)
  /\ position["deleted"] <= Len(deleted)
  /\ HandlerInv
  /\ EventsAccounted
  /\ AnnouncedIsProvisioned

(* Every project.created_with_secrets is answered or parked in the end.     *)
EveryEventAnswered ==
  \A k \in 1 .. MaxEvents :
    k <= Len(created) ~> k \in answered \cup parked \cup lost

-----------------------------------------------------------------------------
(* A statement of the repository the code does not keep                     *)

(* The README's "per-project policies": the job of a project may read what   *)
(* secrets.bulk_created announced to it.  The job reads the path of the      *)
(* event under the policy of its project and no other.                      *)
AnnouncedIsReadable ==
  \A k \in answered :
    LET p == created[k].project IN
    created[k].secrets => Path(p, TRUE) \in vault /\ Path(p, TRUE) \in Granted(p)
=============================================================================
