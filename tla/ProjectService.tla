--------------------------- MODULE ProjectService ---------------------------
(***************************************************************************)
(* project-service: creating and deleting projects over HTTP, and the      *)
(* handlers of the Kafka topics that update a project's row.  Every        *)
(* handler works on its own SQLAlchemy session: it loads the row, commits  *)
(* the columns it changed, and refreshes.  A topic has one partition, so   *)
(* its events are handled one after another, by one instance; different    *)
(* topics are handled concurrently.  secrets-service and the announcements *)
(* of deployment-service are external here.                                *)
(***************************************************************************)
EXTENDS ProjectDomain, DeploymentDomain, Integers, Sequences

CONSTANTS
  Projects,    \* project identifiers
  Deletable,   \* projects whose owner may delete them
  Instances,   \* processes of project-service
  Deployments, \* deployments that may be announced
  MaxBulk,     \* bound: secrets.bulk_created events
  MaxCrashes,  \* bound: crashes of an instance
  Faults       \* "db", "kafka": the calls that may fail

ASSUME SomeInstance == Instances # {} /\ Projects # {} /\ Deletable \subseteq Projects
ASSUME BoundsAreNat == MaxBulk \in Nat /\ MaxCrashes \in Nat

VARIABLES
  stage,     \* stage[p]: "new" before the insert, "stored", or "deleted"
  row,       \* row[p]: the columns of its row that change
  wants,     \* wants[p]: the request that created p had secrets, a config
  request,   \* request[p]: where CreateProjectInteractor stands
  home,      \* home[p]: the instance that request runs on
  removal,   \* removal[p]: where DeleteProjectInteractor stands
  published, \* events of project-service: <<"created", p>>, <<"deleted", p>>
  pending,   \* pending[i]: keys of the PendingConfigsStore of instance i
  posts,     \* posts[p]: POST /configs sent for p
  log,       \* log[t]: projects of the events of topic t
  position,  \* position[t]: events of t taken up
  committed, \* committed[t]: where the group last resumed
  owner,     \* owner[t]: the instance that consumes t
  task,      \* task[t]: the handler of t
  said,      \* said[d]: what deployment-service announced of d
  subject,   \* subject[d]: the project of d
  crashes    \* history, for MaxCrashes

httpVars  == <<wants, request, home, removal, published>>
kafkaVars == <<log, position, committed, owner>>
envVars   == <<said, subject>>
vars == <<stage, row, httpVars, pending, posts, kafkaVars, task, envVars, crashes>>

\* The topics that are produced.  secrets.bulk_created is called "bulk", the
\* others by what follows "deployment.".
Topics == {"bulk", "building", "deploying", "running", "failed"}

Steps == {"idle", "save", "secretsReady", "pop", "ready", "creating", "post",
          "posted", "announce", "fail"}

Free == [at |-> "idle", project |-> CHOOSE p \in Projects : TRUE, base |-> Blank]

TypeOK ==
  /\ stage \in [Projects -> {"new", "stored", "deleted"}]
  /\ row \in [Projects -> Row]
  /\ wants \in [Projects -> [secrets : BOOLEAN, config : BOOLEAN]]
  /\ request \in [Projects -> {"none", "publish", "log", "store", "done"}]
  /\ home \in [Projects -> Instances]
  /\ removal \in [Projects -> {"none", "announce", "done"}]
  /\ published \subseteq {"created", "deleted"} \X Projects
  /\ pending \in [Instances -> SUBSET Projects]
  /\ posts \in [Projects -> Nat]
  /\ log \in [Topics -> Seq(Projects)]
  /\ position \in [Topics -> Nat]
  /\ committed \in [Topics -> Nat]
  /\ owner \in [Topics -> Instances]
  /\ task \in [Topics -> [at : Steps, project : Projects, base : Row]]
  /\ said \in [Deployments -> Observed]
  /\ subject \in [Deployments -> Projects]
  /\ crashes \in 0 .. MaxCrashes

Init ==
  /\ stage = [p \in Projects |-> "new"]
  /\ row = [p \in Projects |-> Blank]
  /\ wants = [p \in Projects |-> [secrets |-> FALSE, config |-> FALSE]]
  /\ request = [p \in Projects |-> "none"]
  /\ home \in [Projects -> Instances]
  /\ removal = [p \in Projects |-> "none"]
  /\ published = {}
  /\ pending = [i \in Instances |-> {}]
  /\ posts = [p \in Projects |-> 0]
  /\ log = [t \in Topics |-> <<>>]
  /\ position = [t \in Topics |-> 0]
  /\ committed = [t \in Topics |-> 0]
  /\ owner \in [Topics -> Instances]
  /\ task = [t \in Topics |-> Free]
  /\ said = [d \in Deployments |-> None]
  /\ subject \in [Deployments -> Projects]
  /\ crashes = 0

\* "ok", "err" without effect, or "lost": with effect, the reply missing.
Outcome(call) == {"ok"} \cup (IF call \in Faults THEN {"err", "lost"} ELSE {})

-----------------------------------------------------------------------------
(* POST /projects: CreateProjectInteractor                                  *)

\* The calls to auth-service and GitHub come before and change nothing here.
SaveProject(p) ==
  /\ stage[p] = "new" /\ request[p] = "none"
  /\ \E secrets, config \in BOOLEAN, o \in Outcome("db") :
       /\ wants' = [wants EXCEPT ![p] = [secrets |-> secrets, config |-> config]]
       /\ IF o = "err" THEN UNCHANGED <<stage, row>>
          ELSE /\ stage' = [stage EXCEPT ![p] = "stored"]
               /\ row' = [row EXCEPT ![p] = Created(secrets, config)]
       /\ request' = [request EXCEPT ![p] =
            IF o = "ok" /\ (secrets \/ config) THEN "publish" ELSE "done"]
  /\ UNCHANGED <<home, removal, published, pending, posts, kafkaVars, task, envVars, crashes>>

\* project.created_with_secrets, then a record to service-logs; an error of
\* either ends the request.
PublishCreated(p) ==
  /\ request[p] = "publish"
  /\ \E o \in Outcome("kafka") :
       /\ published' = IF o = "err" THEN published ELSE published \cup {<<"created", p>>}
       /\ request' = [request EXCEPT ![p] = IF o = "ok" THEN "log" ELSE "done"]
  /\ UNCHANGED <<stage, row, wants, home, removal, pending, posts, kafkaVars, task, envVars, crashes>>

PublishLog(p) ==
  /\ request[p] = "log"
  /\ \E o \in Outcome("kafka") :
       request' = [request EXCEPT ![p] =
                     IF o = "ok" /\ wants[p].config THEN "store" ELSE "done"]
  /\ UNCHANGED <<stage, row, wants, home, removal, published, pending, posts,
                 kafkaVars, task, envVars, crashes>>

StorePending(p) ==
  /\ request[p] = "store"
  /\ pending' = [pending EXCEPT ![home[p]] = @ \cup {p}]
  /\ request' = [request EXCEPT ![p] = "done"]
  /\ UNCHANGED <<stage, row, wants, home, removal, published, posts, kafkaVars,
                 task, envVars, crashes>>

-----------------------------------------------------------------------------
(* DELETE /projects/{id}: DeleteProjectInteractor                           *)

DeleteRow(p) ==
  /\ p \in Deletable /\ stage[p] = "stored"
  /\ \E o \in Outcome("db") :
       /\ stage' = IF o = "err" THEN stage ELSE [stage EXCEPT ![p] = "deleted"]
       /\ removal' = [removal EXCEPT ![p] = IF o = "ok" THEN "announce" ELSE "done"]
  /\ UNCHANGED <<row, wants, request, home, published, pending, posts, kafkaVars,
                 task, envVars, crashes>>

\* `_project_repo._session` does not exist: the AttributeError ends the
\* request before publish_project_deleted.
AnnounceDeletion(p) ==
  /\ removal[p] = "announce"
  /\ removal' = [removal EXCEPT ![p] = "done"]
  /\ UNCHANGED <<stage, row, wants, request, home, published, pending, posts,
                 kafkaVars, task, envVars, crashes>>

-----------------------------------------------------------------------------
(* The other services                                                       *)

Send(t, p) == log' = [log EXCEPT ![t] = Append(@, p)]

\* secrets-service answers project.created_with_secrets, at least once.
SecretsCreated(p) ==
  /\ <<"created", p>> \in published
  /\ Len(log["bulk"]) < MaxBulk
  /\ Send("bulk", p)
  /\ UNCHANGED <<stage, row, httpVars, pending, posts, position, committed,
                 owner, task, envVars, crashes>>

\* deployment-service announces a deployment in the order DeploymentLifecycle
\* allows, the first time after secrets.bulk_created.
DeploymentSays(d, s) ==
  /\ \E k \in 1 .. Len(log["bulk"]) : log["bulk"][k] = subject[d]
  /\ said[d] \notin {"running", "failed"}
  /\ said[d] # None => s \in Beyond(said[d])
  /\ Send(s, subject[d])
  /\ said' = [said EXCEPT ![d] = s]
  /\ UNCHANGED <<stage, row, httpVars, pending, posts, position, committed,
                 owner, task, subject, crashes>>

-----------------------------------------------------------------------------
(* The handlers                                                             *)

\* Mutant of Written: every column of the object is written.
WrittenWhole(old, base, set) ==
  [c \in DOMAIN old |-> IF c \in DOMAIN set THEN set[c] ELSE base[c]]

\* UPDATE writes the columns whose value differs from the one loaded.
Written(old, base, set) ==
  [c \in DOMAIN old |->
     IF c \in DOMAIN set /\ set[c] # base[c] THEN set[c] ELSE old[c]]

Finish(t) == task' = [task EXCEPT ![t] = Free]
Goto(t, step) == task' = [task EXCEPT ![t].at = step]

\* Commit: no row to update is an error, and an error ends the handler (the
\* session refuses further work, so the except branch fails as well).
Commit(t, set, next) ==
  LET p == task[t].project IN
  \E o \in Outcome("db") :
    /\ row' = IF o = "err" \/ stage[p] # "stored" THEN row
              ELSE [row EXCEPT ![p] = Written(@, task[t].base, set)]
    /\ IF o = "ok" /\ stage[p] = "stored" /\ next # "idle"
       THEN Goto(t, next) ELSE Finish(t)

\* The refresh after a commit: the columns as they are now.
Refreshed(t, step) ==
  IF stage[task[t].project] = "stored"
  THEN task' = [task EXCEPT ![t].base = row[task[t].project], ![t].at = step]
  ELSE Finish(t)

\* Next event of t; get_by_id loads the row, without one the handler returns.
Take(t) ==
  /\ task[t].at = "idle"
  /\ position[t] < Len(log[t])
  /\ position' = [position EXCEPT ![t] = @ + 1]
  /\ LET p == log[t][position[t] + 1] IN
     \/ /\ stage[p] = "stored"
        /\ task' = [task EXCEPT ![t] =
             [at |-> IF t = "bulk" THEN "secretsReady" ELSE "save",
              project |-> p, base |-> row[p]]]
     \/ /\ stage[p] # "stored" \/ "db" \in Faults
        /\ UNCHANGED task
  /\ UNCHANGED <<stage, row, httpVars, pending, posts, log, committed, owner, envVars, crashes>>

\* Mutant of StatusColumns: the deployment's status is taken over as it is.
StatusColumnsRaw(t) ==
  IF t = "failed" THEN [status |-> t, error |-> "deployment"] ELSE [status |-> t]

\* HandleDeploymentStatusChangedInteractor.  A running deployment always comes
\* with a URL and a failed one with a message, so both are always stored.
StatusColumns(t) ==
  CASE t \in {"building", "deploying"} -> [status |-> "deployment_pending"]
    [] t = "running" -> [status |-> "active", url |-> TRUE]
    [] t = "failed"  -> [status |-> "failed", error |-> "deployment"]

SaveStatus(t) ==
  /\ task[t].at = "save"
  /\ Commit(t, StatusColumns(t), "idle")
  /\ UNCHANGED <<stage, httpVars, pending, posts, kafkaVars, envVars, crashes>>

\* HandleSecretsBulkCreatedInteractor.
SecretsReady ==
  /\ task["bulk"].at = "secretsReady"
  /\ Commit("bulk", [secrets |-> "ready"], "pop")
  /\ UNCHANGED <<stage, httpVars, pending, posts, kafkaVars, envVars, crashes>>

\* Mutant of Pop: the entry stays in the store.
PopKeeps ==
  LET p == task["bulk"].project IN
  /\ task["bulk"].at = "pop"
  /\ Refreshed("bulk", IF p \in pending[owner["bulk"]] THEN "creating" ELSE "ready")
  /\ UNCHANGED <<stage, row, httpVars, pending, posts, kafkaVars, envVars, crashes>>

Pop ==
  LET p == task["bulk"].project
      i == owner["bulk"]
  IN
  /\ task["bulk"].at = "pop"
  /\ Refreshed("bulk", IF p \in pending[i] THEN "creating" ELSE "ready")
  /\ pending' = IF stage[p] = "stored" THEN [pending EXCEPT ![i] = @ \ {p}] ELSE pending
  /\ UNCHANGED <<stage, row, httpVars, posts, kafkaVars, envVars, crashes>>

\* Mutant of Ready: mark_ready is forgotten.
ReadyForgotten ==
  /\ task["bulk"].at = "ready"
  /\ Finish("bulk")
  /\ UNCHANGED <<stage, row, httpVars, pending, posts, kafkaVars, envVars, crashes>>

\* No config: the project is ready; project.ready has no consumer.
Ready ==
  /\ task["bulk"].at = "ready"
  /\ Commit("bulk", [status |-> "ready"], "idle")
  /\ UNCHANGED <<stage, httpVars, pending, posts, kafkaVars, envVars, crashes>>

Creating ==
  /\ task["bulk"].at = "creating"
  /\ Commit("bulk", [deploy |-> "creating"], "post")
  /\ UNCHANGED <<stage, httpVars, pending, posts, kafkaVars, envVars, crashes>>

\* POST /configs is sent.
Post ==
  LET p == task["bulk"].project IN
  /\ task["bulk"].at = "post"
  /\ Refreshed("bulk", "posted")
  /\ posts' = IF stage[p] = "stored" THEN [posts EXCEPT ![p] = @ + 1] ELSE posts
  /\ UNCHANGED <<stage, row, httpVars, pending, kafkaVars, envVars, crashes>>

\* Mutant of Posted: an error of the POST is not handled.
PostedUnhandled ==
  /\ task["bulk"].at = "posted"
  /\ \/ Commit("bulk", [deploy |-> "ready", config |-> TRUE, status |-> "ready"], "announce")
     \/ Finish("bulk") /\ UNCHANGED row
  /\ UNCHANGED <<stage, httpVars, pending, posts, kafkaVars, envVars, crashes>>

\* Its answer: a config id, or a timeout or error status.
Posted ==
  /\ task["bulk"].at = "posted"
  /\ \/ Commit("bulk", [deploy |-> "ready", config |-> TRUE, status |-> "ready"], "announce")
     \/ Goto("bulk", "fail") /\ UNCHANGED row
  /\ UNCHANGED <<stage, httpVars, pending, posts, kafkaVars, envVars, crashes>>

\* An error of publish_project_ready runs the except branch too.
Announce ==
  /\ task["bulk"].at = "announce"
  /\ \/ "kafka" \in Faults /\ Refreshed("bulk", "fail")
     \/ Finish("bulk")
  /\ UNCHANGED <<stage, row, httpVars, pending, posts, kafkaVars, envVars, crashes>>

Fail ==
  /\ task["bulk"].at = "fail"
  /\ Commit("bulk", [deploy |-> "failed", error |-> "deployment", status |-> "failed"], "idle")
  /\ UNCHANGED <<stage, httpVars, pending, posts, kafkaVars, envVars, crashes>>

Handle(t) ==
  \/ Take(t)
  \/ SaveStatus(t)
  \/ t = "bulk" /\ (SecretsReady \/ Pop \/ Ready \/ Creating \/ Post \/ Posted
                    \/ Announce \/ Fail)

-----------------------------------------------------------------------------
\* An instance dies and restarts: its store, requests and handlers are gone.
\* Its topics resume, on any instance, where the group had committed: the
\* consumer commits its position periodically, handled or not, so that may be
\* any point it passed.
Crash(i) ==
  LET mine == {t \in Topics : owner[t] = i} IN
  /\ crashes < MaxCrashes
  /\ crashes' = crashes + 1
  /\ pending' = [pending EXCEPT ![i] = {}]
  /\ request' = [p \in Projects |->
       IF home[p] = i /\ request[p] # "none" THEN "done" ELSE request[p]]
  /\ task' = [t \in Topics |-> IF t \in mine THEN Free ELSE task[t]]
  /\ \E resume \in [mine -> UNION {committed[t] .. position[t] : t \in mine}] :
       /\ \A t \in mine : resume[t] \in committed[t] .. position[t]
       /\ position' = [t \in Topics |-> IF t \in mine THEN resume[t] ELSE position[t]]
       /\ committed' = [t \in Topics |-> IF t \in mine THEN resume[t] ELSE committed[t]]
  /\ owner' \in [Topics -> Instances]
  /\ \A t \in Topics \ mine : owner'[t] = owner[t]
  /\ UNCHANGED <<stage, row, wants, home, removal, published, posts, log, envVars>>

Request(p) ==
  \/ SaveProject(p) \/ PublishCreated(p) \/ PublishLog(p) \/ StorePending(p)
  \/ DeleteRow(p) \/ AnnounceDeletion(p)

Others ==
  \/ \E p \in Projects : SecretsCreated(p)
  \/ \E d \in Deployments, s \in Topics \ {"bulk"} : DeploymentSays(d, s)

Next ==
  \/ \E p \in Projects : Request(p)
  \/ \E t \in Topics : Handle(t)
  \/ Others
  \/ \E i \in Instances : Crash(i)

Spec == Init /\ [][Next]_vars

\* Handlers and requests are coroutines of a running event loop and each
\* call has a timeout.
FairSpec ==
  /\ Spec
  /\ \A t \in Topics : WF_vars(Handle(t))
  /\ \A p \in Projects :
       WF_vars(PublishCreated(p) \/ PublishLog(p) \/ StorePending(p))

-----------------------------------------------------------------------------
Lifecycle == INSTANCE ProjectLifecycle WITH Projects <- Projects, stage <- stage, row <- row

(* Concurrent handlers do not undo each other: secrets that became ready    *)
(* stay ready, the config's progress only goes on, a stored URL and error   *)
(* stay, 'failed' comes with its error, and a deleted project is not        *)
(* brought back by a handler that had loaded it.                            *)
ImplementsLifecycle == Lifecycle!Spec

(* However often secrets.bulk_created is delivered, and whichever instance  *)
(* takes it, a project's config is posted to deployment-service once.       *)
PostedOnce == \A p \in Projects : posts[p] <= 1

-----------------------------------------------------------------------------
(* The inductive invariant                                                  *)

\* What is stored of p says together.
RowInv(p) ==
  /\ row[p].deploy = "ready" => row[p].config
  /\ row[p].status = "failed" => row[p].error # "none"

\* Until it is posted, the config of p is with the request that creates p, in
\* the store of the instance that ran it, or with the handler that popped it.
ConfigInv(p) ==
  /\ stage[p] = "new" => request[p] \in {"none", "done"}
  /\ request[p] # "done" => posts[p] = 0
  /\ request[p] \in {"publish", "log", "store"} /\ wants[p].config => row[p].deploy = "pending"
  /\ request[p] = "store" => wants[p].config
  /\ \A i \in Instances : p \in pending[i] =>
       /\ i = home[p] /\ request[p] = "done" /\ stage[p] # "new"
       /\ posts[p] = 0 /\ row[p].deploy = "pending"

\* What a handler loaded is at most as far as the row.
BaseInv(t) ==
  LET p == task[t].project
      base == task[t].base
  IN
  task[t].at # "idle" =>
    /\ stage[p] # "new"
    /\ base.url => row[p].url
    /\ base.config => row[p].config
    /\ base.error # "none" => row[p].error # "none"

\* The handler of secrets.bulk_created with the config of its project.
BulkInv ==
  LET at == task["bulk"].at
      p == task["bulk"].project
      base == task["bulk"].base
  IN
  /\ at # "save"
  /\ at \in {"creating", "post", "posted", "announce", "fail"} =>
       request[p] = "done" /\ \A i \in Instances : p \notin pending[i]
  /\ at \in {"creating", "post"} => posts[p] = 0
  /\ at = "creating" => row[p].deploy = "pending" /\ base.deploy = "pending"
  /\ at = "post" => row[p].deploy = "creating"
  /\ at = "posted" => row[p].deploy = "creating" /\ base.deploy = "creating"
  /\ at = "announce" => row[p].deploy = "ready"
  /\ at = "fail" => row[p].deploy \in {"creating", "ready"} /\ base.deploy = row[p].deploy

(* There is one way for a config to be posted, and a handler writes over a  *)
(* row it loaded earlier nothing that another one has set since.            *)
IInv ==
  /\ TypeOK
  /\ \A p \in Projects : RowInv(p) /\ ConfigInv(p)
  /\ \A t \in Topics : BaseInv(t)
  /\ BulkInv
  /\ PostedOnce

-----------------------------------------------------------------------------
total_steps(p) ==
  1 + (IF wants[p].secrets THEN 1 ELSE 0) + (IF row[p].deploy # "none" THEN 1 ELSE 0)
completed_steps(p) ==
  1 + (IF wants[p].secrets /\ row[p].secrets = "ready" THEN 1 ELSE 0)
    + (IF row[p].deploy = "ready" THEN 1 ELSE 0)
percentage(p) == (completed_steps(p) * 100) \div total_steps(p)

(* The progress a client polls goes back only when the config fails after   *)
(* all (project.ready could not be published).                              *)
ProgressGoesOn ==
  [][\A p \in Projects :
       stage[p] = "stored" /\ percentage(p)' < percentage(p) => row'[p].deploy = "failed"]_vars

(* While no call to PostgreSQL fails, a deployment config does not stay in  *)
(* 'creating': the POST ends in ready or failed, unless the instance dies.  *)
CreatingEnds ==
  \A p \in Projects :
    row[p].deploy = "creating" ~>
      (row[p].deploy # "creating" \/ stage[p] = "deleted" \/ crashes > 0)

(* Likewise a project whose secrets were created leaves 'initializing'.     *)
InitializingEnds ==
  \A p \in Projects :
    (\E k \in 1 .. Len(log["bulk"]) : log["bulk"][k] = p) ~>
      (row[p].status # "initializing" \/ stage[p] = "deleted" \/ crashes > 0)

-----------------------------------------------------------------------------
(* Statements of the repository the code does not keep                      *)

Settled ==
  /\ \A t \in Topics : task[t].at = "idle" /\ position[t] = Len(log[t])
  /\ \A p \in Projects : request[p] \in {"none", "done"} /\ removal[p] \in {"none", "done"}

(* The README's "deployment.running: Update project status": once every     *)
(* event is handled, a project whose only deployment runs is active.        *)
RunningIsActive ==
  Settled =>
    \A d \in Deployments :
      said[d] = "running" /\ stage[subject[d]] = "stored" => row[subject[d]].status = "active"

(* The README's "project.created_with_secrets: Trigger secret provisioning  *)
(* + deployment config": once the secrets are created, a project that came  *)
(* with a config has it posted.                                             *)
ConfigIsPosted ==
  Settled =>
    \A p \in Projects :
      stage[p] = "stored" /\ wants[p].config
        /\ (\E k \in 1 .. Len(log["bulk"]) : log["bulk"][k] = p)
      => posts[p] > 0
=============================================================================
