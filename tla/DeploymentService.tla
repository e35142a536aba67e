-------------------------- MODULE DeploymentService --------------------------
(***************************************************************************)
(* deployment-service: its two PostgreSQL tables, the Nomad jobs it        *)
(* registers, the goroutines that build and deploy, and the commands       *)
(* (deploy, retry, stop, delete project, create config) that interleave    *)
(* with them.  Every call to PostgreSQL, Nomad or Kafka is one step.       *)
(***************************************************************************)
EXTENDS DeploymentDomain, Integers, FiniteSets

CONSTANTS
  Deployments, \* identities of deployments (uuid.New)
  Projects,    \* project identifiers
  Envs,        \* the environments of a deployment config
  Deletable,   \* projects whose owner may delete them
  Callers,     \* HTTP requests in flight at a time: stop or create config
  MaxConfigs,  \* bound: config rows ever inserted
  Faults       \* which calls may fail: "db", "nomad", "kafka", and
               \* whether the process may get a SIGTERM or "crash"

ASSUME DeploymentsFinite == IsFiniteSet(Deployments)
ASSUME NamesExist ==
  Projects # {} /\ Deletable \subseteq Projects /\ Envs # {} /\ "" \notin Envs
ASSUME MaxConfigsIsNat == MaxConfigs \in Nat
ASSUME FaultKinds ==
  Faults \subseteq {"db", "nomad", "kafka", "sigterm", "crash"}

VARIABLES
  rows,       \* rows[d]: the status stored for d, None without a row
  said,       \* said[d]: the last status published for d, None before the first
  configs,    \* live rows of deployment_configs
  nextId,     \* the next config id (uuid.New, so never reused)
  pc,         \* pc[d]: where the command and then the goroutine of d stands
  dep,        \* dep[d]: the fields of the domain object that never change
  builds,     \* Nomad: the batch jobs build-{project}-{version}
  apps,       \* Nomad: deployments whose service job app-{id} is registered
  stops,      \* stop requests that passed the status check
  checked,    \* config creations that found no config and will insert one
  purge,      \* the consumer's progress in DeleteProjectCommand.Execute
  proc,       \* the process: "up", "draining" after SIGTERM, or "down"
  disturbed   \* history: deployments with a call lost or cut short, or
              \* whose project was deleted

vars == <<rows, said, configs, nextId, pc, dep, builds, apps, stops,
          checked, purge, proc, disturbed>>

nomadVars   == <<builds, apps>>
commandVars == <<stops, checked, purge>>
tableVars   == <<configs, nextId, dep>>

\* created_at is the zero time in a config made by CreateConfigCommand.
Config == [id : Nat, project : Projects, env : Envs, created : Nat]
NoConfig == [id |-> 0, project |-> CHOOSE p \in Projects : TRUE,
             env |-> CHOOSE e \in Envs : TRUE, created |-> 0]

BuildId == Projects \X Nat
BuildState == {"running", "succeeded", "failed", "killed"}

\* The steps of a goroutine in their order, then the two of failDeployment.
Steps == {"idle", "saveBuilding", "sayBuilding", "submitBuild", "awaitBuild",
          "saveDeploying", "sayDeploying", "submitApp", "saveRunning",
          "sayRunning", "saveFailed", "sayFailed", "done"}

Idle == [at |-> "idle", todo |-> {}, now |-> {}, deps |-> {},
         project |-> CHOOSE p \in Projects : TRUE]

Kind == {"deploy", "retry"}
\* History, of a retry: seen, the rows its version counted, and missed, the
\* rows of the project that a failing query kept from it.
Fields == [kind : Kind, config : Config, version : Nat,
           seen : SUBSET Deployments, missed : SUBSET Deployments]
StopReq == [by : Callers, dep : Deployments, at : {"kill", "save"}]
ConfigReq == [by : Callers, project : Projects, env : Envs]
PurgeState == [at : {"idle", "each", "jobs"}, project : Projects,
               todo : SUBSET Config, now : SUBSET Config, deps : SUBSET Deployments]

TablesOK ==
  /\ rows \in [Deployments -> Observed]
  /\ said \in [Deployments -> Observed]
  /\ configs \subseteq Config
  /\ nextId \in Nat \ {0}
GoroutinesOK ==
  /\ pc \in [Deployments -> Steps]
  /\ dep \in [Deployments -> Fields]
NomadOK ==
  /\ builds \subseteq [id : BuildId, state : BuildState]
  /\ apps \subseteq Deployments
CommandsOK ==
  /\ stops \subseteq StopReq
  /\ checked \subseteq ConfigReq
  /\ purge \in PurgeState
ProcessOK ==
  /\ proc \in {"up", "draining", "down"}
  /\ disturbed \subseteq Deployments

TypeOK == TablesOK /\ GoroutinesOK /\ NomadOK /\ CommandsOK /\ ProcessOK

Init ==
  /\ rows = [d \in Deployments |-> None]
  /\ said = [d \in Deployments |-> None]
  /\ configs = {}
  /\ nextId = 1
  /\ pc = [d \in Deployments |-> "idle"]
  /\ dep = [d \in Deployments |-> [kind |-> "deploy", config |-> NoConfig,
                                   version |-> 0, seen |-> {}, missed |-> {}]]
  /\ builds = {}
  /\ apps = {}
  /\ stops = {}
  /\ checked = {}
  /\ purge = Idle
  /\ proc = "up"
  /\ disturbed = {}

-----------------------------------------------------------------------------
(* Calls to PostgreSQL, Nomad and Kafka                                     *)

\* How a call can end: "ok", "err" without effect, or "lost": it took effect
\* but its reply did not arrive.  Once its context is cancelled it fails.
Outcome(call, live) ==
  (IF live THEN {"ok"} ELSE {"err"})
    \cup (IF call \in Faults THEN {"err", "lost"} ELSE {})

\* The request context of retry outlives SIGTERM; the consumer's context and
\* the app context of the goroutines are cancelled by it.
InRequest(d) == dep[d].kind = "retry" /\ pc[d] \in {"saveBuilding", "sayBuilding"}
Live(d) == proc = "up" \/ InRequest(d)

Goto(d, step) == pc' = [pc EXCEPT ![d] = step]
Disturb(D) == disturbed' = disturbed \cup D

ConfigsOf(p) == {c \in configs : c.project = p}
RowsOf(c) == {d \in Deployments : rows[d] # None /\ dep[d].config = c}

\* DeploymentRepo.Save is an upsert; inserting needs the config row (foreign
\* key), and by the cascade a row that exists has its config.
Upsert(d, s, o) ==
  rows' = IF o # "err" /\ dep[d].config \in configs
          THEN [rows EXCEPT ![d] = s] ELSE rows
Saved(d, o) == o = "ok" /\ dep[d].config \in configs

\* A step of d that saves status s and goes on to next, or to otherwise when
\* Save returns an error.
Save(d, s, next, otherwise) ==
  \E o \in Outcome("db", Live(d)) :
    /\ Upsert(d, s, o)
    /\ Goto(d, IF Saved(d, o) THEN next ELSE otherwise)
    /\ Disturb(IF Saved(d, o) THEN {} ELSE {d})
    /\ UNCHANGED <<said, nomadVars, commandVars, tableVars, proc>>

\* Publish errors are logged or ignored.
Publish(d, s, o) ==
  /\ said' = IF o = "err" THEN said ELSE [said EXCEPT ![d] = s]
  /\ Disturb(IF o = "err" THEN {d} ELSE {})

Say(d, s, next) ==
  /\ \E o \in Outcome("kafka", Live(d)) : Publish(d, s, o)
  /\ Goto(d, next)
  /\ UNCHANGED <<rows, nomadVars, commandVars, tableVars, proc>>

-----------------------------------------------------------------------------
(* DeployCommand and RetryCommand: Execute, then runBuildAndDeploy           *)

\* Mutant: the environment is not set.
NewConfigNoEnv(p, e, created) ==
  [id |-> nextId, project |-> p, env |-> "", created |-> created]

NewConfig(p, e, created) ==
  [id |-> nextId, project |-> p, env |-> e, created |-> created]

\* NewDeployment, MarkBuilding: the object d exists in memory only.
NewDeployment(d, kind, c, version, seen, missed) ==
  /\ pc[d] = "idle"
  /\ Goto(d, "saveBuilding")
  /\ dep' = [dep EXCEPT ![d] = [kind |-> kind, config |-> c, version |-> version,
                                seen |-> seen, missed |-> missed]]

\* One goroutine consumes the topics: it is free when it is neither inside
\* DeployCommand.Execute nor inside DeleteProjectCommand.Execute.
ConsumerFree ==
  /\ purge.at = "idle"
  /\ \A d \in Deployments :
       dep[d].kind = "deploy" => pc[d] \notin {"saveBuilding", "sayBuilding"}

\* Mutant: the schema without UNIQUE (project_id, environment).
NoConfigAsked(p, e) == TRUE
NoConfigFor(p, e) == ~ \E c \in ConfigsOf(p) : c.env = e

\* secrets.bulk_created: createConfig inserts a config with a new id.  UNIQUE
\* (project_id, environment) rejects it while there is a config: the event
\* fails.  A lost reply leaves the config without a deployment.
ReceiveBulkCreated(p, e) ==
  /\ proc = "up" /\ ConsumerFree
  /\ nextId <= MaxConfigs
  /\ NoConfigFor(p, e)
  /\ configs' = configs \cup {NewConfig(p, e, nextId)}
  /\ nextId' = nextId + 1
  /\ \/ \E d \in Deployments : NewDeployment(d, "deploy", NewConfig(p, e, nextId), 1, {}, {})
     \/ "db" \in Faults /\ UNCHANGED <<pc, dep>>
  /\ UNCHANGED <<rows, said, nomadVars, commandVars, proc, disturbed>>

\* GetByProjectID orders by created_at DESC; ties are in any order.
Latest(p) == {c \in ConfigsOf(p) : \A x \in ConfigsOf(p) : x.created <= c.created}

\* The rows of project p, and what a read of them returns: collectDeployments
\* keeps what it read before the connection broke, a part of the rows.
ProjectRows(p) == UNION {RowsOf(c) : c \in ConfigsOf(p)}
Counted(p) == IF "db" \in Faults THEN SUBSET ProjectRows(p) ELSE {ProjectRows(p)}

\* Mutant of Retry: failed deployments are not counted.
RetryCountsLive(d, p) ==
  /\ proc = "up"
  /\ \E c \in Latest(p) :
       LET seen == {x \in ProjectRows(p) : rows[x] # "failed"}
       IN  NewDeployment(d, "retry", c, Cardinality(seen) + 1, seen, {})
  /\ UNCHANGED <<rows, said, configs, nextId, nomadVars, commandVars,
                 proc, disturbed>>

\* POST /deployments/project/{p}/retry: the version counts the rows that the
\* query returned; its error is dropped.
Retry(d, p) ==
  /\ proc = "up"
  /\ \E c \in Latest(p), seen \in Counted(p) :
       NewDeployment(d, "retry", c, Cardinality(seen) + 1, seen, ProjectRows(p) \ seen)
  /\ UNCHANGED <<rows, said, configs, nextId, nomadVars, commandVars,
                 proc, disturbed>>

\* An error of the first Save makes Execute return: no goroutine starts.
SaveBuilding(d) ==
  pc[d] = "saveBuilding" /\ Save(d, "building", "sayBuilding", "done")

SayBuilding(d) ==
  pc[d] = "sayBuilding" /\ Say(d, "building", "submitBuild")

BuildOf(d) == <<dep[d].config.project, dep[d].version>>

\* Registering a batch job starts a build, unless the id is registered with
\* the same content and has ended: Nomad then keeps the old allocation.
RegisterBuild(d) ==
  \/ builds' = {b \in builds : b.id # BuildOf(d)}
                 \cup {[id |-> BuildOf(d), state |-> "running"]}
  \/ /\ \E b \in builds : b.id = BuildOf(d)
     /\ UNCHANGED builds

SubmitBuild(d) ==
  /\ pc[d] = "submitBuild"
  /\ \E o \in Outcome("nomad", Live(d)) :
       /\ IF o = "err" THEN UNCHANGED builds ELSE RegisterBuild(d)
       /\ Goto(d, IF o = "ok" THEN "awaitBuild" ELSE "saveFailed")
  /\ UNCHANGED <<rows, said, apps, commandVars, tableVars, proc, disturbed>>

\* Mutant of AwaitBuild: it returns without failDeployment.
AwaitBuildGivesUp(d) ==
  /\ pc[d] = "awaitBuild"
  /\ \/ /\ Live(d)
        /\ \E b \in builds : b.id = BuildOf(d) /\ b.state \in {"succeeded", "killed"}
        /\ Goto(d, "saveDeploying")
     \/ Goto(d, "done")
  /\ UNCHANGED <<rows, said, nomadVars, commandVars, tableVars, proc, disturbed>>

\* WaitForCompletion: nil for a completed allocation whose last event has no
\* exit code, which a killed one has not; an error for a failed build, after
\* 15 minutes, or when the context is cancelled.
AwaitBuild(d) ==
  /\ pc[d] = "awaitBuild"
  /\ \/ /\ Live(d)
        /\ \E b \in builds : b.id = BuildOf(d) /\ b.state \in {"succeeded", "killed"}
        /\ Goto(d, "saveDeploying")
     \/ Goto(d, "saveFailed")
  /\ UNCHANGED <<rows, said, nomadVars, commandVars, tableVars, proc, disturbed>>

\* DeployCommand gives up when MarkDeploying or MarkRunning cannot be stored;
\* RetryCommand logs the error and goes on.
SaveDeploying(d) ==
  /\ pc[d] = "saveDeploying"
  /\ Save(d, "deploying", "sayDeploying",
          IF dep[d].kind = "deploy" THEN "done" ELSE "sayDeploying")

SayDeploying(d) ==
  pc[d] = "sayDeploying" /\ Say(d, "deploying", "submitApp")

\* FetchForProject precedes the submission of a retry; its error is logged.
SubmitApp(d) ==
  /\ pc[d] = "submitApp"
  /\ \E o \in Outcome("nomad", Live(d)) :
       /\ apps' = IF o = "err" THEN apps ELSE apps \cup {d}
       /\ Goto(d, IF o = "ok" THEN "saveRunning" ELSE "saveFailed")
       /\ Disturb(IF o = "lost" THEN {d} ELSE {})
  /\ UNCHANGED <<rows, said, builds, commandVars, tableVars, proc>>

\* Mutant of SaveRunning: DeployCommand, too, logs the error and goes on.
SaveRunningGoesOn(d) ==
  pc[d] = "saveRunning" /\ Save(d, "running", "sayRunning", "sayRunning")

SaveRunning(d) ==
  /\ pc[d] = "saveRunning"
  /\ Save(d, "running", "sayRunning",
          IF dep[d].kind = "deploy" THEN "done" ELSE "sayRunning")

\* Mutant of SayRunning: a publish error fails the deployment.
SayRunningOrFail(d) ==
  /\ pc[d] = "sayRunning"
  /\ \E o \in Outcome("kafka", Live(d)) :
       Publish(d, "running", o) /\ Goto(d, IF o = "ok" THEN "done" ELSE "saveFailed")
  /\ UNCHANGED <<rows, nomadVars, commandVars, tableVars, proc>>

SayRunning(d) ==
  pc[d] = "sayRunning" /\ Say(d, "running", "done")

\* failDeployment: MarkFailed asks no table, and the event is published
\* whether or not the row was stored.
SaveFailed(d) ==
  pc[d] = "saveFailed" /\ Save(d, "failed", "sayFailed", "sayFailed")

SayFailed(d) ==
  pc[d] = "sayFailed" /\ Say(d, "failed", "done")

Pipeline(d) ==
  \/ SaveBuilding(d) \/ SayBuilding(d) \/ SubmitBuild(d) \/ AwaitBuild(d)
  \/ SaveDeploying(d) \/ SayDeploying(d) \/ SubmitApp(d) \/ SaveRunning(d)
  \/ SayRunning(d) \/ SaveFailed(d) \/ SayFailed(d)

\* Nomad runs the build to its end.
FinishBuild ==
  /\ \E b \in builds, end \in {"succeeded", "failed"} :
       /\ b.state = "running"
       /\ builds' = (builds \ {b}) \cup {[b EXCEPT !.state = end]}
  /\ UNCHANGED <<rows, said, apps, pc, commandVars, tableVars, proc, disturbed>>

-----------------------------------------------------------------------------
(* StopCommand.Execute                                                      *)

Free(q) == \A r \in stops \cup checked : r.by # q

\* Mutant of StopRead: no check of the status.
StopReadAny(q, d) ==
  /\ proc = "up" /\ Free(q)
  /\ rows[d] # None
  /\ stops' = stops \cup {[by |-> q, dep |-> d, at |-> "kill"]}
  /\ UNCHANGED <<rows, said, nomadVars, pc, tableVars, checked, purge, proc, disturbed>>

\* GetByID: any other status than running is answered with ErrNotRunning.
StopRead(q, d) ==
  /\ proc = "up" /\ Free(q)
  /\ rows[d] = "running"
  /\ stops' = stops \cup {[by |-> q, dep |-> d, at |-> "kill"]}
  /\ UNCHANGED <<rows, said, nomadVars, pc, tableVars, checked, purge, proc, disturbed>>

\* StopJob purges app-{id}; an error ends the request.
StopKill(r) ==
  /\ r \in stops /\ r.at = "kill"
  /\ \E o \in Outcome("nomad", TRUE) :
       /\ apps' = IF o = "err" THEN apps ELSE apps \ {r.dep}
       /\ stops' = (stops \ {r}) \cup (IF o = "ok" THEN {[r EXCEPT !.at = "save"]} ELSE {})
       /\ Disturb(IF o = "lost" THEN {r.dep} ELSE {})
  /\ UNCHANGED <<rows, said, builds, pc, tableVars, checked, purge, proc>>

\* MarkStopped on the copy read before, then Save.
StopSave(r) ==
  /\ r \in stops /\ r.at = "save"
  /\ \E o \in Outcome("db", TRUE) :
       /\ Upsert(r.dep, "stopped", o)
       /\ Disturb(IF Saved(r.dep, o) THEN {} ELSE {r.dep})
  /\ stops' = stops \ {r}
  /\ UNCHANGED <<said, nomadVars, pc, tableVars, checked, purge, proc>>

-----------------------------------------------------------------------------
(* CreateConfigCommand.Execute                                              *)

\* Access verified, no config found for the environment.
CheckConfig(q, p, e) ==
  /\ proc = "up" /\ Free(q)
  /\ NoConfigFor(p, e)
  /\ checked' = checked \cup {[by |-> q, project |-> p, env |-> e]}
  /\ UNCHANGED <<rows, said, nomadVars, pc, tableVars, stops, purge, proc, disturbed>>

\* The insert: UNIQUE rejects it when another one came first.
InsertConfig(x) ==
  /\ x \in checked
  /\ checked' = checked \ {x}
  /\ \/ /\ NoConfigFor(x.project, x.env)
        /\ nextId <= MaxConfigs
        /\ configs' = configs \cup {NewConfig(x.project, x.env, 0)}
        /\ nextId' = nextId + 1
     \/ /\ "db" \in Faults \/ ~NoConfigFor(x.project, x.env)
        /\ UNCHANGED <<configs, nextId>>
  /\ UNCHANGED <<rows, said, nomadVars, pc, dep, stops, purge, proc, disturbed>>

-----------------------------------------------------------------------------
(* DeleteProjectCommand.Execute, on project.deleted                         *)

\* Mutant of DropRows: the schema without ON DELETE CASCADE, DeleteByConfigID
\* a no-op.
DropNoRows(C) == rows' = rows
\* Rows go with their config by the cascade of the foreign key.
DropRows(C) ==
  rows' = [d \in Deployments |-> IF dep[d].config \in C THEN None ELSE rows[d]]
Owned(C) == {d \in Deployments : pc[d] # "idle" /\ dep[d].config \in C}

ReceiveDeleted(p) ==
  /\ proc = "up" /\ ConsumerFree
  /\ purge' = [Idle EXCEPT !.at = "each", !.project = p, !.todo = ConfigsOf(p)]
  /\ UNCHANGED <<rows, said, nomadVars, pc, tableVars, stops, checked, proc, disturbed>>

\* Mutant of PurgeRead: a failed query is tried again.
PurgeReadAgain ==
  /\ purge.at = "each"
  /\ \E c \in purge.todo :
       \/ /\ proc = "up"
          /\ purge' = [purge EXCEPT !.at = "jobs", !.now = {c}, !.deps = RowsOf(c),
                                    !.todo = @ \ {c}]
       \/ (proc = "draining" \/ "db" \in Faults) /\ UNCHANGED purge
  /\ UNCHANGED <<rows, said, nomadVars, pc, tableVars, stops, checked, proc, disturbed>>

\* Next config: its deployments; when the query fails the config is skipped.
PurgeRead ==
  /\ purge.at = "each"
  /\ \E c \in purge.todo :
       \/ /\ proc = "up"
          /\ purge' = [purge EXCEPT !.at = "jobs", !.now = {c}, !.deps = RowsOf(c),
                                    !.todo = @ \ {c}]
       \/ /\ proc = "draining" \/ "db" \in Faults
          /\ purge' = [purge EXCEPT !.todo = @ \ {c}]
  /\ UNCHANGED <<rows, said, nomadVars, pc, tableVars, stops, checked, proc, disturbed>>

\* StopJob for the app job and for the build job; errors are only logged.
Killed(d) ==
  {b \in builds : b.id # BuildOf(d) \/ b.state # "running"}
    \cup {[b EXCEPT !.state = "killed"] :
            b \in {x \in builds : x.id = BuildOf(d) /\ x.state = "running"}}

PurgeJobs(d) ==
  /\ purge.at = "jobs" /\ d \in purge.deps
  /\ \E o \in Outcome("nomad", proc = "up") :
       apps' = IF o = "err" THEN apps ELSE apps \ {d}
  /\ \E o \in Outcome("nomad", proc = "up") :
       builds' = IF o = "err" THEN builds ELSE Killed(d)
  /\ purge' = [purge EXCEPT !.deps = @ \ {d}]
  /\ Disturb({d})
  /\ UNCHANGED <<rows, said, pc, tableVars, stops, checked, proc>>

\* DeleteByConfigID; an error is only logged.
PurgeRows ==
  /\ purge.at = "jobs" /\ purge.deps = {}
  /\ \E o \in Outcome("db", proc = "up") :
       IF o = "err" THEN UNCHANGED rows ELSE DropRows(purge.now)
  /\ Disturb(Owned(purge.now))
  /\ purge' = [purge EXCEPT !.at = "each", !.now = {}]
  /\ UNCHANGED <<said, nomadVars, pc, tableVars, stops, checked, proc>>

\* DeleteByProjectID; an error fails the event.
PurgeConfigs ==
  /\ purge.at = "each" /\ purge.todo = {}
  /\ \E o \in Outcome("db", proc = "up") :
       IF o = "err" THEN UNCHANGED <<rows, configs>>
       ELSE /\ DropRows(ConfigsOf(purge.project))
            /\ configs' = configs \ ConfigsOf(purge.project)
  /\ Disturb(Owned(ConfigsOf(purge.project)))
  /\ purge' = Idle
  /\ UNCHANGED <<said, nomadVars, pc, nextId, dep, stops, checked, proc>>

-----------------------------------------------------------------------------
(* The process                                                              *)

\* SIGTERM cancels the app context; the HTTP server stops taking requests.
SigTerm ==
  /\ "sigterm" \in Faults /\ proc = "up"
  /\ proc' = "draining"
  /\ UNCHANGED <<rows, said, nomadVars, pc, tableVars, commandVars, disturbed>>

\* Memory is lost: goroutines, requests in flight.
LoseMemory ==
  /\ pc' = [d \in Deployments |-> IF pc[d] = "idle" THEN "idle" ELSE "done"]
  /\ stops' = {} /\ checked' = {} /\ purge' = Idle
  /\ proc' = "down"
  /\ UNCHANGED <<rows, said, nomadVars, tableVars>>

\* The calls that the end of the process cuts short.
CutOff == {d \in Deployments : pc[d] \notin {"idle", "done"}} \cup {r.dep : r \in stops}

\* main returns after Wait of both commands; Shutdown has given the requests
\* in flight 10 s, not more.
Exit ==
  /\ proc = "draining"
  /\ \A d \in Deployments : pc[d] \in {"idle", "done"} \/ InRequest(d)
  /\ purge.at = "idle"
  /\ LoseMemory
  /\ Disturb(CutOff)

Crash ==
  /\ "crash" \in Faults /\ proc # "down"
  /\ LoseMemory
  /\ Disturb(CutOff)

\* A new process looks at no deployment that was in flight.
Boot ==
  /\ proc = "down"
  /\ proc' = "up"
  /\ UNCHANGED <<rows, said, nomadVars, pc, tableVars, commandVars, disturbed>>

Consume ==
  \/ \E p \in Deletable : ReceiveDeleted(p)
  \/ \E p \in Projects, e \in Envs : ReceiveBulkCreated(p, e)
  \/ PurgeRead \/ PurgeRows \/ PurgeConfigs
  \/ \E d \in Deployments : PurgeJobs(d)

Serve ==
  \/ \E d \in Deployments, p \in Projects : Retry(d, p)
  \/ \E q \in Callers, d \in Deployments : StopRead(q, d)
  \/ \E r \in stops : StopKill(r) \/ StopSave(r)
  \/ \E q \in Callers, p \in Projects, e \in Envs : CheckConfig(q, p, e)
  \/ \E x \in checked : InsertConfig(x)

Next ==
  \/ \E d \in Deployments : Pipeline(d)
  \/ Consume
  \/ Serve
  \/ FinishBuild
  \/ SigTerm \/ Exit \/ Crash \/ Boot

Spec == Init /\ [][Next]_vars

-----------------------------------------------------------------------------
(* Properties                                                               *)

Lifecycle == INSTANCE DeploymentLifecycle WITH Deployments <- Deployments, rows <- rows, said <- said

(* Rows and events of every deployment follow the lifecycle: forward along  *)
(* the status table, outcomes final, one outcome announced.  At stake: the  *)
(* copies a goroutine, a second goroutine and stop requests save over each  *)
(* other, and MarkFailed, which asks no table.                              *)
ImplementsLifecycle == Lifecycle!Spec
TerminalIsFinal     == Lifecycle!TerminalIsFinal
OneOutcomeAnnounced == Lifecycle!OneOutcomeAnnounced

(* Delivering secrets.bulk_created again, or racing it with POST /configs,  *)
(* never leaves two event-triggered deployments for one project and         *)
(* environment: createConfig always inserts, UNIQUE admits one config, and  *)
(* a goroutine whose config was deleted cannot put its row back.            *)
DuplicateEventDeploysOnce ==
  \A d1, d2 \in Deployments :
    /\ d1 # d2
    /\ dep[d1].kind = "deploy" /\ dep[d2].kind = "deploy"
    /\ rows[d1] # None /\ rows[d2] # None
    => \/ dep[d1].config.project # dep[d2].config.project
       \/ dep[d1].config.env # dep[d2].config.env

(* deployment.running of a first deployment is never announced on a row     *)
(* that does not say so: while its config is there and no deletion is       *)
(* taking its rows, the row is running or has been stopped.                 *)
RunningIsStored ==
  \A d \in Deployments :
    /\ said[d] = "running" /\ dep[d].kind = "deploy"
    /\ rows[d] # None
    => rows[d] \in {"running", "stopped"}

(* A deployment none of whose calls was lost and whose project was not      *)
(* deleted has in the table what its goroutine last did.                    *)
StoredBy(d) ==
  CASE pc[d] \in {"idle", "saveBuilding"} -> {None}
    [] pc[d] \in {"sayBuilding", "submitBuild", "awaitBuild", "saveDeploying"} -> {"building"}
    [] pc[d] \in {"sayDeploying", "submitApp", "saveRunning"} -> {"deploying"}
    [] pc[d] = "saveFailed" -> {"building", "deploying"}
    [] pc[d] = "sayFailed" -> {"failed"}
    [] pc[d] = "sayRunning" -> {"running", "stopped"}
    [] pc[d] = "done" -> {"running", "stopped", "failed"}

RowTracksGoroutine ==
  \A d \in Deployments \ disturbed : rows[d] \in StoredBy(d)

(* Without such a disturbance no app job leaks and none is missing: a job   *)
(* in Nomad has a row that is deploying or running, and a running row has   *)
(* its job unless a stop request is between StopJob and Save.               *)
JobsMatchRows ==
  \A d \in Deployments \ disturbed :
    /\ d \in apps => rows[d] \in {"deploying", "running"}
    /\ rows[d] = "running" =>
         d \in apps \/ \E r \in stops : r.dep = d /\ r.at = "save"

(* A retry gets a higher version than every deployment it counted, hence    *)
(* another build job and image tag.  Two deployments share them only when    *)
(* neither was counted by the other (they overlapped, or a count was cut     *)
(* short), or when of what the earlier one had counted some were deleted     *)
(* since or were missed by the count of the later one.                       *)
RetryVersionsGrow ==
  \A d1, d2 \in Deployments :
    /\ d1 \in dep[d2].seen
    /\ dep[d1].seen \cap (disturbed \cup dep[d2].missed) = {}
    => dep[d1].version < dep[d2].version

-----------------------------------------------------------------------------
(* The inductive invariants.  IInv holds whatever is lost or deleted;       *)
(* JobsInv and CountsInv, inductive together with it, speak of deployments  *)
(* that were left undisturbed.                                              *)

\* What can be stored, and announced, while a goroutine stands at a step.
StoredAt(step) ==
  CASE step \in {"idle", "saveBuilding"} -> {None}
    [] step \in {"sayBuilding", "submitBuild", "awaitBuild", "saveDeploying"} ->
         {None, "building"}
    [] step \in {"sayDeploying", "submitApp", "saveRunning", "saveFailed"} ->
         {None, "building", "deploying"}
    [] step = "sayFailed" -> {None, "building", "deploying", "failed"}
    [] step = "sayRunning" -> {None, "building", "deploying", "running", "stopped"}
    [] OTHER -> Observed \ {"pending"}
SaidAt(step) ==
  CASE step \in {"idle", "saveBuilding", "sayBuilding"} -> {None}
    [] step \in {"submitBuild", "awaitBuild", "saveDeploying", "sayDeploying"} ->
         {None, "building"}
    [] step \in {"submitApp", "saveRunning", "sayRunning", "saveFailed", "sayFailed"} ->
         {None, "building", "deploying"}
    [] OTHER -> Observed

NeverAhead ==
  \A d \in Deployments : rows[d] \in StoredAt(pc[d]) /\ said[d] \in SaidAt(pc[d])

\* A stop request exists only for a goroutine that saves no more.
StopsAreLate ==
  \A r \in stops : /\ pc[r.dep] \in {"sayRunning", "done"}
                   /\ rows[r.dep] \in {None, "running", "stopped"}

\* The constraints of the schema and the freshness of ids.
RowHasConfig == \A d \in Deployments : rows[d] # None => dep[d].config \in configs
UniqueConfigs ==
  \A c1, c2 \in configs : c1.project = c2.project /\ c1.env = c2.env => c1 = c2
IdsAreUsed ==
  /\ \A c \in configs : c.id < nextId
  /\ \A d \in Deployments : dep[d].config.id < nextId
OneDeployPerConfig ==
  \A d1, d2 \in Deployments :
    /\ d1 # d2 /\ pc[d1] # "idle" /\ pc[d2] # "idle"
    /\ dep[d1].kind = "deploy" /\ dep[d2].kind = "deploy"
    => dep[d1].config # dep[d2].config

(* What the goroutines, the stop requests and the schema maintain together. *)
IInv ==
  /\ TypeOK
  /\ NeverAhead
  /\ StopsAreLate
  /\ RowHasConfig
  /\ UniqueConfigs
  /\ IdsAreUsed
  /\ OneDeployPerConfig

\* A stop request that will save has killed the job.
StopsHaveKilled == \A r \in stops : r.at = "save" => r.dep \notin apps

\* Left undisturbed, d has its row from its goroutine and its job from
\* SubmitApp until a stop request; whatever happens, only StopSave changes
\* the row of a first deployment that is running.
JobOf(d) ==
  /\ d \notin disturbed =>
       /\ rows[d] \in StoredBy(d)
       /\ pc[d] = "saveRunning" => d \in apps
       /\ d \in apps => \/ pc[d] = "saveRunning"
                        \/ pc[d] \in {"sayRunning", "done"} /\ rows[d] = "running"
       /\ rows[d] = "running" =>
            d \in apps \/ \E r \in stops : r.dep = d /\ r.at = "save"
  /\ dep[d].kind = "deploy" /\ (pc[d] = "sayRunning" \/ said[d] = "running")
       => rows[d] \in {None, "running", "stopped"}

(* Goroutine, row, event and job of every deployment agree.                 *)
JobsInv == StopsHaveKilled /\ \A d \in Deployments : JobOf(d)

\* What a retry counted or missed had been saved and belongs to its project;
\* it misses something only when PostgreSQL fails.
CountedAreSaved ==
  \A d \in Deployments : \A x \in dep[d].seen \cup dep[d].missed :
    /\ pc[x] \notin {"idle", "saveBuilding"}
    /\ dep[x].config.project = dep[d].config.project
VersionCounts ==
  \A d \in Deployments :
    /\ d \notin dep[d].seen /\ dep[d].seen \cap dep[d].missed = {}
    /\ "db" \notin Faults => dep[d].missed = {}
    /\ IF pc[d] = "idle" THEN dep[d].seen = {} /\ dep[d].missed = {}
                         ELSE dep[d].version = Cardinality(dep[d].seen) + 1
\* What the counted ones knew of is known to the later count too, counted or
\* missed, unless a deletion took it.
KnownStayKnown ==
  \A d \in Deployments : \A x \in dep[d].seen :
    dep[x].seen \cup dep[x].missed \subseteq dep[d].seen \cup dep[d].missed \cup disturbed

(* What the versions of retries count.                                      *)
CountsInv == CountedAreSaved /\ VersionCounts /\ KnownStayKnown

-----------------------------------------------------------------------------
(* Liveness: goroutines and the consumer are scheduled, and every call has  *)
(* a timeout (30 s per HTTP call, 15 minutes for a build).                  *)
Fairness ==
  /\ \A d \in Deployments : WF_vars(Pipeline(d))
  /\ WF_vars(PurgeRead \/ PurgeRows \/ PurgeConfigs \/ \E d \in Deployments : PurgeJobs(d))

FairSpec == Spec /\ Fairness

(* A deployment does not stay in progress: its row reaches an outcome or    *)
(* goes, unless a lost call or the end of the process cut it off (nothing   *)
(* resumes it at the next start).                                           *)
Settles ==
  \A d \in Deployments :
    rows[d] \in {"building", "deploying"} ~>
      (rows[d] \notin {"building", "deploying"} \/ d \in disturbed)

(* A project.deleted that is taken up is worked off, whatever fails.        *)
PurgeEnds == purge.at # "idle" ~> purge.at = "idle"

=============================================================================
