------------------------- MODULE ProjectServiceProofs -------------------------
(***************************************************************************)
(* Theorems about ProjectService, from the inductive invariant IInv, for   *)
(* any number of projects, instances, deployments and events and every set *)
(* of faults: a config is posted once, and concurrent handlers implement   *)
(* ProjectLifecycle.                                                       *)
(***************************************************************************)
EXTENDS ProjectService, TLAPS

Task == [at : Steps, project : Projects, base : Row]

LEMMA BlankIsRow == Blank \in Row
BY DEF Blank, Row, ProjectStatus, SecretsStatus, DeploymentState

LEMMA CreatedIsRow ==
  ASSUME NEW secrets \in BOOLEAN, NEW config \in BOOLEAN
  PROVE  /\ Created(secrets, config) \in Row
         /\ Created(secrets, config).deploy = IF config THEN "pending" ELSE "none"
         /\ Created(secrets, config).status # "failed"
BY BlankIsRow DEF Created, Blank, Row, ProjectStatus, SecretsStatus, DeploymentState

LEMMA FreeIsTask == Free \in Task /\ Free.at = "idle"
<1>1. (CHOOSE p \in Projects : TRUE) \in Projects
  BY SomeInstance
<1> QED
  BY <1>1, BlankIsRow DEF Free, Task, Steps

\* What IInv says of the handlers.
LEMMA Facts ==
  ASSUME IInv
  PROVE  /\ \A t \in Topics : /\ task[t] \in Task /\ task[t].at \in Steps
                              /\ task[t].project \in Projects /\ task[t].base \in Row
         /\ \A p \in Projects : row[p] \in Row /\ posts[p] \in Nat
         /\ "bulk" \in Topics
         /\ \A t \in Topics : owner[t] \in Instances
BY DEF IInv, TypeOK, Task, Topics

LEMMA InitInv == Init => IInv
<1> SUFFICES ASSUME Init PROVE IInv
  OBVIOUS
<1>1. TypeOK
  BY BlankIsRow, FreeIsTask, BoundsAreNat DEF Init, TypeOK, Task, Observed
<1>2. \A p \in Projects : RowInv(p) /\ ConfigInv(p)
  BY DEF Init, RowInv, ConfigInv, Blank
<1>3. \A t \in Topics : BaseInv(t)
  BY FreeIsTask DEF Init, BaseInv
<1>4. BulkInv
  BY FreeIsTask DEF Init, BulkInv, Topics
<1>5. PostedOnce
  BY DEF Init, PostedOnce
<1> QED
  BY <1>1, <1>2, <1>3, <1>4, <1>5 DEF IInv

-----------------------------------------------------------------------------
(* Steps of a handler                                                       *)

LEMMA TaskType ==
  ASSUME TypeOK, NEW t \in Topics, NEW u \in Task, task' = [task EXCEPT ![t] = u]
  PROVE  /\ task' \in [Topics -> Task]
         /\ task'[t] = u
         /\ \A r \in Topics \ {t} : task'[r] = task[r]
BY DEF TypeOK, Task

LEMMA Going ==
  ASSUME IInv, NEW t \in Topics, NEW step \in Steps, Goto(t, step)
  PROVE  \E u \in Task : /\ task' = [task EXCEPT ![t] = u]
                         /\ u.at = step
                         /\ u.project = task[t].project /\ u.base = task[t].base
<1>1. task[t] \in Task
  BY Facts
<1>2. PICK u : u = [task[t] EXCEPT !.at = step]
  OBVIOUS
<1>3. /\ u \in Task
      /\ u.at = step /\ u.project = task[t].project /\ u.base = task[t].base
  BY <1>1, <1>2 DEF Task
<1>4. task' = [task EXCEPT ![t] = u]
  BY <1>2 DEF Goto, IInv, TypeOK
<1> QED
  BY <1>3, <1>4

LEMMA Finishing ==
  ASSUME IInv, NEW t \in Topics, Finish(t)
  PROVE  task' = [task EXCEPT ![t] = Free] /\ Free \in Task /\ Free.at = "idle"
BY FreeIsTask DEF Finish

\* The handler of t writes `new`, which is further than the row, or fails.
LEMMA CommitInv ==
  ASSUME IInv, NEW t \in Topics, NEW new \in Row, NEW u \in Task,
         task[t].at # "idle",
         UNCHANGED <<stage, httpVars, pending, posts, kafkaVars, envVars, crashes>>,
         row' \in {row, [row EXCEPT ![task[t].project] = new]},
         Lifecycle!Advances(row[task[t].project], new),
         \/ new.deploy = row[task[t].project].deploy
         \/ t = "bulk" /\ task[t].at \in {"creating", "posted", "fail"},
         task' = [task EXCEPT ![t] = u],
         u.at # "idle" =>
           /\ t = "bulk" /\ row' = [row EXCEPT ![task[t].project] = new]
           /\ u.project = task[t].project /\ u.base = task[t].base
           /\ \/ u.at = "pop"
              \/ u.at = "post" /\ task[t].at = "creating" /\ new.deploy = "creating"
              \/ u.at = "announce" /\ task[t].at = "posted" /\ new.deploy = "ready"
  PROVE  IInv'
<1> DEFINE p == task[t].project
<1>1. /\ UNCHANGED <<stage, pending, posts, crashes>>
      /\ UNCHANGED <<wants, request, home, removal, published>>
      /\ UNCHANGED <<log, position, committed, owner, said, subject>>
  BY DEF httpVars, kafkaVars, envVars
<1>2. /\ task' \in [Topics -> Task] /\ task'[t] = u
      /\ \A r \in Topics \ {t} : task'[r] = task[r]
  BY TaskType DEF IInv
<1>3. p \in Projects
  BY Facts
<1>4. /\ row' \in [Projects -> Row]
      /\ \A q \in Projects \ {p} : row'[q] = row[q]
      /\ row'[p] \in {row[p], new}
      /\ row' = [row EXCEPT ![p] = new] => row'[p] = new
  <2> HIDE DEF p
  <2>1. row \in [Projects -> Row]
    BY DEF IInv, TypeOK
  <2>2. row' = row \/ row' = [row EXCEPT ![p] = new]
    BY DEF p
  <2> QED
    BY <1>3, <2>1, <2>2
<1>5. /\ row[p].url => row'[p].url
      /\ row[p].config => row'[p].config
      /\ row[p].error # "none" => row'[p].error # "none"
      /\ new.deploy = "ready" => new.config
      /\ new.status = "failed" => new.error # "none"
  BY <1>4 DEF Lifecycle!Advances
<1>6. TypeOK'
  BY <1>1, <1>2, <1>4 DEF IInv, TypeOK, Task
<1>7. \A q \in Projects : RowInv(q)'
  BY <1>4, <1>5 DEF IInv, RowInv
<1>8. \A q \in Projects : ConfigInv(q)'
  <2>1. \A q \in Projects : row'[q].deploy # row[q].deploy =>
          q = p /\ t = "bulk" /\ request[q] = "done" /\ \A i \in Instances : q \notin pending[i]
    BY <1>4 DEF IInv, BulkInv
  <2> QED
    BY <1>1, <2>1 DEF IInv, ConfigInv
<1>9. \A r \in Topics : BaseInv(r)'
  <2> SUFFICES ASSUME NEW r \in Topics, task'[r].at # "idle" PROVE BaseInv(r)'
    BY DEF BaseInv
  <2>1. /\ task[r].at # "idle"
        /\ task'[r].project = task[r].project /\ task'[r].base = task[r].base
    BY <1>2
  <2>2. task[r].project \in Projects
    BY Facts
  <2>3. \A q \in Projects : /\ row[q].url => row'[q].url
                            /\ row[q].config => row'[q].config
                            /\ row[q].error # "none" => row'[q].error # "none"
    BY <1>4, <1>5
  <2>4. BaseInv(r)
    BY DEF IInv
  <2> QED
    BY <1>1, <2>1, <2>2, <2>3, <2>4 DEF BaseInv
<1>10. BulkInv'
  <2>1. CASE t = "bulk"
    <3>1. BulkInv
      BY DEF IInv
    <3> QED
      BY <1>1, <1>2, <1>3, <1>4, <2>1, <3>1 DEF BulkInv
  <2>2. CASE t # "bulk"
    <3>1. BulkInv /\ task["bulk"].project \in Projects /\ task'["bulk"] = task["bulk"]
      BY <1>2, <2>2, Facts DEF IInv
    <3>2. \A q \in Projects : row'[q].deploy = row[q].deploy
      BY <1>4, <2>2
    <3> QED
      BY <1>1, <3>1, <3>2 DEF BulkInv
  <2> QED BY <2>1, <2>2
<1>11. PostedOnce'
  BY <1>1 DEF IInv, PostedOnce
<1> QED
  BY <1>6, <1>7, <1>8, <1>9, <1>10, <1>11 DEF IInv

-----------------------------------------------------------------------------
(* The columns a handler writes                                             *)

\* What one handler loaded against what is stored, and what is stored.
Behind(base, old) ==
  /\ base.url => old.url
  /\ base.config => old.config
  /\ base.error # "none" => old.error # "none"
Sound(r) ==
  /\ r.deploy = "ready" => r.config
  /\ r.status = "failed" => r.error # "none"

LEMMA LifecycleNames == Lifecycle!Row = Row /\ Lifecycle!NextDeploy = NextDeploy
BY DEF Lifecycle!Row, Row, Lifecycle!NextDeploy, NextDeploy, Lifecycle!ProjectStatus, ProjectStatus,
       Lifecycle!SecretsStatus, SecretsStatus, Lifecycle!DeploymentState, DeploymentState

\* An UPDATE of some columns, field by field.
LEMMA WrittenRow ==
  ASSUME NEW old \in Row, NEW base \in Row, NEW set,
         "status" \in DOMAIN set => set["status"] \in ProjectStatus,
         "secrets" \in DOMAIN set => set["secrets"] \in SecretsStatus,
         "deploy" \in DOMAIN set => set["deploy"] \in DeploymentState,
         "error" \in DOMAIN set => set["error"] \in {"none", "deployment"},
         "url" \in DOMAIN set => set["url"] \in BOOLEAN,
         "config" \in DOMAIN set => set["config"] \in BOOLEAN
  PROVE  LET new == Written(old, base, set)
             written(c) == c \in DOMAIN set /\ set[c] # base[c]
         IN
         /\ new \in Row
         /\ new.status = IF written("status") THEN set["status"] ELSE old.status
         /\ new.secrets = IF written("secrets") THEN set["secrets"] ELSE old.secrets
         /\ new.deploy = IF written("deploy") THEN set["deploy"] ELSE old.deploy
         /\ new.error = IF written("error") THEN set["error"] ELSE old.error
         /\ new.url = IF written("url") THEN set["url"] ELSE old.url
         /\ new.config = IF written("config") THEN set["config"] ELSE old.config
BY DEF Written, Row

LEMMA SecretsReadyColumns ==
  ASSUME NEW old \in Row, NEW base \in Row, Behind(base, old), Sound(old)
  PROVE  LET new == Written(old, base, [secrets |-> "ready"]) IN
         new \in Row /\ Lifecycle!Advances(old, new) /\ new.deploy = old.deploy
<1>1. PICK new : new = Written(old, base, [secrets |-> "ready"])
  OBVIOUS
<1>2. new \in Row
      /\ new.status = old.status
      /\ new.secrets = (IF base.secrets # "ready" THEN "ready" ELSE old.secrets)
      /\ new.deploy = old.deploy
      /\ new.error = old.error
      /\ new.url = old.url
      /\ new.config = old.config
  BY <1>1, WrittenRow DEF ProjectStatus, SecretsStatus, DeploymentState
<1>3. Lifecycle!Advances(old, new)
  BY <1>2, LifecycleNames DEF Behind, Sound, Lifecycle!Advances, NextDeploy, DeploymentState, Row
<1> QED
  BY <1>1, <1>2, <1>3

LEMMA ReadyColumns ==
  ASSUME NEW old \in Row, NEW base \in Row, Behind(base, old), Sound(old)
  PROVE  LET new == Written(old, base, [status |-> "ready"]) IN
         new \in Row /\ Lifecycle!Advances(old, new) /\ new.deploy = old.deploy
<1>1. PICK new : new = Written(old, base, [status |-> "ready"])
  OBVIOUS
<1>2. new \in Row
      /\ new.status = (IF base.status # "ready" THEN "ready" ELSE old.status)
      /\ new.secrets = old.secrets
      /\ new.deploy = old.deploy
      /\ new.error = old.error
      /\ new.url = old.url
      /\ new.config = old.config
  BY <1>1, WrittenRow DEF ProjectStatus, SecretsStatus, DeploymentState
<1>3. Lifecycle!Advances(old, new)
  BY <1>2, LifecycleNames DEF Behind, Sound, Lifecycle!Advances, NextDeploy, DeploymentState, Row
<1> QED
  BY <1>1, <1>2, <1>3

LEMMA CreatingColumns ==
  ASSUME NEW old \in Row, NEW base \in Row, Behind(base, old), Sound(old),
         old.deploy = "pending", base.deploy = "pending"
  PROVE  LET new == Written(old, base, [deploy |-> "creating"]) IN
         new \in Row /\ Lifecycle!Advances(old, new) /\ new.deploy = "creating"
<1>1. PICK new : new = Written(old, base, [deploy |-> "creating"])
  OBVIOUS
<1>2. new \in Row
      /\ new.status = old.status
      /\ new.secrets = old.secrets
      /\ new.deploy = (IF base.deploy # "creating" THEN "creating" ELSE old.deploy)
      /\ new.error = old.error
      /\ new.url = old.url
      /\ new.config = old.config
  BY <1>1, WrittenRow DEF ProjectStatus, SecretsStatus, DeploymentState
<1>3. Lifecycle!Advances(old, new)
  BY <1>2, LifecycleNames DEF Behind, Sound, Lifecycle!Advances, NextDeploy, DeploymentState, Row
<1> QED
  BY <1>1, <1>2, <1>3

LEMMA PostedColumns ==
  ASSUME NEW old \in Row, NEW base \in Row, Behind(base, old), Sound(old),
         old.deploy = "creating", base.deploy = "creating"
  PROVE  LET new == Written(old, base, [deploy |-> "ready", config |-> TRUE, status |-> "ready"]) IN
         new \in Row /\ Lifecycle!Advances(old, new) /\ new.deploy = "ready"
<1>1. PICK new : new = Written(old, base, [deploy |-> "ready", config |-> TRUE, status |-> "ready"])
  OBVIOUS
<1>2. new \in Row
      /\ new.status = (IF base.status # "ready" THEN "ready" ELSE old.status)
      /\ new.secrets = old.secrets
      /\ new.deploy = (IF base.deploy # "ready" THEN "ready" ELSE old.deploy)
      /\ new.error = old.error
      /\ new.url = old.url
      /\ new.config = (IF base.config = TRUE THEN old.config ELSE TRUE)
  BY <1>1 DEF Written, Row, ProjectStatus, SecretsStatus, DeploymentState
<1>3. Lifecycle!Advances(old, new)
  BY <1>2, LifecycleNames DEF Behind, Sound, Lifecycle!Advances, NextDeploy, DeploymentState, Row
<1> QED
  BY <1>1, <1>2, <1>3

LEMMA FailColumns ==
  ASSUME NEW old \in Row, NEW base \in Row, Behind(base, old), Sound(old),
         old.deploy \in {"creating", "ready"}, base.deploy = old.deploy
  PROVE  LET new == Written(old, base, [deploy |-> "failed", error |-> "deployment", status |-> "failed"]) IN
         new \in Row /\ Lifecycle!Advances(old, new)
<1>1. PICK new : new = Written(old, base, [deploy |-> "failed", error |-> "deployment", status |-> "failed"])
  OBVIOUS
<1>2. new \in Row
      /\ new.status = (IF base.status # "failed" THEN "failed" ELSE old.status)
      /\ new.secrets = old.secrets
      /\ new.deploy = (IF base.deploy # "failed" THEN "failed" ELSE old.deploy)
      /\ new.error = (IF base.error # "deployment" THEN "deployment" ELSE old.error)
      /\ new.url = old.url
      /\ new.config = old.config
  BY <1>1, WrittenRow DEF ProjectStatus, SecretsStatus, DeploymentState
<1>3. Lifecycle!Advances(old, new)
  BY <1>2, LifecycleNames DEF Behind, Sound, Lifecycle!Advances, NextDeploy, DeploymentState, Row
<1> QED
  BY <1>1, <1>2, <1>3

LEMMA PendingColumns ==
  ASSUME NEW old \in Row, NEW base \in Row, Behind(base, old), Sound(old)
  PROVE  LET new == Written(old, base, [status |-> "deployment_pending"]) IN
         new \in Row /\ Lifecycle!Advances(old, new) /\ new.deploy = old.deploy
<1>1. PICK new : new = Written(old, base, [status |-> "deployment_pending"])
  OBVIOUS
<1>2. new \in Row
      /\ new.status = (IF base.status # "deployment_pending" THEN "deployment_pending" ELSE old.status)
      /\ new.secrets = old.secrets
      /\ new.deploy = old.deploy
      /\ new.error = old.error
      /\ new.url = old.url
      /\ new.config = old.config
  BY <1>1, WrittenRow DEF ProjectStatus, SecretsStatus, DeploymentState
<1>3. Lifecycle!Advances(old, new)
  BY <1>2, LifecycleNames DEF Behind, Sound, Lifecycle!Advances, NextDeploy, DeploymentState, Row
<1> QED
  BY <1>1, <1>2, <1>3

LEMMA RunningColumns ==
  ASSUME NEW old \in Row, NEW base \in Row, Behind(base, old), Sound(old)
  PROVE  LET new == Written(old, base, [status |-> "active", url |-> TRUE]) IN
         new \in Row /\ Lifecycle!Advances(old, new) /\ new.deploy = old.deploy
<1>1. PICK new : new = Written(old, base, [status |-> "active", url |-> TRUE])
  OBVIOUS
<1>2. new \in Row
      /\ new.status = (IF base.status # "active" THEN "active" ELSE old.status)
      /\ new.secrets = old.secrets
      /\ new.deploy = old.deploy
      /\ new.error = old.error
      /\ new.url = (IF base.url = TRUE THEN old.url ELSE TRUE)
      /\ new.config = old.config
  BY <1>1 DEF Written, Row, ProjectStatus, SecretsStatus, DeploymentState
<1>3. Lifecycle!Advances(old, new)
  BY <1>2, LifecycleNames DEF Behind, Sound, Lifecycle!Advances, NextDeploy, DeploymentState, Row
<1> QED
  BY <1>1, <1>2, <1>3

LEMMA FailedColumns ==
  ASSUME NEW old \in Row, NEW base \in Row, Behind(base, old), Sound(old)
  PROVE  LET new == Written(old, base, [status |-> "failed", error |-> "deployment"]) IN
         new \in Row /\ Lifecycle!Advances(old, new) /\ new.deploy = old.deploy
<1>1. PICK new : new = Written(old, base, [status |-> "failed", error |-> "deployment"])
  OBVIOUS
<1>2. new \in Row
      /\ new.status = (IF base.status # "failed" THEN "failed" ELSE old.status)
      /\ new.secrets = old.secrets
      /\ new.deploy = old.deploy
      /\ new.error = (IF base.error # "deployment" THEN "deployment" ELSE old.error)
      /\ new.url = old.url
      /\ new.config = old.config
  BY <1>1, WrittenRow DEF ProjectStatus, SecretsStatus, DeploymentState
<1>3. Lifecycle!Advances(old, new)
  BY <1>2, LifecycleNames DEF Behind, Sound, Lifecycle!Advances, NextDeploy, DeploymentState, Row
<1> QED
  BY <1>1, <1>2, <1>3

LEMMA StatusChangedColumns ==
  ASSUME NEW old \in Row, NEW base \in Row, Behind(base, old), Sound(old),
         NEW t \in Topics \ {"bulk"}
  PROVE  LET new == Written(old, base, StatusColumns(t)) IN
         new \in Row /\ Lifecycle!Advances(old, new) /\ new.deploy = old.deploy
<1>1. CASE t \in {"building", "deploying"}
  BY <1>1, PendingColumns DEF StatusColumns
<1>2. CASE t = "running"
  BY <1>2, RunningColumns DEF StatusColumns
<1>3. CASE t = "failed"
  BY <1>3, FailedColumns DEF StatusColumns
<1> QED
  BY <1>1, <1>2, <1>3 DEF Topics

-----------------------------------------------------------------------------
(* Every action keeps IInv, and is a step of ProjectLifecycle or stutters   *)

Goes == IInv' /\ [Lifecycle!Next]_<<stage, row>>

LEMMA Loaded ==
  ASSUME IInv, NEW t \in Topics, task[t].at # "idle"
  PROVE  /\ Behind(task[t].base, row[task[t].project]) /\ Sound(row[task[t].project])
         /\ row[task[t].project] \in Row /\ task[t].base \in Row
         /\ task[t].project \in Projects
BY Facts DEF IInv, BaseInv, RowInv, Behind, Sound

\* A commit that advances the row.
LEMMA CommitGoes ==
  ASSUME IInv, NEW t \in Topics, NEW set, NEW next \in Steps, Commit(t, set, next),
         task[t].at # "idle",
         UNCHANGED <<stage, httpVars, pending, posts, kafkaVars, envVars, crashes>>,
         NEW new \in Row, new = Written(row[task[t].project], task[t].base, set),
         Lifecycle!Advances(row[task[t].project], new),
         \/ new.deploy = row[task[t].project].deploy
         \/ t = "bulk" /\ task[t].at \in {"creating", "posted", "fail"},
         next # "idle" =>
           /\ t = "bulk"
           /\ \/ next = "pop"
              \/ next = "post" /\ task[t].at = "creating" /\ new.deploy = "creating"
              \/ next = "announce" /\ task[t].at = "posted" /\ new.deploy = "ready"
  PROVE  Goes
<1>1. PICK o \in Outcome("db") :
        /\ row' = IF o = "err" \/ stage[task[t].project] # "stored" THEN row
                  ELSE [row EXCEPT ![task[t].project] =
                          Written(@, task[t].base, set)]
        /\ IF o = "ok" /\ stage[task[t].project] = "stored" /\ next # "idle"
           THEN Goto(t, next) ELSE Finish(t)
  BY DEF Commit
<1>2. task[t].project \in Projects
  BY Facts
<1>3. /\ row' \in {row, [row EXCEPT ![task[t].project] = new]}
      /\ row' # row => stage[task[t].project] = "stored"
      /\ o = "ok" /\ stage[task[t].project] = "stored" =>
           row' = [row EXCEPT ![task[t].project] = new]
  BY <1>1, <1>2 DEF IInv, TypeOK
<1>4. IInv'
  <2>1. CASE Finish(t)
    BY <1>3, <2>1, Finishing, CommitInv
  <2>2. CASE /\ Goto(t, next) /\ next # "idle"
             /\ row' = [row EXCEPT ![task[t].project] = new]
    <3>1. PICK u \in Task : /\ task' = [task EXCEPT ![t] = u] /\ u.at = next
                            /\ u.project = task[t].project /\ u.base = task[t].base
      BY <2>2, Going
    <3> QED
      BY <2>2, <3>1, CommitInv
  <2> QED
    BY <1>1, <1>3, <2>1, <2>2
<1>5. [Lifecycle!Next]_<<stage, row>>
  <2> SUFFICES ASSUME row' # row PROVE Lifecycle!Next
    OBVIOUS
  <2> DEFINE p == task[t].project
  <2>1. /\ row \in [Projects -> Row] /\ row' = [row EXCEPT ![p] = new] /\ p \in Projects
        /\ stage[p] = "stored"
    BY <1>2, <1>3 DEF IInv, TypeOK
  <2> HIDE DEF p
  <2>2. /\ row'[p] = new /\ DOMAIN row' = Projects
        /\ \A q \in Projects \ {p} : row'[q] = row[q]
    BY <2>1
  <2>3. Lifecycle!Advances(row[p], row'[p])
    BY <2>2 DEF p
  <2>4. Lifecycle!Update(p)
    BY <2>1, <2>2, <2>3 DEF Lifecycle!Update
  <2> QED
    BY <2>1, <2>4 DEF Lifecycle!Next
<1> QED
  BY <1>4, <1>5 DEF Goes

LEMMA SaveStatusGoes ==
  ASSUME IInv, NEW t \in Topics, SaveStatus(t)
  PROVE  Goes
<1>1. t # "bulk" /\ task[t].at # "idle"
  BY DEF SaveStatus, IInv, BulkInv
<1>2. PICK new : new = Written(row[task[t].project], task[t].base, StatusColumns(t))
  OBVIOUS
<1>3. /\ new \in Row /\ Lifecycle!Advances(row[task[t].project], new)
      /\ new.deploy = row[task[t].project].deploy
  BY <1>1, <1>2, Loaded, StatusChangedColumns
<1> QED
  BY <1>1, <1>2, <1>3, CommitGoes DEF SaveStatus, Steps

LEMMA SecretsReadyGoes ==
  ASSUME IInv, SecretsReady
  PROVE  Goes
<1>1. "bulk" \in Topics /\ task["bulk"].at # "idle"
  BY DEF SecretsReady, Topics
<1>2. PICK new : new = Written(row[task["bulk"].project], task["bulk"].base, [secrets |-> "ready"])
  OBVIOUS
<1>3. /\ new \in Row /\ Lifecycle!Advances(row[task["bulk"].project], new)
      /\ new.deploy = row[task["bulk"].project].deploy
  BY <1>1, <1>2, Loaded, SecretsReadyColumns
<1> QED
  BY <1>1, <1>2, <1>3, CommitGoes DEF SecretsReady, Steps

LEMMA ReadyGoes ==
  ASSUME IInv, Ready
  PROVE  Goes
<1>1. "bulk" \in Topics /\ task["bulk"].at # "idle"
  BY DEF Ready, Topics
<1>2. PICK new : new = Written(row[task["bulk"].project], task["bulk"].base, [status |-> "ready"])
  OBVIOUS
<1>3. /\ new \in Row /\ Lifecycle!Advances(row[task["bulk"].project], new)
      /\ new.deploy = row[task["bulk"].project].deploy
  BY <1>1, <1>2, Loaded, ReadyColumns
<1> QED
  BY <1>1, <1>2, <1>3, CommitGoes DEF Ready, Steps

LEMMA CreatingGoes ==
  ASSUME IInv, Creating
  PROVE  Goes
<1>1. /\ "bulk" \in Topics /\ task["bulk"].at = "creating"
      /\ row[task["bulk"].project].deploy = "pending" /\ task["bulk"].base.deploy = "pending"
  BY DEF Creating, Topics, IInv, BulkInv
<1>2. PICK new : new = Written(row[task["bulk"].project], task["bulk"].base, [deploy |-> "creating"])
  OBVIOUS
<1>3. /\ new \in Row /\ Lifecycle!Advances(row[task["bulk"].project], new)
      /\ new.deploy = "creating"
  BY <1>1, <1>2, Loaded, CreatingColumns
<1> QED
  BY <1>1, <1>2, <1>3, CommitGoes DEF Creating, Steps

LEMMA FailGoes ==
  ASSUME IInv, Fail
  PROVE  Goes
<1>1. /\ "bulk" \in Topics /\ task["bulk"].at = "fail"
      /\ row[task["bulk"].project].deploy \in {"creating", "ready"}
      /\ task["bulk"].base.deploy = row[task["bulk"].project].deploy
  BY DEF Fail, Topics, IInv, BulkInv
<1>2. PICK new : new = Written(row[task["bulk"].project], task["bulk"].base,
                               [deploy |-> "failed", error |-> "deployment", status |-> "failed"])
  OBVIOUS
<1>3. new \in Row /\ Lifecycle!Advances(row[task["bulk"].project], new)
  BY <1>1, <1>2, Loaded, FailColumns
<1> QED
  BY <1>1, <1>2, <1>3, CommitGoes DEF Fail, Steps

\* A handler goes on without a change of the row.
LEMMA MoveInv ==
  ASSUME IInv, NEW t \in Topics, NEW u \in Task, task' = [task EXCEPT ![t] = u],
         UNCHANGED <<stage, row, httpVars, envVars, crashes>>,
         log' = log, committed' = committed, owner' = owner,
         position' \in [Topics -> Nat],
         pending' \in [Instances -> SUBSET Projects],
         \A i \in Instances : pending'[i] \subseteq pending[i],
         posts' \in [Projects -> Nat],
         \A p \in Projects : posts'[p] # posts[p] =>
           t = "bulk" /\ task[t].at = "post" /\ p = task[t].project /\ posts'[p] = 1,
         task[t].at = "post" => u.at # "post",
         u.at # "idle" =>
           /\ stage[u.project] # "new"
           /\ Behind(u.base, row[u.project]),
         t = "bulk" => BulkInv'
  PROVE  IInv'
<1>1. /\ UNCHANGED <<stage, row, crashes>>
      /\ UNCHANGED <<wants, request, home, removal, published>>
      /\ UNCHANGED <<said, subject>>
  BY DEF httpVars, envVars
<1>2. /\ task' \in [Topics -> Task] /\ task'[t] = u
      /\ \A r \in Topics \ {t} : task'[r] = task[r]
  BY TaskType DEF IInv
<1>3. TypeOK'
  BY <1>1, <1>2 DEF IInv, TypeOK, Task
<1>4. \A q \in Projects : RowInv(q)'
  BY <1>1 DEF IInv, RowInv
<1>5. \A q \in Projects : ConfigInv(q)'
  <2>1. BulkInv /\ \A q \in Projects : ConfigInv(q)
    BY DEF IInv
  <2>2. \A q \in Projects : posts'[q] # posts[q] =>
          request[q] = "done" /\ \A i \in Instances : q \notin pending[i]
    BY <2>1 DEF BulkInv
  <2> QED
    BY <1>1, <2>1, <2>2 DEF ConfigInv
<1>6. \A r \in Topics : BaseInv(r)'
  BY <1>1, <1>2 DEF IInv, BaseInv, Behind
<1>7. BulkInv'
  <2>1. CASE t # "bulk"
    <3>1. BulkInv /\ task["bulk"].project \in Projects /\ task'["bulk"] = task["bulk"]
      BY <1>2, <2>1, Facts DEF IInv
    <3>2. \A q \in Projects : posts'[q] = posts[q]
      BY <2>1
    <3> QED
      BY <1>1, <3>1, <3>2 DEF BulkInv
  <2> QED BY <2>1
<1>8. PostedOnce'
  BY DEF IInv, PostedOnce
<1> QED
  BY <1>3, <1>4, <1>5, <1>6, <1>7, <1>8 DEF IInv

\* The refresh after a commit, when the row is still there.
LEMMA Refreshing ==
  ASSUME IInv, NEW t \in Topics, NEW step \in Steps, Refreshed(t, step)
  PROVE  \E u \in Task : /\ task' = [task EXCEPT ![t] = u]
                         /\ IF stage[task[t].project] = "stored"
                            THEN /\ u.at = step /\ u.project = task[t].project
                                 /\ u.base = row[task[t].project]
                            ELSE u.at = "idle"
<1>1. CASE stage[task[t].project] = "stored"
  <2>1. task[t] \in Task /\ row[task[t].project] \in Row
    BY Facts
  <2>2. PICK u : u = [task[t] EXCEPT !.base = row[task[t].project], !.at = step]
    OBVIOUS
  <2>3. /\ u \in Task
        /\ u.at = step /\ u.project = task[t].project /\ u.base = row[task[t].project]
    BY <2>1, <2>2 DEF Task
  <2>4. task' = [task EXCEPT ![t] = u]
    BY <1>1, <2>2 DEF Refreshed, IInv, TypeOK
  <2> QED BY <1>1, <2>3, <2>4
<1>2. CASE stage[task[t].project] # "stored"
  BY <1>2, Finishing DEF Refreshed
<1> QED BY <1>1, <1>2

LEMMA TakeGoes ==
  ASSUME IInv, NEW t \in Topics, Take(t)
  PROVE  Goes
<1>1. /\ UNCHANGED <<stage, row, httpVars, pending, posts, log, committed, owner, envVars, crashes>>
      /\ position' = [position EXCEPT ![t] = position[t] + 1]
      /\ position[t] < Len(log[t]) /\ task[t].at = "idle"
  BY DEF Take
<1>2. PICK p \in Projects : p = log[t][position[t] + 1]
  <2>1. log[t] \in Seq(Projects) /\ position[t] \in Nat
    BY DEF IInv, TypeOK
  <2> QED
    BY <1>1, <2>1
<1>3. /\ position' \in [Topics -> Nat]
      /\ \A i \in Instances : pending'[i] \subseteq pending[i]
      /\ pending' \in [Instances -> SUBSET Projects]
      /\ posts' \in [Projects -> Nat]
  BY <1>1 DEF IInv, TypeOK
<1>4. PICK u \in Task :
        /\ task' = [task EXCEPT ![t] = u]
        /\ \/ /\ stage[p] = "stored" /\ u.project = p /\ u.base = row[p]
              /\ u.at = IF t = "bulk" THEN "secretsReady" ELSE "save"
           \/ u = task[t]
  <2>1. CASE UNCHANGED task
    <3>1. task[t] \in Task /\ task' = [task EXCEPT ![t] = task[t]]
      BY <2>1, Facts DEF IInv, TypeOK
    <3> QED BY <3>1
  <2>2. CASE /\ stage[p] = "stored"
             /\ task' = [task EXCEPT ![t] =
                  [at |-> IF t = "bulk" THEN "secretsReady" ELSE "save",
                   project |-> p, base |-> row[p]]]
    <3>1. [at |-> IF t = "bulk" THEN "secretsReady" ELSE "save",
           project |-> p, base |-> row[p]] \in Task
      BY Facts DEF Task, Steps
    <3> QED BY <2>2, <3>1
  <2> QED
    BY <1>2, <2>1, <2>2 DEF Take
<1>5. task'[t] = u
  BY <1>4, TaskType DEF IInv
<1>6. t = "bulk" => BulkInv'
  BY <1>1, <1>4, <1>5 DEF BulkInv
<1>7. u.at # "idle" => stage[u.project] # "new" /\ Behind(u.base, row[u.project])
  BY <1>1, <1>4 DEF Behind
<1>8. task[t].at # "post"
  BY <1>1
<1>9. IInv'
  BY <1>1, <1>3, <1>4, <1>6, <1>7, <1>8, MoveInv
<1> QED
  BY <1>1, <1>9 DEF Goes

LEMMA PopGoes ==
  ASSUME IInv, Pop
  PROVE  Goes
<1> DEFINE p == task["bulk"].project
           i == owner["bulk"]
<1>1. /\ UNCHANGED <<stage, row, httpVars, posts, kafkaVars, envVars, crashes>>
      /\ task["bulk"].at = "pop"
      /\ Refreshed("bulk", IF p \in pending[i] THEN "creating" ELSE "ready")
      /\ pending' = IF stage[p] = "stored" THEN [pending EXCEPT ![i] = pending[i] \ {p}]
                    ELSE pending
      /\ "bulk" \in Topics
  BY DEF Pop, Topics
<1>2. PICK u \in Task :
        /\ task' = [task EXCEPT !["bulk"] = u]
        /\ IF stage[p] = "stored"
           THEN /\ u.at = IF p \in pending[i] THEN "creating" ELSE "ready"
                /\ u.project = p /\ u.base = row[p]
           ELSE u.at = "idle"
  BY <1>1, Refreshing DEF Steps
<1>3. task'["bulk"] = u
  BY <1>1, <1>2, TaskType DEF IInv
<1>4. p \in Projects /\ i \in Instances /\ pending \in [Instances -> SUBSET Projects]
      /\ position \in [Topics -> Nat] /\ posts \in [Projects -> Nat]
  BY <1>1, Facts DEF IInv, TypeOK
<1> HIDE DEF p, i
<1>5. /\ pending' \in [Instances -> SUBSET Projects]
      /\ \A j \in Instances : pending'[j] \subseteq pending[j]
      /\ stage[p] = "stored" => p \notin pending'[i]
      /\ \A j \in Instances \ {i} : pending'[j] = pending[j]
  BY <1>1, <1>4
<1>6. /\ UNCHANGED <<wants, request, home>>
      /\ log' = log /\ position' = position /\ committed' = committed /\ owner' = owner
  BY <1>1 DEF httpVars, kafkaVars
<1>7. BulkInv'
  <2>1. ConfigInv(p)
    BY <1>4 DEF IInv
  <2>2. CASE u.at = "creating"
    <3>1. stage[p] = "stored" /\ p \in pending[i]
      BY <1>2, <2>2
    <3>2. /\ i = home[p] /\ request[p] = "done" /\ posts[p] = 0 /\ row[p].deploy = "pending"
          /\ \A j \in Instances : p \in pending[j] => j = i
      BY <1>4, <2>1, <3>1 DEF ConfigInv
    <3>3. \A j \in Instances : p \notin pending'[j]
      BY <1>5, <3>1, <3>2
    <3> QED
      BY <1>1, <1>2, <1>3, <1>6, <2>2, <3>1, <3>2, <3>3 DEF BulkInv
  <2>3. CASE u.at \in {"ready", "idle"}
    BY <1>3, <2>3 DEF BulkInv
  <2> QED BY <1>2, <2>2, <2>3
<1>8. u.at # "idle" => stage[u.project] # "new" /\ Behind(u.base, row[u.project])
  BY <1>2 DEF Behind
<1>9. IInv'
  BY <1>1, <1>2, <1>4, <1>5, <1>6, <1>7, <1>8, MoveInv
<1> QED
  BY <1>1, <1>9 DEF Goes

LEMMA PostGoes ==
  ASSUME IInv, Post
  PROVE  Goes
<1> DEFINE p == task["bulk"].project
<1>1. /\ UNCHANGED <<stage, row, httpVars, pending, kafkaVars, envVars, crashes>>
      /\ task["bulk"].at = "post"
      /\ Refreshed("bulk", "posted")
      /\ posts' = IF stage[p] = "stored" THEN [posts EXCEPT ![p] = posts[p] + 1] ELSE posts
      /\ "bulk" \in Topics
  BY DEF Post, Topics
<1>2. PICK u \in Task :
        /\ task' = [task EXCEPT !["bulk"] = u]
        /\ IF stage[p] = "stored"
           THEN u.at = "posted" /\ u.project = p /\ u.base = row[p]
           ELSE u.at = "idle"
  BY <1>1, Refreshing DEF Steps
<1>3. task'["bulk"] = u
  BY <1>1, <1>2, TaskType DEF IInv
<1>4. /\ p \in Projects /\ pending \in [Instances -> SUBSET Projects]
      /\ position \in [Topics -> Nat] /\ posts \in [Projects -> Nat]
  BY <1>1, Facts DEF IInv, TypeOK
<1>5. /\ request[p] = "done" /\ posts[p] = 0 /\ row[p].deploy = "creating"
      /\ \A j \in Instances : p \notin pending[j]
  BY <1>1 DEF IInv, BulkInv
<1>6. p = task["bulk"].project
  OBVIOUS
<1> HIDE DEF p
<1>7. /\ posts' \in [Projects -> Nat]
      /\ \A q \in Projects : posts'[q] # posts[q] => q = p /\ posts'[q] = 1
  BY <1>1, <1>4, <1>5
<1>8. /\ UNCHANGED <<wants, request, home>>
      /\ log' = log /\ position' = position /\ committed' = committed /\ owner' = owner
  BY <1>1 DEF httpVars, kafkaVars
<1>9. BulkInv'
  BY <1>1, <1>2, <1>3, <1>5, <1>8 DEF BulkInv
<1>10. u.at # "idle" => stage[u.project] # "new" /\ Behind(u.base, row[u.project])
  BY <1>2 DEF Behind
<1>11. u.at # "post"
  BY <1>2
<1>12. IInv'
  BY <1>1, <1>2, <1>4, <1>6, <1>7, <1>8, <1>9, <1>10, <1>11, MoveInv
<1> QED
  BY <1>1, <1>12 DEF Goes

\* The except branch is entered; PostedGoes and AnnounceGoes.
LEMMA ExceptGoes ==
  ASSUME IInv, NEW u \in Task, task' = [task EXCEPT !["bulk"] = u],
         task["bulk"].at \in {"posted", "announce"},
         UNCHANGED <<stage, row, httpVars, pending, posts, kafkaVars, envVars, crashes>>,
         \/ u.at = "idle"
         \/ /\ u.at = "fail" /\ u.project = task["bulk"].project
            /\ u.base \in {task["bulk"].base, row[u.project]}
            /\ u.base.deploy = row[u.project].deploy
  PROVE  Goes
<1>1. "bulk" \in Topics /\ task["bulk"].at # "idle"
  BY DEF Topics
<1>2. task'["bulk"] = u
  BY <1>1, TaskType DEF IInv
<1>3. /\ UNCHANGED <<request>>
      /\ log' = log /\ position' = position /\ committed' = committed /\ owner' = owner
      /\ pending' = pending /\ posts' = posts
      /\ position' \in [Topics -> Nat] /\ pending' \in [Instances -> SUBSET Projects]
      /\ posts' \in [Projects -> Nat]
  BY DEF httpVars, kafkaVars, IInv, TypeOK
<1>4. BulkInv'
  BY <1>2, <1>3 DEF IInv, BulkInv
<1>5. u.at # "idle" => stage[u.project] # "new" /\ Behind(u.base, row[u.project])
  BY <1>1, Loaded DEF IInv, BaseInv, Behind
<1>6. IInv'
  BY <1>1, <1>3, <1>4, <1>5, MoveInv
<1> QED
  BY <1>6 DEF Goes

LEMMA PostedGoes ==
  ASSUME IInv, Posted
  PROVE  Goes
<1>1. /\ "bulk" \in Topics /\ task["bulk"].at = "posted"
      /\ row[task["bulk"].project].deploy = "creating" /\ task["bulk"].base.deploy = "creating"
      /\ UNCHANGED <<stage, httpVars, pending, posts, kafkaVars, envVars, crashes>>
  BY DEF Posted, Topics, IInv, BulkInv
<1>2. CASE Commit("bulk", [deploy |-> "ready", config |-> TRUE, status |-> "ready"], "announce")
  <2>1. PICK new : new = Written(row[task["bulk"].project], task["bulk"].base,
                                 [deploy |-> "ready", config |-> TRUE, status |-> "ready"])
    OBVIOUS
  <2>2. /\ new \in Row /\ Lifecycle!Advances(row[task["bulk"].project], new)
        /\ new.deploy = "ready"
    BY <1>1, <2>1, Loaded, PostedColumns
  <2> QED
    BY <1>1, <1>2, <2>1, <2>2, CommitGoes DEF Steps
<1>3. CASE Goto("bulk", "fail") /\ UNCHANGED row
  <2>1. PICK u \in Task : /\ task' = [task EXCEPT !["bulk"] = u] /\ u.at = "fail"
                          /\ u.project = task["bulk"].project /\ u.base = task["bulk"].base
    BY <1>1, <1>3, Going DEF Steps
  <2> QED
    BY <1>1, <1>3, <2>1, ExceptGoes
<1> QED
  BY <1>2, <1>3 DEF Posted

LEMMA AnnounceGoes ==
  ASSUME IInv, Announce
  PROVE  Goes
<1>1. /\ "bulk" \in Topics /\ task["bulk"].at = "announce"
      /\ UNCHANGED <<stage, row, httpVars, pending, posts, kafkaVars, envVars, crashes>>
  BY DEF Announce, Topics
<1>2. PICK u \in Task :
        /\ task' = [task EXCEPT !["bulk"] = u]
        /\ \/ u.at = "idle"
           \/ /\ u.at = "fail" /\ u.project = task["bulk"].project
              /\ u.base = row[u.project]
  <2>1. CASE Refreshed("bulk", "fail")
    BY <1>1, <2>1, Refreshing DEF Steps
  <2>2. CASE Finish("bulk")
    BY <1>1, <2>2, Finishing
  <2> QED
    BY <2>1, <2>2 DEF Announce
<1> QED
  BY <1>1, <1>2, ExceptGoes

LEMMA HandleGoes ==
  ASSUME IInv, NEW t \in Topics, Handle(t)
  PROVE  Goes
BY TakeGoes, SaveStatusGoes, SecretsReadyGoes, PopGoes, ReadyGoes, CreatingGoes, PostGoes,
   PostedGoes, AnnounceGoes, FailGoes DEF Handle

-----------------------------------------------------------------------------
(* The requests, the other services and crashes                             *)

LEMMA SameCreated ==
  ASSUME NEW secrets \in BOOLEAN, NEW config \in BOOLEAN
  PROVE  Lifecycle!Created(secrets, config) = Created(secrets, config)
BY DEF Lifecycle!Created, Created, Lifecycle!Blank, Blank

LEMMA SaveProjectGoes ==
  ASSUME IInv, NEW p \in Projects, SaveProject(p)
  PROVE  Goes
<1>1. /\ stage[p] = "new" /\ request[p] = "none"
      /\ UNCHANGED <<home, removal, published, pending, posts, kafkaVars, task, envVars, crashes>>
  BY DEF SaveProject
<1>2. /\ UNCHANGED <<log, position, committed, owner>>
      /\ UNCHANGED <<said, subject>>
  BY <1>1 DEF kafkaVars, envVars
<1>3. /\ TypeOK /\ BulkInv /\ posts[p] = 0
      /\ \A q \in Projects : RowInv(q) /\ ConfigInv(q)
      /\ \A i \in Instances : p \notin pending[i]
      /\ \A t \in Topics : BaseInv(t) /\ (task[t].at # "idle" => task[t].project # p)
  BY <1>1 DEF IInv, ConfigInv, BaseInv
<1>4. PICK secrets \in BOOLEAN, config \in BOOLEAN, o \in Outcome("db") :
        /\ wants' = [wants EXCEPT ![p] = [secrets |-> secrets, config |-> config]]
        /\ IF o = "err" THEN UNCHANGED <<stage, row>>
           ELSE /\ stage' = [stage EXCEPT ![p] = "stored"]
                /\ row' = [row EXCEPT ![p] = Created(secrets, config)]
        /\ request' = [request EXCEPT ![p] =
             IF o = "ok" /\ (secrets \/ config) THEN "publish" ELSE "done"]
  BY DEF SaveProject
<1>5. PICK new \in Row : /\ new = Created(secrets, config)
                         /\ new.deploy = IF config THEN "pending" ELSE "none"
                         /\ new.status # "failed"
  BY CreatedIsRow
<1>6. /\ row' \in [Projects -> Row] /\ stage' \in [Projects -> {"new", "stored", "deleted"}]
      /\ wants' \in [Projects -> [secrets : BOOLEAN, config : BOOLEAN]]
      /\ request' \in [Projects -> {"none", "publish", "log", "store", "done"}]
      /\ \A q \in Projects \ {p} :
           /\ row'[q] = row[q] /\ stage'[q] = stage[q]
           /\ wants'[q] = wants[q] /\ request'[q] = request[q]
      /\ wants'[p].config = config
      /\ request'[p] \in {"publish", "done"}
      /\ request'[p] = "publish" => stage'[p] = "stored"
      /\ stage'[p] = "stored" => row'[p] = new
      /\ row'[p] \in {row[p], new}
  <2>1. /\ row \in [Projects -> Row] /\ stage \in [Projects -> {"new", "stored", "deleted"}]
        /\ wants \in [Projects -> [secrets : BOOLEAN, config : BOOLEAN]]
        /\ request \in [Projects -> {"none", "publish", "log", "store", "done"}]
    BY <1>3 DEF TypeOK
  <2>2. PICK both : both = [secrets |-> secrets, config |-> config]
    OBVIOUS
  <2>3. both \in [secrets : BOOLEAN, config : BOOLEAN]
    BY <2>2
  <2>4. both.config = config
    BY <2>2
  <2>5. /\ wants' \in [Projects -> [secrets : BOOLEAN, config : BOOLEAN]]
        /\ wants'[p] = both /\ \A q \in Projects \ {p} : wants'[q] = wants[q]
    BY <1>4, <2>1, <2>2, <2>3
  <2>6. PICK next \in {"publish", "done"} :
          request' = [request EXCEPT ![p] = next] /\ (next = "publish" => o = "ok")
    BY <1>4
  <2>7. /\ request' \in [Projects -> {"none", "publish", "log", "store", "done"}]
        /\ request'[p] = next /\ \A q \in Projects \ {p} : request'[q] = request[q]
    BY <2>1, <2>6
  <2>8. CASE o = "err"
    BY <1>1, <1>4, <2>1, <2>4, <2>5, <2>6, <2>7, <2>8
  <2>9. CASE o # "err"
    <3>1. /\ stage' = [stage EXCEPT ![p] = "stored"]
          /\ row' = [row EXCEPT ![p] = new]
      BY <1>4, <1>5, <2>9
    <3> QED
      BY <2>1, <2>4, <2>5, <2>6, <2>7, <3>1
  <2> QED BY <2>8, <2>9
<1>7. TypeOK'
  BY <1>1, <1>2, <1>3, <1>6 DEF TypeOK
<1>8. \A q \in Projects : RowInv(q)' /\ ConfigInv(q)'
  <2>1. RowInv(p)'
    BY <1>3, <1>5, <1>6 DEF RowInv
  <2>2. ConfigInv(p)'
    BY <1>1, <1>3, <1>5, <1>6 DEF ConfigInv
  <2>3. \A q \in Projects \ {p} : RowInv(q)' /\ ConfigInv(q)'
    BY <1>1, <1>3, <1>6 DEF RowInv, ConfigInv
  <2> QED BY <2>1, <2>2, <2>3
<1>9. \A t \in Topics : BaseInv(t)'
  <2> SUFFICES ASSUME NEW t \in Topics, task[t].at # "idle" PROVE BaseInv(t)'
    BY <1>1 DEF BaseInv
  <2>1. task[t].project \in Projects \ {p}
    BY <1>3, Facts
  <2> QED
    BY <1>1, <1>3, <1>6, <2>1 DEF BaseInv
<1>10. BulkInv'
  <2>1. task["bulk"].at # "idle" => task["bulk"].project \in Projects \ {p}
    BY <1>3, Facts
  <2> QED
    BY <1>1, <1>3, <1>6, <2>1 DEF BulkInv
<1>11. PostedOnce'
  BY <1>1 DEF IInv, PostedOnce
<1>12. [Lifecycle!Next]_<<stage, row>>
  <2>1. ASSUME o # "err" PROVE Lifecycle!Create(p)
    BY <1>1, <1>4, <2>1, SameCreated DEF Lifecycle!Create
  <2> QED
    BY <1>4, <2>1 DEF Lifecycle!Next
<1> QED
  BY <1>7, <1>8, <1>9, <1>10, <1>11, <1>12 DEF Goes, IInv

\* A request goes on after the row was saved.
LEMMA RequestGoes ==
  ASSUME IInv, NEW p \in Projects,
         request[p] \in {"publish", "log", "store"},
         NEW next, next = "done" \/ (request[p] = "publish" /\ next = "log")
                   \/ (request[p] = "log" /\ next = "store" /\ wants[p].config),
         request' = [request EXCEPT ![p] = next],
         UNCHANGED <<stage, row, wants, home, removal, posts, kafkaVars, task, envVars, crashes>>,
         published' \subseteq published \cup {<<"created", p>>},
         \/ pending' = pending
         \/ /\ request[p] = "store" /\ next = "done"
            /\ pending' = [pending EXCEPT ![home[p]] = @ \cup {p}]
  PROVE  Goes
<1>1. /\ UNCHANGED <<log, position, committed, owner>>
      /\ UNCHANGED <<said, subject>>
  BY DEF kafkaVars, envVars
<1>2. /\ TypeOK /\ BulkInv
      /\ \A q \in Projects : RowInv(q) /\ ConfigInv(q)
      /\ \A t \in Topics : BaseInv(t)
  BY DEF IInv
<1>3. /\ request' \in [Projects -> {"none", "publish", "log", "store", "done"}]
      /\ request'[p] = next
      /\ \A q \in Projects \ {p} : request'[q] = request[q]
      /\ published' \subseteq {"created", "deleted"} \X Projects
  BY <1>2 DEF TypeOK
<1>4. /\ pending' \in [Instances -> SUBSET Projects]
      /\ \A q \in Projects, i \in Instances : q \in pending'[i] =>
           q \in pending[i] \/ (q = p /\ i = home[p] /\ request[p] = "store" /\ next = "done")
  <2>1. pending \in [Instances -> SUBSET Projects] /\ home[p] \in Instances
    BY <1>2 DEF TypeOK
  <2> QED BY <2>1
<1>5. stage[p] # "new" /\ posts[p] = 0
      /\ (wants[p].config => row[p].deploy = "pending")
      /\ (request[p] = "store" => wants[p].config)
  BY <1>2 DEF ConfigInv
<1>6. TypeOK'
  BY <1>1, <1>2, <1>3, <1>4 DEF TypeOK
<1>7. \A q \in Projects : RowInv(q)'
  BY <1>2 DEF RowInv
<1>8. \A q \in Projects : ConfigInv(q)'
  <2>1. ConfigInv(p)'
    BY <1>2, <1>3, <1>4, <1>5 DEF ConfigInv
  <2>2. \A q \in Projects \ {p} : ConfigInv(q)'
    BY <1>2, <1>3, <1>4 DEF ConfigInv
  <2> QED BY <2>1, <2>2
<1>9. \A t \in Topics : BaseInv(t)'
  BY <1>2 DEF BaseInv
<1>10. BulkInv'
  <2>1. task["bulk"].project \in Projects
    BY Facts
  <2> QED
    BY <1>2, <1>3, <1>4, <2>1 DEF BulkInv
<1>11. PostedOnce'
  BY DEF IInv, PostedOnce
<1> QED
  BY <1>6, <1>7, <1>8, <1>9, <1>10, <1>11 DEF Goes, IInv

LEMMA PublishCreatedGoes ==
  ASSUME IInv, NEW p \in Projects, PublishCreated(p)
  PROVE  Goes
BY RequestGoes DEF PublishCreated

LEMMA PublishLogGoes ==
  ASSUME IInv, NEW p \in Projects, PublishLog(p)
  PROVE  Goes
BY RequestGoes DEF PublishLog

LEMMA StorePendingGoes ==
  ASSUME IInv, NEW p \in Projects, StorePending(p)
  PROVE  Goes
BY RequestGoes DEF StorePending

LEMMA DeleteRowGoes ==
  ASSUME IInv, NEW p \in Projects, DeleteRow(p)
  PROVE  Goes
<1>1. /\ stage[p] = "stored"
      /\ UNCHANGED <<row, wants, request, home, published, pending, posts, kafkaVars,
                     task, envVars, crashes>>
      /\ stage' \in {stage, [stage EXCEPT ![p] = "deleted"]}
      /\ \E next \in {"announce", "done"} : removal' = [removal EXCEPT ![p] = next]
  BY DEF DeleteRow
<1>2. /\ UNCHANGED <<log, position, committed, owner>>
      /\ UNCHANGED <<said, subject>>
  BY <1>1 DEF kafkaVars, envVars
<1>3. /\ stage' \in [Projects -> {"new", "stored", "deleted"}]
      /\ removal' \in [Projects -> {"none", "announce", "done"}]
      /\ \A q \in Projects : (stage'[q] = "new") <=> (stage[q] = "new")
  BY <1>1 DEF IInv, TypeOK
<1>4. TypeOK'
  BY <1>1, <1>2, <1>3 DEF IInv, TypeOK
<1>5. \A q \in Projects : RowInv(q)' /\ ConfigInv(q)'
  BY <1>1, <1>3 DEF IInv, RowInv, ConfigInv
<1>6. \A t \in Topics : BaseInv(t)'
  BY <1>1, <1>3, Facts DEF IInv, BaseInv
<1>7. BulkInv' /\ PostedOnce'
  BY <1>1 DEF IInv, BulkInv, PostedOnce
<1>8. [Lifecycle!Next]_<<stage, row>>
  BY <1>1 DEF Lifecycle!Next, Lifecycle!Delete
<1> QED
  BY <1>4, <1>5, <1>6, <1>7, <1>8 DEF Goes, IInv

\* What the invariant says of does not change.
LEMMA RestGoes ==
  ASSUME IInv, TypeOK',
         UNCHANGED <<stage, row, wants, request, home, pending, posts, task, owner>>
  PROVE  Goes
<1>1. \A q \in Projects : RowInv(q)' /\ ConfigInv(q)'
  BY DEF IInv, RowInv, ConfigInv
<1>2. \A t \in Topics : BaseInv(t)'
  BY DEF IInv, BaseInv
<1>3. BulkInv' /\ PostedOnce'
  BY DEF IInv, BulkInv, PostedOnce
<1> QED
  BY <1>1, <1>2, <1>3 DEF Goes, IInv

LEMMA AnnounceDeletionGoes ==
  ASSUME IInv, NEW p \in Projects, AnnounceDeletion(p)
  PROVE  Goes
<1>1. /\ UNCHANGED <<stage, row, wants, request, home, pending, posts, task, owner>>
      /\ UNCHANGED <<published, log, position, committed, said, subject, crashes>>
      /\ removal' \in [Projects -> {"none", "announce", "done"}]
  BY DEF AnnounceDeletion, kafkaVars, envVars, IInv, TypeOK
<1>2. TypeOK'
  BY <1>1 DEF IInv, TypeOK
<1> QED
  BY <1>1, <1>2, RestGoes

LEMMA SendType ==
  ASSUME IInv, NEW t \in Topics, NEW p \in Projects, Send(t, p)
  PROVE  log' \in [Topics -> Seq(Projects)]
<1>1. log \in [Topics -> Seq(Projects)] /\ Append(log[t], p) \in Seq(Projects)
  BY DEF IInv, TypeOK
<1> QED
  BY <1>1 DEF Send

LEMMA SecretsCreatedGoes ==
  ASSUME IInv, NEW p \in Projects, SecretsCreated(p)
  PROVE  Goes
<1>1. /\ UNCHANGED <<stage, row, wants, request, home, pending, posts, task, owner>>
      /\ UNCHANGED <<removal, published, position, committed, said, subject, crashes>>
      /\ Send("bulk", p) /\ "bulk" \in Topics
  BY DEF SecretsCreated, httpVars, envVars, Topics
<1>2. TypeOK'
  BY <1>1, SendType DEF IInv, TypeOK
<1> QED
  BY <1>1, <1>2, RestGoes

LEMMA DeploymentSaysGoes ==
  ASSUME IInv, NEW d \in Deployments, NEW s \in Topics \ {"bulk"}, DeploymentSays(d, s)
  PROVE  Goes
<1>1. /\ UNCHANGED <<stage, row, wants, request, home, pending, posts, task, owner>>
      /\ UNCHANGED <<removal, published, position, committed, subject, crashes>>
      /\ Send(s, subject[d]) /\ s \in Topics /\ subject[d] \in Projects
      /\ said' = [said EXCEPT ![d] = s]
  BY DEF DeploymentSays, httpVars, IInv, TypeOK
<1>2. s \in Observed
  BY DEF Topics, Observed, DeploymentStatus
<1>3. TypeOK'
  BY <1>1, <1>2, SendType DEF IInv, TypeOK
<1> QED
  BY <1>1, <1>3, RestGoes

LEMMA CrashGoes ==
  ASSUME IInv, NEW i \in Instances, Crash(i)
  PROVE  Goes
<1> DEFINE mine == {t \in Topics : owner[t] = i}
<1>1. /\ crashes < MaxCrashes /\ crashes' = crashes + 1
      /\ pending' = [pending EXCEPT ![i] = {}]
      /\ request' = [p \in Projects |->
           IF home[p] = i /\ request[p] # "none" THEN "done" ELSE request[p]]
      /\ task' = [t \in Topics |-> IF t \in mine THEN Free ELSE task[t]]
      /\ owner' \in [Topics -> Instances]
      /\ UNCHANGED <<stage, row, wants, home, removal, published, posts, log, envVars>>
  BY DEF Crash
<1>2. PICK resume \in [mine -> UNION {committed[t] .. position[t] : t \in mine}] :
        /\ \A t \in mine : resume[t] \in committed[t] .. position[t]
        /\ position' = [t \in Topics |-> IF t \in mine THEN resume[t] ELSE position[t]]
        /\ committed' = [t \in Topics |-> IF t \in mine THEN resume[t] ELSE committed[t]]
  BY DEF Crash
<1>3. /\ TypeOK /\ BulkInv
      /\ \A q \in Projects : RowInv(q) /\ ConfigInv(q)
      /\ \A t \in Topics : BaseInv(t)
  BY DEF IInv
<1>4. /\ position' \in [Topics -> Nat] /\ committed' \in [Topics -> Nat]
  <2>1. \A t \in Topics : committed[t] \in Nat /\ position[t] \in Nat
    BY <1>3 DEF TypeOK
  <2>2. \A t \in mine : resume[t] \in Nat
    BY <1>2, <2>1
  <2> QED
    BY <1>2, <2>1, <2>2
<1>5. /\ pending' \in [Instances -> SUBSET Projects]
      /\ \A j \in Instances : pending'[j] \subseteq pending[j]
      /\ request' \in [Projects -> {"none", "publish", "log", "store", "done"}]
      /\ \A q \in Projects : request'[q] = request[q] \/ (request[q] # "none" /\ request'[q] = "done")
      /\ task' \in [Topics -> Task]
      /\ \A t \in Topics : task'[t].at = "idle" \/ task'[t] = task[t]
  BY <1>1, <1>3, FreeIsTask, Facts DEF TypeOK
<1>6. TypeOK'
  <2>1. crashes' \in 0 .. MaxCrashes
    BY <1>1, <1>3, BoundsAreNat DEF TypeOK
  <2>2. UNCHANGED <<said, subject>>
    BY <1>1 DEF envVars
  <2> QED
    BY <1>1, <1>3, <1>4, <1>5, <2>1, <2>2 DEF TypeOK, Task
<1>7. \A q \in Projects : RowInv(q)' /\ ConfigInv(q)'
  BY <1>1, <1>3, <1>5 DEF RowInv, ConfigInv
<1>8. \A t \in Topics : BaseInv(t)'
  BY <1>1, <1>3, <1>5 DEF BaseInv
<1>9. BulkInv'
  <2>1. task["bulk"].project \in Projects /\ "bulk" \in Topics
    BY Facts
  <2> QED
    BY <1>1, <1>3, <1>5, <2>1 DEF BulkInv
<1>10. PostedOnce'
  BY <1>1 DEF IInv, PostedOnce
<1> QED
  BY <1>1, <1>6, <1>7, <1>8, <1>9, <1>10 DEF Goes, IInv

LEMMA StutterGoes ==
  ASSUME IInv, UNCHANGED vars
  PROVE  Goes
<1>1. /\ UNCHANGED <<stage, row, wants, request, home, pending, posts, task, owner>>
      /\ UNCHANGED <<removal, published, log, position, committed, said, subject, crashes>>
  BY DEF vars, httpVars, kafkaVars, envVars
<1>2. TypeOK'
  BY <1>1 DEF IInv, TypeOK
<1> QED
  BY <1>1, <1>2, RestGoes

LEMMA NextGoes == IInv /\ [Next]_vars => Goes
<1> SUFFICES ASSUME IInv, [Next]_vars PROVE Goes
  OBVIOUS
<1>1. ASSUME NEW p \in Projects, Request(p) PROVE Goes
  BY <1>1, SaveProjectGoes, PublishCreatedGoes, PublishLogGoes, StorePendingGoes,
     DeleteRowGoes, AnnounceDeletionGoes DEF Request
<1>2. ASSUME Others PROVE Goes
  BY <1>2, SecretsCreatedGoes, DeploymentSaysGoes DEF Others
<1> QED
  BY <1>1, <1>2, HandleGoes, CrashGoes, StutterGoes DEF Next

-----------------------------------------------------------------------------
(* The theorems                                                             *)

(* IInv holds in every state the requests, the handlers of the topics and  *)
(* crashes of instances lead to.                                           *)
THEOREM Invariance == Spec => []IInv
<1>1. IInv /\ [Next]_vars => IInv'
  BY NextGoes DEF Goes
<1> QED
  BY <1>1, InitInv, PTL DEF Spec

(* Every variable of project-service keeps its type.                        *)
THEOREM TypeCorrect == Spec => []TypeOK
<1>1. IInv => TypeOK
  BY DEF IInv
<1> QED
  BY <1>1, Invariance, PTL

(* HandleSecretsBulkCreatedInteractor posts the config of a project to     *)
(* deployment-service at most once, however often the event is delivered.  *)
THEOREM ConfigPostedOnce == Spec => []PostedOnce
<1>1. IInv => PostedOnce
  BY DEF IInv
<1> QED
  BY <1>1, Invariance, PTL

(* The handlers of the topics, each with the row it loaded, implement      *)
(* ProjectLifecycle: none undoes what another one wrote.                   *)
THEOREM Refines == Spec => ImplementsLifecycle
<1>1. Init => Lifecycle!Init
  BY DEF Init, Lifecycle!Init, Lifecycle!Blank, Blank
<1>2. IInv /\ [Next]_vars => [Lifecycle!Next]_<<stage, row>>
  BY NextGoes DEF Goes
<1> QED
  BY <1>1, <1>2, Invariance, PTL DEF Spec, ImplementsLifecycle, Lifecycle!Spec

-----------------------------------------------------------------------------
(* Progress                                                                 *)

LEMMA PercentMonotone ==
  ASSUME NEW total \in 1 .. 3, NEW c \in 0 .. 3, NEW d \in 0 .. 3, c <= d
  PROVE  (c * 100) \div total <= (d * 100) \div total
<1>1. CASE total = 1
  BY <1>1
<1>2. CASE total = 2
  BY <1>2
<1>3. CASE total = 3
  BY <1>3
<1> QED
  BY <1>1, <1>2, <1>3

(* What a request wants is fixed when its project is stored.                *)
LEMMA WantsStay ==
  ASSUME IInv, [Next]_vars, NEW p \in Projects, stage[p] # "new"
  PROVE  wants'[p] = wants[p]
<1>1. ASSUME NEW q \in Projects, Request(q) PROVE wants'[p] = wants[p]
  <2>1. CASE SaveProject(q)
    BY <2>1 DEF SaveProject, IInv, TypeOK
  <2>2. QED
    BY <1>1, <2>1 DEF Request, PublishCreated, PublishLog, StorePending, DeleteRow,
                      AnnounceDeletion, httpVars
<1>2. ASSUME NEW t \in Topics, Handle(t) PROVE wants'[p] = wants[p]
  BY <1>2 DEF Handle, Take, SaveStatus, SecretsReady, Pop, Ready, Creating, Post,
              Posted, Announce, Fail, httpVars
<1>3. CASE Others
  BY <1>3 DEF Others, SecretsCreated, DeploymentSays, httpVars
<1>4. CASE \E i \in Instances : Crash(i)
  BY <1>4 DEF Crash, httpVars
<1>5. CASE UNCHANGED vars
  BY <1>5 DEF vars, httpVars
<1> QED
  BY <1>1, <1>2, <1>3, <1>4, <1>5 DEF Next

LEMMA DeployGoesOn ==
  ASSUME IInv, [Next]_vars, NEW p \in Projects, stage[p] = "stored"
  PROVE  row'[p] = row[p] \/ Lifecycle!Advances(row[p], row'[p])
<1>1. [Lifecycle!Next]_<<stage, row>>
  BY NextGoes DEF Goes
<1>2. ASSUME NEW q \in Projects, Lifecycle!Create(q) PROVE row'[p] = row[p]
  BY <1>2 DEF Lifecycle!Create, IInv, TypeOK
<1>3. ASSUME NEW q \in Projects, Lifecycle!Update(q)
      PROVE  row'[p] = row[p] \/ Lifecycle!Advances(row[p], row'[p])
  BY <1>3 DEF Lifecycle!Update
<1>4. QED
  BY <1>1, <1>2, <1>3 DEF Lifecycle!Next, Lifecycle!Delete

LEMMA PercentageKept ==
  ASSUME IInv, [Next]_vars, NEW p \in Projects, stage[p] = "stored",
         row[p].deploy = "ready" => row'[p].deploy = "ready"
  PROVE  percentage(p) <= percentage(p)'
<1>1. wants'[p] = wants[p] /\ wants[p] \in [secrets : BOOLEAN, config : BOOLEAN]
  BY WantsStay DEF IInv, TypeOK
<1>2. row'[p] = row[p] \/ Lifecycle!Advances(row[p], row'[p])
  BY DeployGoesOn
<1>3. row[p] \in Row
  BY Facts
<1>4. /\ row[p].secrets = "ready" => row'[p].secrets = "ready"
      /\ row[p].deploy = "ready" => row'[p].deploy = "ready"
      /\ row'[p].deploy = "none" <=> row[p].deploy = "none"
  BY <1>2, <1>3, LifecycleNames DEF Lifecycle!Advances, NextDeploy, Row, DeploymentState
<1>5. /\ total_steps(p) \in 1 .. 3 /\ total_steps(p)' = total_steps(p)
      /\ completed_steps(p) \in 0 .. 3 /\ completed_steps(p)' \in 0 .. 3
      /\ completed_steps(p) <= completed_steps(p)'
  BY <1>1, <1>4 DEF total_steps, completed_steps
<1>6. QED
  BY <1>5, PercentMonotone DEF percentage

LEMMA ReadyStays ==
  ASSUME IInv, [Next]_vars, NEW p \in Projects, stage[p] = "stored",
         row[p].deploy = "ready", row'[p].deploy # "failed"
  PROVE  row'[p].deploy = "ready"
<1>1. row[p] \in Row
  BY Facts
<1> QED
  BY <1>1, DeployGoesOn, LifecycleNames
  DEF Lifecycle!Advances, NextDeploy, Row, DeploymentState

LEMMA PercentageType == \A p \in Projects : percentage(p) \in Int /\ percentage(p)' \in Int
BY DEF percentage, total_steps, completed_steps

(* The percentage a client polls goes back only when the config fails after *)
(* all: secrets and config move forward in the lifecycle, and what counts   *)
(* as a step was fixed when the project was stored.                         *)
THEOREM ProgressOnlyGoesOn == Spec => ProgressGoesOn
<1>1. ASSUME IInv, [Next]_vars
      PROVE  \A p \in Projects :
               stage[p] = "stored" /\ percentage(p)' < percentage(p) => row'[p].deploy = "failed"
  <2> SUFFICES ASSUME NEW p \in Projects, stage[p] = "stored", row'[p].deploy # "failed"
               PROVE  ~(percentage(p)' < percentage(p))
    OBVIOUS
  <2>1. row[p].deploy = "ready" => row'[p].deploy = "ready"
    BY <1>1, ReadyStays
  <2>2. QED
    BY <1>1, <2>1, PercentageKept, PercentageType
<1>2. IInv /\ [Next]_vars => [\A p \in Projects :
               stage[p] = "stored" /\ percentage(p)' < percentage(p) => row'[p].deploy = "failed"]_vars
  BY <1>1
<1> QED
  BY <1>2, Invariance, PTL DEF Spec, ProgressGoesOn

\* A config that has its id is failed by the except branch only when
\* publish_project_ready raised.
OnlyCreatingFails == task["bulk"].at = "fail" => task["bulk"].base.deploy = "creating"

LEMMA NextOnlyCreatingFails ==
  ASSUME "kafka" \notin Faults, IInv, OnlyCreatingFails, [Next]_vars
  PROVE  OnlyCreatingFails'
<1>0. "bulk" \in Topics /\ task \in [Topics -> Task]
  BY DEF IInv, TypeOK, Task, Topics
<1>1. CASE UNCHANGED task \/ task'["bulk"].at # "fail"
  BY <1>1 DEF OnlyCreatingFails
<1>2. ASSUME NEW t \in Topics, Handle(t), task'["bulk"].at = "fail" PROVE OnlyCreatingFails'
  <2>1. CASE Posted
    <3>1. task'["bulk"].base = task["bulk"].base
      BY <1>0, <1>2, <2>1 DEF Posted, Commit, Goto, Finish, Free, Task
    <3>2. QED
      BY <2>1, <3>1 DEF Posted, IInv, BulkInv, OnlyCreatingFails
  <2>2. CASE Take(t) \/ SaveStatus(t)
    <3>1. task'["bulk"] = task["bulk"] \/ task'["bulk"].at # "fail"
      BY <1>0, <2>2 DEF Take, SaveStatus, Commit, Finish, Free, Task
    <3>2. QED
      BY <3>1 DEF OnlyCreatingFails
  <2>3. CASE SecretsReady \/ Pop \/ Ready \/ Creating \/ Post \/ Announce \/ Fail
    <3>1. task'["bulk"].at # "fail"
      BY <1>0, <2>3 DEF SecretsReady, Pop, Ready, Creating, Post, Announce, Fail, Commit, Refreshed,
         Goto, Finish, Free, Task
    <3>2. QED
      BY <1>2, <3>1
  <2>4. QED
    BY <1>2, <2>1, <2>2, <2>3 DEF Handle
<1>3. ASSUME NEW i \in Instances, Crash(i) PROVE UNCHANGED task \/ task'["bulk"].at # "fail"
                                                \/ task'["bulk"] = task["bulk"]
  BY <1>0, <1>3, FreeIsTask DEF Crash, Free
<1>4. QED
  BY <1>1, <1>2, <1>3 DEF Next, Request, SaveProject, PublishCreated, PublishLog, StorePending,
     DeleteRow, AnnounceDeletion, Others, SecretsCreated, DeploymentSays, vars, OnlyCreatingFails

\* Only the except branch writes failed.
LEMMA OnlyFailFails ==
  ASSUME IInv, [Next]_vars, NEW p \in Projects, stage[p] = "stored",
         row[p].deploy # "failed", row'[p].deploy = "failed"
  PROVE  task["bulk"].at = "fail" /\ p = task["bulk"].project
<1>0. /\ \A t \in Topics : task[t] \in Task
      /\ row \in [Projects -> Row] /\ "bulk" \in Topics
  BY Facts DEF IInv, TypeOK
<1>1. ASSUME NEW t \in Topics, NEW set, NEW next, Commit(t, set, next)
      PROVE  /\ p = task[t].project
             /\ "deploy" \in DOMAIN set /\ set.deploy = "failed"
  <2>1. row[p] \in Row /\ task[t].project \in Projects
    BY <1>0 DEF Task
  <2>2. p = task[t].project /\ row'[p] = Written(row[p], task[t].base, set)
    BY <1>0, <1>1, <2>1 DEF Commit
  <2>3. "deploy" \in DOMAIN row[p]
    BY <2>1 DEF Row
  <2>4. QED
    BY <2>2, <2>3 DEF Written
<1>2. ASSUME NEW t \in Topics, Handle(t)
      PROVE  task["bulk"].at = "fail" /\ p = task["bulk"].project
  <2>1. CASE SaveStatus(t)
    <3>1. "deploy" \notin DOMAIN StatusColumns(t)
      <4>1. t \in Topics \ {"bulk"}
        BY <1>2, <2>1 DEF SaveStatus, IInv, BulkInv
      <4>2. QED
        BY <4>1 DEF StatusColumns, Topics
    <3>2. QED
      BY <1>1, <2>1, <3>1 DEF SaveStatus
  <2>2. CASE SecretsReady \/ Ready \/ Creating \/ Posted
    BY <1>0, <1>1, <2>2 DEF SecretsReady, Ready, Creating, Posted
  <2>3. CASE Fail
    BY <1>0, <1>1, <2>3 DEF Fail
  <2>4. CASE Take(t) \/ Pop \/ Post \/ Announce
    BY <2>4 DEF Take, Pop, Post, Announce
  <2>5. QED
    BY <1>2, <2>1, <2>2, <2>3, <2>4 DEF Handle
<1>3. ASSUME NEW q \in Projects, SaveProject(q) PROVE FALSE
  BY <1>0, <1>3 DEF SaveProject
<1>4. QED
  BY <1>2, <1>3 DEF Next, Request, PublishCreated, PublishLog, StorePending, DeleteRow,
     AnnounceDeletion, Others, SecretsCreated, DeploymentSays, Crash, vars

(* The exception of ProgressGoesOn is the broker's: as long as publishing   *)
(* works, the percentage a client polls never goes back, however PostgreSQL *)
(* and deployment-service fail, instances die and events come again.        *)
THEOREM OnlyKafkaTakesBack ==
  ASSUME "kafka" \notin Faults
  PROVE  Spec => [][\A p \in Projects :
                      stage[p] = "stored" => percentage(p) <= percentage(p)']_vars
<1>1. Init => OnlyCreatingFails
  BY FreeIsTask DEF Init, OnlyCreatingFails, Topics
<1>2. IInv /\ OnlyCreatingFails /\ [Next]_vars => OnlyCreatingFails'
  BY NextOnlyCreatingFails
<1>3. ASSUME IInv, OnlyCreatingFails, [Next]_vars, NEW p \in Projects, stage[p] = "stored"
      PROVE  percentage(p) <= percentage(p)'
  <2>1. ASSUME row[p].deploy = "ready", row'[p].deploy = "failed" PROVE FALSE
    BY <1>3, <2>1, OnlyFailFails DEF OnlyCreatingFails, IInv, BulkInv
  <2>2. row[p].deploy = "ready" => row'[p].deploy = "ready"
    BY <1>3, <2>1, ReadyStays
  <2>3. QED
    BY <1>3, <2>2, PercentageKept
<1>4. IInv /\ OnlyCreatingFails /\ [Next]_vars
        => [\A p \in Projects : stage[p] = "stored" => percentage(p) <= percentage(p)']_vars
  BY <1>3
<1> QED
  BY <1>1, <1>2, <1>4, Invariance, PTL DEF Spec
=============================================================================
