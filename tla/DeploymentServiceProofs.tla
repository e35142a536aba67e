----------------------- MODULE DeploymentServiceProofs -----------------------
(***************************************************************************)
(* Theorems about DeploymentService, for any number of deployments,        *)
(* projects, environments and requests, and for every set of faults.       *)
(***************************************************************************)
EXTENDS DeploymentService, FiniteSetTheorems, TLAPS

LEMMA NoConfigType == NoConfig \in Config
BY NamesExist DEF NoConfig, Config

LEMMA IdleType == Idle \in PurgeState
BY NamesExist DEF Idle, PurgeState

LEMMA InitType == Init => TypeOK
<1> SUFFICES ASSUME Init PROVE TypeOK
  OBVIOUS
<1>1. TablesOK
  BY DEF Init, TablesOK, Observed, None
<1>2. GoroutinesOK
  BY NoConfigType DEF Init, GoroutinesOK, Steps, Fields, Kind
<1>3. NomadOK
  BY DEF Init, NomadOK
<1>4. CommandsOK
  BY IdleType DEF Init, CommandsOK
<1>5. ProcessOK
  BY DEF Init, ProcessOK
<1>6. QED
  BY <1>1, <1>2, <1>3, <1>4, <1>5 DEF TypeOK


(* A step that saves or publishes for one deployment keeps the types.       *)
LEMMA SaveType ==
  ASSUME TypeOK, NEW d \in Deployments, NEW s \in DeploymentStatus,
         NEW next \in Steps, NEW otherwise \in Steps,
         Save(d, s, next, otherwise)
  PROVE  TypeOK'
<1> PICK o \in Outcome("db", Live(d)) :
      /\ Upsert(d, s, o)
      /\ Goto(d, IF Saved(d, o) THEN next ELSE otherwise)
      /\ Disturb(IF Saved(d, o) THEN {} ELSE {d})
      /\ UNCHANGED <<said, nomadVars, commandVars, tableVars, proc>>
  BY DEF Save
<1>1. TablesOK'
  BY DEF TypeOK, TablesOK, Upsert, tableVars, Observed
<1>2. GoroutinesOK'
  BY DEF TypeOK, GoroutinesOK, Goto, tableVars
<1>3. NomadOK'
  BY DEF TypeOK, NomadOK, nomadVars
<1>4. CommandsOK'
  BY DEF TypeOK, CommandsOK, commandVars
<1>5. ProcessOK'
  BY DEF TypeOK, ProcessOK, Disturb
<1>6. QED
  BY <1>1, <1>2, <1>3, <1>4, <1>5 DEF TypeOK

LEMMA SayType ==
  ASSUME TypeOK, NEW d \in Deployments, NEW s \in DeploymentStatus,
         NEW next \in Steps, Say(d, s, next)
  PROVE  TypeOK'
<1> PICK o \in Outcome("kafka", Live(d)) : Publish(d, s, o)
  BY DEF Say
<1>1. TablesOK'
  BY DEF TypeOK, TablesOK, Say, Publish, tableVars, Observed
<1>2. GoroutinesOK'
  BY DEF TypeOK, GoroutinesOK, Say, Goto, tableVars
<1>3. NomadOK'
  BY DEF TypeOK, NomadOK, Say, nomadVars
<1>4. CommandsOK'
  BY DEF TypeOK, CommandsOK, Say, commandVars
<1>5. ProcessOK'
  BY DEF TypeOK, ProcessOK, Say, Publish, Disturb
<1>6. QED
  BY <1>1, <1>2, <1>3, <1>4, <1>5 DEF TypeOK

LEMMA SubmitBuildType ==
  ASSUME TypeOK, NEW d \in Deployments, SubmitBuild(d)
  PROVE  TypeOK'
<1>1. TablesOK'
  BY DEF TypeOK, TablesOK, SubmitBuild, tableVars
<1>2. GoroutinesOK'
  BY DEF TypeOK, GoroutinesOK, SubmitBuild, Goto, tableVars, Steps
<1>3. NomadOK'
  <2>1. [id |-> BuildOf(d), state |-> "running"] \in [id : BuildId, state : BuildState]
    BY DEF TypeOK, GoroutinesOK, BuildOf, BuildId, BuildState, Fields, Config
  <2>2. builds' \subseteq [id : BuildId, state : BuildState]
    BY <2>1 DEF TypeOK, NomadOK, SubmitBuild, RegisterBuild
  <2>3. QED
    BY <2>2 DEF TypeOK, NomadOK, SubmitBuild
<1>4. CommandsOK'
  BY DEF TypeOK, CommandsOK, SubmitBuild, commandVars
<1>5. ProcessOK'
  BY DEF TypeOK, ProcessOK, SubmitBuild
<1>6. QED
  BY <1>1, <1>2, <1>3, <1>4, <1>5 DEF TypeOK

LEMMA SubmitAppType ==
  ASSUME TypeOK, NEW d \in Deployments, SubmitApp(d)
  PROVE  TypeOK'
<1>1. TablesOK'
  BY DEF TypeOK, TablesOK, SubmitApp, tableVars
<1>2. GoroutinesOK'
  BY DEF TypeOK, GoroutinesOK, SubmitApp, Goto, tableVars, Steps
<1>3. NomadOK'
  BY DEF TypeOK, NomadOK, SubmitApp
<1>4. CommandsOK'
  BY DEF TypeOK, CommandsOK, SubmitApp, commandVars
<1>5. ProcessOK'
  BY DEF TypeOK, ProcessOK, SubmitApp, Disturb
<1>6. QED
  BY <1>1, <1>2, <1>3, <1>4, <1>5 DEF TypeOK

(* The steps of a goroutine.                                                *)
LEMMA PipelineType ==
  ASSUME TypeOK, NEW d \in Deployments, Pipeline(d)
  PROVE  TypeOK'
<1>1. CASE SaveBuilding(d)
  BY <1>1, SaveType DEF SaveBuilding, Steps, DeploymentStatus
<1>2. CASE SayBuilding(d)
  BY <1>2, SayType DEF SayBuilding, Steps, DeploymentStatus
<1>3. CASE SubmitBuild(d)
  BY <1>3, SubmitBuildType
<1>4. CASE AwaitBuild(d)
  BY <1>4 DEF TypeOK, TablesOK, GoroutinesOK, NomadOK, CommandsOK, ProcessOK,
     AwaitBuild, Goto, Steps, tableVars, nomadVars, commandVars
<1>5. CASE SaveDeploying(d)
  BY <1>5, SaveType DEF SaveDeploying, Steps, DeploymentStatus
<1>6. CASE SayDeploying(d)
  BY <1>6, SayType DEF SayDeploying, Steps, DeploymentStatus
<1>7. CASE SubmitApp(d)
  BY <1>7, SubmitAppType
<1>8. CASE SaveRunning(d)
  BY <1>8, SaveType DEF SaveRunning, Steps, DeploymentStatus
<1>9. CASE SayRunning(d)
  BY <1>9, SayType DEF SayRunning, Steps, DeploymentStatus
<1>10. CASE SaveFailed(d)
  BY <1>10, SaveType DEF SaveFailed, Steps, DeploymentStatus
<1>11. CASE SayFailed(d)
  BY <1>11, SayType DEF SayFailed, Steps, DeploymentStatus
<1>12. QED
  BY <1>1, <1>2, <1>3, <1>4, <1>5, <1>6, <1>7, <1>8, <1>9, <1>10, <1>11 DEF Pipeline

LEMMA NewDeploymentType ==
  ASSUME TypeOK, NEW d \in Deployments, NEW kind \in Kind, NEW c \in Config,
         NEW version \in Nat, NEW seen \in SUBSET Deployments,
         NEW missed \in SUBSET Deployments, NewDeployment(d, kind, c, version, seen, missed)
  PROVE  GoroutinesOK'
BY DEF TypeOK, GoroutinesOK, NewDeployment, Goto, Steps, Fields

LEMMA NewConfigType ==
  ASSUME TypeOK, NEW p \in Projects, NEW e \in Envs, NEW created \in Nat
  PROVE  NewConfig(p, e, created) \in Config
BY DEF TypeOK, TablesOK, NewConfig, Config

(* What the consumer does.                                                  *)
LEMMA ReceiveBulkCreatedType ==
  ASSUME TypeOK, NEW p \in Projects, NEW e \in Envs, ReceiveBulkCreated(p, e)
  PROVE  TypeOK'
<1>1. NewConfig(p, e, nextId) \in Config
  BY NewConfigType DEF TypeOK, TablesOK
<1>2. TablesOK'
  BY <1>1 DEF TypeOK, TablesOK, ReceiveBulkCreated
<1>3. GoroutinesOK'
  <2>1. CASE \E d \in Deployments : NewDeployment(d, "deploy", NewConfig(p, e, nextId), 1, {}, {})
    BY <1>1, <2>1, NewDeploymentType DEF Kind
  <2>2. CASE UNCHANGED <<pc, dep>>
    BY <2>2 DEF TypeOK, GoroutinesOK
  <2>3. QED
    BY <2>1, <2>2 DEF ReceiveBulkCreated
<1>4. NomadOK' /\ CommandsOK' /\ ProcessOK'
  BY DEF TypeOK, NomadOK, CommandsOK, ProcessOK, ReceiveBulkCreated, nomadVars, commandVars
<1>5. QED
  BY <1>2, <1>3, <1>4 DEF TypeOK

LEMMA DropRowsType ==
  ASSUME TypeOK, NEW C, DropRows(C)
  PROVE  rows' \in [Deployments -> Observed]
BY DEF TypeOK, TablesOK, DropRows, Observed, None

LEMMA PurgeJobsType ==
  ASSUME TypeOK, NEW d \in Deployments, PurgeJobs(d)
  PROVE  TypeOK'
<1>1. Killed(d) \subseteq [id : BuildId, state : BuildState]
  BY DEF TypeOK, NomadOK, Killed, BuildState
<1>2. NomadOK'
  BY <1>1 DEF TypeOK, NomadOK, PurgeJobs
<1>3. CommandsOK'
  BY DEF TypeOK, CommandsOK, PurgeState, PurgeJobs
<1>4. TablesOK' /\ GoroutinesOK' /\ ProcessOK'
  BY DEF TypeOK, TablesOK, GoroutinesOK, ProcessOK, PurgeJobs, Disturb, tableVars
<1>5. QED
  BY <1>2, <1>3, <1>4 DEF TypeOK

LEMMA ConsumeType == TypeOK /\ Consume => TypeOK'
<1> SUFFICES ASSUME TypeOK, Consume PROVE TypeOK'
  OBVIOUS
<1>1. ASSUME NEW p \in Projects, ReceiveDeleted(p) PROVE TypeOK'
  <2>1. ConfigsOf(p) \subseteq Config
    BY DEF TypeOK, TablesOK, ConfigsOf
  <2>2. CommandsOK'
    BY <1>1, <2>1, IdleType DEF TypeOK, CommandsOK, PurgeState, ReceiveDeleted
  <2>3. TablesOK' /\ GoroutinesOK' /\ NomadOK' /\ ProcessOK'
    BY <1>1 DEF TypeOK, TablesOK, GoroutinesOK, NomadOK, ProcessOK,
       ReceiveDeleted, tableVars, nomadVars
  <2>4. QED
    BY <2>2, <2>3 DEF TypeOK
<1>2. ASSUME PurgeRead PROVE TypeOK'
  <2>1. \A c \in Config : RowsOf(c) \subseteq Deployments
    BY DEF RowsOf
  <2>2. CommandsOK'
    <3>1. PICK c \in purge.todo :
            \/ purge' = [purge EXCEPT !.at = "jobs", !.now = {c}, !.deps = RowsOf(c),
                                      !.todo = @ \ {c}]
            \/ purge' = [purge EXCEPT !.todo = @ \ {c}]
      BY <1>2 DEF PurgeRead
    <3>2. c \in Config
      BY DEF TypeOK, CommandsOK, PurgeState
    <3>3. purge \in PurgeState /\ purge.todo \ {c} \subseteq Config
      BY DEF TypeOK, CommandsOK, PurgeState
    <3>4. ASSUME purge' = [purge EXCEPT !.todo = @ \ {c}]
          PROVE  purge' \in PurgeState
      BY <3>3, <3>4 DEF PurgeState
    <3>5. ASSUME purge' = [purge EXCEPT !.at = "jobs", !.now = {c}, !.deps = RowsOf(c),
                                        !.todo = @ \ {c}]
          PROVE  purge' \in PurgeState
      BY <2>1, <3>2, <3>3, <3>5 DEF PurgeState
    <3>6. purge' \in PurgeState
      BY <3>1, <3>4, <3>5
    <3>7. QED
      BY <1>2, <3>6 DEF TypeOK, CommandsOK, PurgeRead
  <2>3. TablesOK' /\ GoroutinesOK' /\ NomadOK' /\ ProcessOK'
    BY <1>2 DEF TypeOK, TablesOK, GoroutinesOK, NomadOK, ProcessOK,
       PurgeRead, tableVars, nomadVars
  <2>4. QED
    BY <2>2, <2>3 DEF TypeOK
<1>3. ASSUME PurgeRows PROVE TypeOK'
  <2>1. TablesOK'
    BY <1>3, DropRowsType DEF TypeOK, TablesOK, PurgeRows, tableVars
  <2>2. CommandsOK'
    BY <1>3 DEF TypeOK, CommandsOK, PurgeState, PurgeRows
  <2>3. GoroutinesOK' /\ NomadOK' /\ ProcessOK'
    BY <1>3 DEF TypeOK, GoroutinesOK, NomadOK, ProcessOK, PurgeRows,
       Disturb, Owned, tableVars, nomadVars
  <2>4. QED
    BY <2>1, <2>2, <2>3 DEF TypeOK
<1>4. ASSUME PurgeConfigs PROVE TypeOK'
  <2>1. TablesOK'
    BY <1>4, DropRowsType DEF TypeOK, TablesOK, PurgeConfigs
  <2>2. CommandsOK'
    BY <1>4, IdleType DEF TypeOK, CommandsOK, PurgeConfigs
  <2>3. GoroutinesOK' /\ NomadOK' /\ ProcessOK'
    BY <1>4 DEF TypeOK, GoroutinesOK, NomadOK, ProcessOK, PurgeConfigs,
       Disturb, Owned, nomadVars
  <2>4. QED
    BY <2>1, <2>2, <2>3 DEF TypeOK
<1>5. QED
  BY <1>1, <1>2, <1>3, <1>4, NamesExist, ReceiveBulkCreatedType, PurgeJobsType DEF Consume

(* What the HTTP handlers do.                                               *)
LEMMA ServeType == TypeOK /\ Serve => TypeOK'
<1> SUFFICES ASSUME TypeOK, Serve PROVE TypeOK'
  OBVIOUS
<1>1. ASSUME NEW d \in Deployments, NEW p \in Projects, Retry(d, p) PROVE TypeOK'
  <2>1. PICK c \in Latest(p), seen \in Counted(p) :
               NewDeployment(d, "retry", c, Cardinality(seen) + 1, seen, ProjectRows(p) \ seen)
    BY <1>1 DEF Retry
  <2>2. c \in Config
    BY DEF Latest, ConfigsOf, TypeOK, TablesOK
  <2>3. seen \in SUBSET Deployments /\ ProjectRows(p) \ seen \in SUBSET Deployments
    BY DEF Counted, ProjectRows, RowsOf
  <2>4. Cardinality(seen) + 1 \in Nat
    BY <2>3, DeploymentsFinite, FS_Subset, FS_CardinalityType
  <2>5. GoroutinesOK'
    BY <2>1, <2>2, <2>3, <2>4, NewDeploymentType DEF Kind
  <2>6. TablesOK' /\ NomadOK' /\ CommandsOK' /\ ProcessOK'
    BY <1>1 DEF TypeOK, TablesOK, NomadOK, CommandsOK, ProcessOK, Retry,
       nomadVars, commandVars
  <2>7. QED
    BY <2>5, <2>6 DEF TypeOK
<1>2. ASSUME NEW q \in Callers, NEW d \in Deployments, StopRead(q, d) PROVE TypeOK'
  BY <1>2 DEF TypeOK, TablesOK, GoroutinesOK, NomadOK, CommandsOK, ProcessOK,
     StopRead, StopReq, tableVars, nomadVars
<1>3. ASSUME NEW r \in stops, StopKill(r) PROVE TypeOK'
  BY <1>3 DEF TypeOK, TablesOK, GoroutinesOK, NomadOK, CommandsOK, ProcessOK,
     StopKill, StopReq, Disturb, tableVars
<1>4. ASSUME NEW r \in stops, StopSave(r) PROVE TypeOK'
  <2>1. r.dep \in Deployments
    BY DEF TypeOK, CommandsOK, StopReq
  <2>2. TablesOK'
    BY <1>4, <2>1 DEF TypeOK, TablesOK, StopSave, Upsert, Observed, DeploymentStatus, tableVars
  <2>3. ProcessOK'
    BY <1>4, <2>1 DEF TypeOK, ProcessOK, StopSave, Disturb
  <2>4. GoroutinesOK' /\ NomadOK' /\ CommandsOK'
    BY <1>4 DEF TypeOK, GoroutinesOK, NomadOK, CommandsOK, StopSave, tableVars, nomadVars
  <2>5. QED
    BY <2>2, <2>3, <2>4 DEF TypeOK
<1>5. ASSUME NEW q \in Callers, NEW p \in Projects, NEW e \in Envs, CheckConfig(q, p, e)
      PROVE  TypeOK'
  BY <1>5 DEF TypeOK, TablesOK, GoroutinesOK, NomadOK, CommandsOK, ProcessOK,
     CheckConfig, ConfigReq, tableVars, nomadVars
<1>6. ASSUME NEW x \in checked, InsertConfig(x) PROVE TypeOK'
  <2>1. NewConfig(x.project, x.env, 0) \in Config
    BY NewConfigType DEF TypeOK, CommandsOK, ConfigReq
  <2>2. TablesOK'
    BY <1>6, <2>1 DEF TypeOK, TablesOK, InsertConfig
  <2>3. GoroutinesOK' /\ NomadOK' /\ CommandsOK' /\ ProcessOK'
    BY <1>6 DEF TypeOK, GoroutinesOK, NomadOK, CommandsOK, ProcessOK,
       InsertConfig, nomadVars
  <2>4. QED
    BY <2>2, <2>3 DEF TypeOK
<1>7. QED
  BY <1>1, <1>2, <1>3, <1>4, <1>5, <1>6 DEF Serve

LEMMA LoseMemoryType ==
  ASSUME TypeOK, LoseMemory
  PROVE  TablesOK' /\ GoroutinesOK' /\ NomadOK' /\ CommandsOK'
         /\ proc' = "down"
<1>1. pc' \in [Deployments -> Steps]
  BY DEF LoseMemory, Steps
<1>2. QED
  BY <1>1, IdleType DEF TypeOK, TablesOK, GoroutinesOK, NomadOK, CommandsOK,
     LoseMemory, tableVars, nomadVars

LEMMA NextType == TypeOK /\ [Next]_vars => TypeOK'
<1> SUFFICES ASSUME TypeOK, [Next]_vars PROVE TypeOK'
  OBVIOUS
<1>1. ASSUME FinishBuild PROVE TypeOK'
  <2>1. NomadOK'
    BY <1>1 DEF TypeOK, NomadOK, FinishBuild, BuildState
  <2>2. TablesOK' /\ GoroutinesOK' /\ CommandsOK' /\ ProcessOK'
    BY <1>1 DEF TypeOK, TablesOK, GoroutinesOK, CommandsOK, ProcessOK,
       FinishBuild, tableVars, commandVars
  <2>3. QED
    BY <2>1, <2>2 DEF TypeOK
<1>2. CASE SigTerm \/ Boot
  BY <1>2 DEF TypeOK, TablesOK, GoroutinesOK, NomadOK, CommandsOK, ProcessOK,
     SigTerm, Boot, tableVars, nomadVars, commandVars
<1>3. CutOff \subseteq Deployments
  BY DEF TypeOK, CommandsOK, StopReq, CutOff
<1>4. CASE Exit \/ Crash
  BY <1>3, <1>4, LoseMemoryType DEF TypeOK, ProcessOK, Exit, Crash, Disturb
<1>5. CASE UNCHANGED vars
  BY <1>5 DEF TypeOK, TablesOK, GoroutinesOK, NomadOK, CommandsOK, ProcessOK, vars
<1>6. QED
  BY <1>1, <1>2, <1>3, <1>4, <1>5, PipelineType, ConsumeType, ServeType DEF Next

(* Every variable keeps its type in every behaviour of the service.         *)
THEOREM TypeCorrect == Spec => []TypeOK
BY InitType, NextType, PTL DEF Spec

-----------------------------------------------------------------------------
(* The inductive invariant IInv: rows and events never run ahead of the     *)
(* goroutine (NeverAhead), stop requests come after its last save           *)
(* (StopsAreLate), and the schema's constraints and fresh ids keep event-   *)
(* triggered deployments apart.                                             *)

LEMMA InitInv == Init => IInv
<1> SUFFICES ASSUME Init PROVE IInv
  OBVIOUS
<1>1. TypeOK
  BY InitType
<1>2. NeverAhead
  BY DEF Init, NeverAhead, StoredAt, SaidAt
<1>3. IdsAreUsed
  BY DEF Init, IdsAreUsed, NoConfig
<1>4. StopsAreLate /\ RowHasConfig /\ UniqueConfigs /\ OneDeployPerConfig
  BY DEF Init, StopsAreLate, RowHasConfig, UniqueConfigs, OneDeployPerConfig
<1>5. QED
  BY <1>1, <1>2, <1>3, <1>4 DEF IInv

(* A save leaves every part of the invariant standing when the status saved *)
(* and what is stored now both fit the two steps it may lead to.            *)
LEMMA SaveInv ==
  ASSUME IInv, NEW d \in Deployments, NEW s \in DeploymentStatus,
         NEW next \in Steps, NEW otherwise \in Steps,
         Save(d, s, next, otherwise),
         pc[d] \notin {"idle", "sayRunning", "done"},
         next # "idle", otherwise # "idle",
         s \in StoredAt(next), s \in StoredAt(otherwise),
         rows[d] \in StoredAt(next), rows[d] \in StoredAt(otherwise),
         said[d] \in SaidAt(next), said[d] \in SaidAt(otherwise)
  PROVE  IInv'
<1> PICK o \in Outcome("db", Live(d)) :
      /\ Upsert(d, s, o)
      /\ Goto(d, IF Saved(d, o) THEN next ELSE otherwise)
      /\ UNCHANGED <<said, commandVars, tableVars>>
  BY DEF Save
<1>0. TypeOK'
  BY SaveType DEF IInv
<1>1. rows' \in {rows, [rows EXCEPT ![d] = s]} /\ pc' \in {[pc EXCEPT ![d] = next], [pc EXCEPT ![d] = otherwise]}
  BY DEF Upsert, Goto
<1>2. NeverAhead'
  <2> SUFFICES ASSUME NEW x \in Deployments
               PROVE  rows'[x] \in StoredAt(pc'[x]) /\ said'[x] \in SaidAt(pc'[x])
    BY DEF NeverAhead
  <2>1. CASE x = d
    BY <1>1, <2>1 DEF IInv, TypeOK, TablesOK, GoroutinesOK
  <2>2. CASE x # d
    BY <1>1, <2>2 DEF IInv, TypeOK, TablesOK, GoroutinesOK, NeverAhead
  <2>3. QED
    BY <2>1, <2>2
<1>3. StopsAreLate'
  <2> SUFFICES ASSUME NEW r \in stops
               PROVE  pc'[r.dep] \in {"sayRunning", "done"}
                      /\ rows'[r.dep] \in {None, "running", "stopped"}
    BY DEF StopsAreLate, commandVars
  <2>1. r.dep \in Deployments /\ r.dep # d
    BY DEF IInv, TypeOK, CommandsOK, StopReq, StopsAreLate
  <2>2. QED
    BY <1>1, <2>1 DEF IInv, TypeOK, TablesOK, GoroutinesOK, StopsAreLate
<1>4. RowHasConfig'
  BY <1>1 DEF IInv, TypeOK, TablesOK, RowHasConfig, Upsert, tableVars
<1>5. OneDeployPerConfig'
  BY <1>1 DEF IInv, TypeOK, GoroutinesOK, OneDeployPerConfig, tableVars
<1>6. UniqueConfigs' /\ IdsAreUsed'
  BY DEF IInv, UniqueConfigs, IdsAreUsed, tableVars
<1>7. QED
  BY <1>0, <1>2, <1>3, <1>4, <1>5, <1>6 DEF IInv

(* A step that changes no table and no request, and only d's place and      *)
(* possibly what d announced.                                               *)
LEMMA MoveInv ==
  ASSUME IInv, TypeOK', NEW d \in Deployments, NEW next \in Steps,
         Goto(d, next), pc[d] # "idle", next # "idle",
         pc[d] \in {"sayRunning", "done"} => next \in {"sayRunning", "done"},
         rows[d] \in StoredAt(next),
         said'[d] \in SaidAt(next),
         \A x \in Deployments \ {d} : said'[x] = said[x],
         UNCHANGED <<rows, configs, nextId, dep, stops>>
  PROVE  IInv'
<1>1. NeverAhead'
  BY DEF IInv, TypeOK, GoroutinesOK, NeverAhead, Goto
<1>2. StopsAreLate'
  BY DEF IInv, TypeOK, GoroutinesOK, CommandsOK, StopReq, StopsAreLate, Goto
<1>3. OneDeployPerConfig'
  BY DEF IInv, TypeOK, GoroutinesOK, OneDeployPerConfig, Goto
<1>4. RowHasConfig' /\ UniqueConfigs' /\ IdsAreUsed'
  BY DEF IInv, RowHasConfig, UniqueConfigs, IdsAreUsed
<1>5. QED
  BY <1>1, <1>2, <1>3, <1>4 DEF IInv

LEMMA SayInv ==
  ASSUME IInv, NEW d \in Deployments, NEW s \in DeploymentStatus,
         NEW next \in Steps, Say(d, s, next),
         pc[d] \notin {"idle", "done"}, next # "idle",
         pc[d] = "sayRunning" => next = "done",
         rows[d] \in StoredAt(next), said[d] \in SaidAt(next), s \in SaidAt(next)
  PROVE  IInv'
<1>1. TypeOK'
  BY SayType DEF IInv
<1>2. said' \in {said, [said EXCEPT ![d] = s]}
  BY DEF Say, Publish
<1>3. said'[d] \in SaidAt(next) /\ \A x \in Deployments \ {d} : said'[x] = said[x]
  BY <1>2 DEF IInv, TypeOK, TablesOK
<1>4. Goto(d, next) /\ UNCHANGED <<rows, configs, nextId, dep, stops>>
  BY DEF Say, tableVars, commandVars
<1>5. QED
  BY <1>1, <1>3, <1>4, MoveInv

LEMMA PipelineInv ==
  ASSUME IInv, NEW d \in Deployments, Pipeline(d)
  PROVE  IInv'
<1> USE DEF StoredAt, SaidAt, Observed, DeploymentStatus, None
<1>0. rows[d] \in StoredAt(pc[d]) /\ said[d] \in SaidAt(pc[d]) /\ TypeOK'
  BY PipelineType DEF IInv, NeverAhead
<1>1. CASE SaveBuilding(d)
  BY <1>0, <1>1, SaveInv DEF SaveBuilding, Steps
<1>2. CASE SayBuilding(d)
  BY <1>0, <1>2, SayInv DEF SayBuilding, Steps
<1>3. CASE SubmitBuild(d)
  <2>1. PICK next \in {"awaitBuild", "saveFailed"} : Goto(d, next)
    BY <1>3 DEF SubmitBuild
  <2>2. pc[d] = "submitBuild" /\ UNCHANGED <<said, rows, configs, nextId, dep, stops>>
    BY <1>3 DEF SubmitBuild, tableVars, commandVars
  <2>3. QED
    BY <1>0, <2>1, <2>2, MoveInv DEF Steps
<1>4. CASE AwaitBuild(d)
  <2>1. PICK next \in {"saveDeploying", "saveFailed"} : Goto(d, next)
    BY <1>4 DEF AwaitBuild
  <2>2. pc[d] = "awaitBuild" /\ UNCHANGED <<said, rows, configs, nextId, dep, stops>>
    BY <1>4 DEF AwaitBuild, tableVars, commandVars
  <2>3. QED
    BY <1>0, <2>1, <2>2, MoveInv DEF Steps
<1>5. CASE SaveDeploying(d)
  BY <1>0, <1>5, SaveInv DEF SaveDeploying, Steps
<1>6. CASE SayDeploying(d)
  BY <1>0, <1>6, SayInv DEF SayDeploying, Steps
<1>7. CASE SubmitApp(d)
  <2>1. PICK next \in {"saveRunning", "saveFailed"} : Goto(d, next)
    BY <1>7 DEF SubmitApp
  <2>2. pc[d] = "submitApp" /\ UNCHANGED <<said, rows, configs, nextId, dep, stops>>
    BY <1>7 DEF SubmitApp, tableVars, commandVars
  <2>3. QED
    BY <1>0, <2>1, <2>2, MoveInv DEF Steps
<1>8. CASE SaveRunning(d)
  BY <1>0, <1>8, SaveInv DEF SaveRunning, Steps
<1>9. CASE SayRunning(d)
  BY <1>0, <1>9, SayInv DEF SayRunning, Steps
<1>10. CASE SaveFailed(d)
  BY <1>0, <1>10, SaveInv DEF SaveFailed, Steps
<1>11. CASE SayFailed(d)
  BY <1>0, <1>11, SayInv DEF SayFailed, Steps
<1>12. QED
  BY <1>1, <1>2, <1>3, <1>4, <1>5, <1>6, <1>7, <1>8, <1>9, <1>10, <1>11 DEF Pipeline

(* A step that leaves rows, events, goroutines and configs alone and adds   *)
(* no stop request, or only one for a running row.                          *)
LEMMA QuietInv ==
  ASSUME IInv, TypeOK', UNCHANGED <<rows, said, configs, nextId, pc, dep>>,
         \A r \in stops' : (\E x \in stops : x.dep = r.dep) \/ rows[r.dep] = "running"
  PROVE  IInv'
<1>1. StopsAreLate'
  <2> SUFFICES ASSUME NEW r \in stops'
               PROVE  /\ pc[r.dep] \in {"sayRunning", "done"}
                      /\ rows[r.dep] \in {None, "running", "stopped"}
    BY DEF StopsAreLate
  <2>1. r.dep \in Deployments
    BY DEF TypeOK, CommandsOK, StopReq
  <2>2. CASE \E x \in stops : x.dep = r.dep
    BY <2>2 DEF IInv, StopsAreLate
  <2>3. CASE rows[r.dep] = "running"
    BY <2>1, <2>3 DEF IInv, TypeOK, GoroutinesOK, NeverAhead, StoredAt, Steps, None
  <2>4. QED
    BY <2>2, <2>3
<1>2. QED
  BY <1>1 DEF IInv, NeverAhead, RowHasConfig, UniqueConfigs, IdsAreUsed, OneDeployPerConfig

(* Rows go away, with their configs or without.                             *)
LEMMA RemoveInv ==
  ASSUME IInv, TypeOK', NEW C, DropRows(C), configs' \subseteq configs,
         configs \ configs' \subseteq C,
         UNCHANGED <<said, nextId, pc, dep, stops>>
  PROVE  IInv'
<1>1. \A d \in Deployments : rows'[d] \in {rows[d], None}
  BY DEF DropRows, IInv, TypeOK, TablesOK
<1>2. NeverAhead'
  BY <1>1 DEF IInv, TypeOK, GoroutinesOK, NeverAhead, StoredAt, None, Observed, DeploymentStatus
<1>3. StopsAreLate'
  BY <1>1 DEF IInv, TypeOK, CommandsOK, StopReq, StopsAreLate
<1>4. RowHasConfig'
  BY DEF IInv, RowHasConfig, DropRows, None
<1>5. UniqueConfigs' /\ IdsAreUsed' /\ OneDeployPerConfig'
  BY DEF IInv, UniqueConfigs, IdsAreUsed, OneDeployPerConfig
<1>6. QED
  BY <1>2, <1>3, <1>4, <1>5 DEF IInv

LEMMA ReceiveBulkCreatedInv ==
  ASSUME IInv, NEW p \in Projects, NEW e \in Envs, ReceiveBulkCreated(p, e)
  PROVE  IInv'
<1> DEFINE c == NewConfig(p, e, nextId)
<1>0. TypeOK' /\ nextId \in Nat
  BY ReceiveBulkCreatedType DEF IInv, TypeOK, TablesOK
<1>1. /\ configs' = configs \cup {c} /\ nextId' = nextId + 1
      /\ UNCHANGED <<rows, said, stops>>
  BY DEF ReceiveBulkCreated, commandVars
<1>2. c.id = nextId /\ c.project = p /\ c.env = e
  BY DEF NewConfig
<1>3. UniqueConfigs'
  BY <1>1, <1>2 DEF IInv, UniqueConfigs, ReceiveBulkCreated, NoConfigFor, ConfigsOf
<1>4. RowHasConfig' /\ NeverAhead' /\ StopsAreLate' /\ IdsAreUsed' /\ OneDeployPerConfig'
  <2>1. ASSUME NEW d \in Deployments, NewDeployment(d, "deploy", c, 1, {}, {})
        PROVE  RowHasConfig' /\ NeverAhead' /\ StopsAreLate' /\ IdsAreUsed' /\ OneDeployPerConfig'
    <3>1. /\ pc[d] = "idle" /\ pc' = [pc EXCEPT ![d] = "saveBuilding"]
          /\ dep' = [dep EXCEPT ![d] = [kind |-> "deploy", config |-> c,
                                        version |-> 1, seen |-> {}, missed |-> {}]]
      BY <2>1 DEF NewDeployment, Goto
    <3>2. rows[d] = None /\ said[d] = None
      BY <3>1 DEF IInv, NeverAhead, StoredAt, SaidAt
    <3>3. dep'[d].config = c /\ \A x \in Deployments \ {d} : dep'[x] = dep[x] /\ pc'[x] = pc[x]
      BY <3>1 DEF IInv, TypeOK, GoroutinesOK
    <3>4. pc'[d] = "saveBuilding"
      BY <3>1 DEF IInv, TypeOK, GoroutinesOK
    <3>5. RowHasConfig'
      BY <1>1, <3>2, <3>3 DEF IInv, RowHasConfig
    <3>6. NeverAhead'
      BY <1>1, <3>2, <3>3, <3>4 DEF IInv, NeverAhead, StoredAt, SaidAt
    <3>7. StopsAreLate'
      BY <1>1, <3>1, <3>3 DEF IInv, TypeOK, CommandsOK, StopReq, StopsAreLate
    <3>8. IdsAreUsed'
      <4>1. \A x \in configs' : x.id < nextId'
        BY <1>0, <1>1, <1>2 DEF IInv, TypeOK, TablesOK, Config, IdsAreUsed
      <4>2. \A x \in Deployments : dep[x].config.id \in Nat
        BY DEF IInv, TypeOK, GoroutinesOK, Fields, Config
      <4>3. \A x \in Deployments : dep'[x].config.id < nextId'
        BY <1>0, <1>1, <1>2, <3>3, <4>2 DEF IInv, IdsAreUsed
      <4>4. QED
        BY <4>1, <4>3 DEF IdsAreUsed
    <3>9. OneDeployPerConfig'
      <4>1. \A x \in Deployments : dep[x].config.id \in Nat
        BY DEF IInv, TypeOK, GoroutinesOK, Fields, Config
      <4>2. \A x \in Deployments : dep[x].config # c
        BY <1>0, <1>2, <4>1 DEF IInv, IdsAreUsed
      <4>3. QED
        BY <3>3, <4>2 DEF IInv, OneDeployPerConfig
    <3>10. QED
      BY <3>5, <3>6, <3>7, <3>8, <3>9
  <2>2. ASSUME UNCHANGED <<pc, dep>>
        PROVE  RowHasConfig' /\ NeverAhead' /\ StopsAreLate' /\ IdsAreUsed' /\ OneDeployPerConfig'
    <3>1. IdsAreUsed'
      <4>1. \A x \in configs' : x.id < nextId'
        BY <1>0, <1>1, <1>2 DEF IInv, TypeOK, TablesOK, Config, IdsAreUsed
      <4>2. \A x \in Deployments : dep[x].config.id \in Nat
        BY DEF IInv, TypeOK, GoroutinesOK, Fields, Config
      <4>3. \A x \in Deployments : dep[x].config.id < nextId'
        BY <1>0, <1>1, <4>2 DEF IInv, IdsAreUsed
      <4>4. QED
        BY <2>2, <4>1, <4>3 DEF IdsAreUsed
    <3>2. QED
      BY <1>1, <2>2, <3>1 DEF IInv, RowHasConfig, NeverAhead, StopsAreLate, OneDeployPerConfig
  <2>3. QED
    BY <2>1, <2>2 DEF ReceiveBulkCreated
<1>5. QED
  BY <1>0, <1>3, <1>4 DEF IInv

LEMMA ConsumeInv == IInv /\ Consume => IInv'
<1> SUFFICES ASSUME IInv, Consume PROVE IInv'
  OBVIOUS
<1>0. TypeOK'
  BY ConsumeType DEF IInv
<1>1. ASSUME NEW p \in Projects, ReceiveDeleted(p) PROVE IInv'
  BY <1>0, <1>1, QuietInv DEF ReceiveDeleted, tableVars
<1>2. CASE PurgeRead
  BY <1>0, <1>2, QuietInv DEF PurgeRead, tableVars
<1>3. ASSUME NEW d \in Deployments, PurgeJobs(d) PROVE IInv'
  BY <1>0, <1>3, QuietInv DEF PurgeJobs, tableVars
<1>4. CASE PurgeRows
  <2>1. CASE UNCHANGED rows
    BY <1>0, <1>4, <2>1, QuietInv DEF PurgeRows, tableVars
  <2>2. CASE DropRows(purge.now)
    BY <1>0, <1>4, <2>2, RemoveInv DEF PurgeRows, tableVars
  <2>3. QED
    BY <1>4, <2>1, <2>2 DEF PurgeRows
<1>5. CASE PurgeConfigs
  <2>1. CASE UNCHANGED <<rows, configs>>
    BY <1>0, <1>5, <2>1, QuietInv DEF PurgeConfigs
  <2>2. CASE DropRows(ConfigsOf(purge.project)) /\ configs' = configs \ ConfigsOf(purge.project)
    BY <1>0, <1>5, <2>2, RemoveInv DEF PurgeConfigs
  <2>3. QED
    BY <1>5, <2>1, <2>2 DEF PurgeConfigs
<1>6. QED
  BY <1>1, <1>2, <1>3, <1>4, <1>5, ReceiveBulkCreatedInv, NamesExist DEF Consume

(* Retrying adds a goroutine for a config that exists.                      *)
LEMMA RetryInv ==
  ASSUME IInv, TypeOK', NEW d \in Deployments, NEW p \in Projects, Retry(d, p)
  PROVE  IInv'
<1>0. PICK version, seen, missed :
        \E c \in configs : NewDeployment(d, "retry", c, version, seen, missed)
  BY DEF Retry, Latest, ConfigsOf
<1>1. PICK c \in configs : NewDeployment(d, "retry", c, version, seen, missed)
  BY <1>0
<1>2. /\ pc[d] = "idle" /\ pc' = [pc EXCEPT ![d] = "saveBuilding"]
      /\ dep' = [dep EXCEPT ![d] = [kind |-> "retry", config |-> c,
                                    version |-> version, seen |-> seen, missed |-> missed]]
  BY <1>1 DEF NewDeployment, Goto
<1>3. /\ dep'[d].config = c /\ dep'[d].kind = "retry" /\ pc'[d] = "saveBuilding"
      /\ \A x \in Deployments \ {d} : dep'[x] = dep[x] /\ pc'[x] = pc[x]
  BY <1>2 DEF IInv, TypeOK, GoroutinesOK
<1>4. UNCHANGED <<rows, said, configs, nextId, stops>>
  BY DEF Retry, commandVars
<1>5. rows[d] = None /\ said[d] = None
  BY <1>2 DEF IInv, NeverAhead, StoredAt, SaidAt
<1>6. NeverAhead'
  BY <1>3, <1>4, <1>5 DEF IInv, NeverAhead, StoredAt, SaidAt
<1>7. StopsAreLate'
  BY <1>2, <1>3, <1>4 DEF IInv, TypeOK, CommandsOK, StopReq, StopsAreLate
<1>8. RowHasConfig'
  BY <1>3, <1>4, <1>5 DEF IInv, RowHasConfig
<1>9. UniqueConfigs' /\ IdsAreUsed'
  BY <1>3, <1>4 DEF IInv, UniqueConfigs, IdsAreUsed
<1>10. OneDeployPerConfig'
  BY <1>3 DEF IInv, OneDeployPerConfig
<1>11. QED
  BY <1>6, <1>7, <1>8, <1>9, <1>10 DEF IInv

(* A stop request saves over a row that is running or stopped already, or   *)
(* puts back one that was deleted while its config was kept.                *)
LEMMA StopSaveInv ==
  ASSUME IInv, TypeOK', NEW r \in stops, StopSave(r)
  PROVE  IInv'
<1> DEFINE d == r.dep
<1>1. PICK o : Upsert(d, "stopped", o)
  BY DEF StopSave
<1>2. d \in Deployments /\ pc[d] \in {"sayRunning", "done"}
  BY DEF IInv, TypeOK, CommandsOK, StopReq, StopsAreLate
<1>3. UNCHANGED <<said, pc, configs, nextId, dep>> /\ stops' \subseteq stops
  BY DEF StopSave, tableVars
<1>4. /\ \/ rows'[d] = rows[d]
         \/ rows'[d] = "stopped" /\ dep[d].config \in configs
      /\ \A x \in Deployments \ {d} : rows'[x] = rows[x]
  <2>1. \/ rows' = rows
        \/ rows' = [rows EXCEPT ![d] = "stopped"] /\ dep[d].config \in configs
    BY <1>1 DEF Upsert
  <2>2. rows \in [Deployments -> Observed]
    BY DEF IInv, TypeOK, TablesOK
  <2>3. QED
    BY <1>2, <2>1, <2>2
<1>5. NeverAhead'
  <2>1. "stopped" \in StoredAt(pc[d])
    BY <1>2 DEF StoredAt, Observed, DeploymentStatus, None
  <2>2. QED
    BY <1>3, <1>4, <2>1 DEF IInv, NeverAhead
<1>6. StopsAreLate'
  <2> SUFFICES ASSUME NEW x \in stops'
               PROVE  /\ pc'[x.dep] \in {"sayRunning", "done"}
                      /\ rows'[x.dep] \in {None, "running", "stopped"}
    BY DEF StopsAreLate
  <2>1. x \in stops /\ x.dep \in Deployments
    BY <1>3 DEF IInv, TypeOK, CommandsOK, StopReq
  <2>2. QED
    BY <1>3, <1>4, <2>1 DEF IInv, StopsAreLate
<1>7. RowHasConfig'
  BY <1>3, <1>4 DEF IInv, RowHasConfig
<1>8. UniqueConfigs' /\ IdsAreUsed' /\ OneDeployPerConfig'
  BY <1>3 DEF IInv, UniqueConfigs, IdsAreUsed, OneDeployPerConfig
<1>9. QED
  BY <1>5, <1>6, <1>7, <1>8 DEF IInv

LEMMA InsertConfigInv ==
  ASSUME IInv, TypeOK', NEW x \in checked, InsertConfig(x)
  PROVE  IInv'
<1> DEFINE c == NewConfig(x.project, x.env, 0)
<1>1. UNCHANGED <<rows, said, pc, dep, stops>>
  BY DEF InsertConfig
<1>2. CASE UNCHANGED <<configs, nextId>>
  BY <1>1, <1>2, QuietInv
<1>3. CASE /\ NoConfigFor(x.project, x.env)
           /\ configs' = configs \cup {c} /\ nextId' = nextId + 1
  <2>1. c.id = nextId /\ c.project = x.project /\ c.env = x.env
    BY DEF NewConfig
  <2>2. UniqueConfigs'
    BY <1>3, <2>1 DEF IInv, UniqueConfigs, NoConfigFor, ConfigsOf
  <2>3. nextId \in Nat /\ \A y \in configs : y.id \in Nat
    BY DEF IInv, TypeOK, TablesOK, Config
  <2>4. \A d \in Deployments : dep[d].config.id \in Nat
    BY DEF IInv, TypeOK, GoroutinesOK, Fields, Config
  <2>5. \A y \in configs' : y.id < nextId'
    BY <1>3, <2>1, <2>3 DEF IInv, IdsAreUsed
  <2>6. \A d \in Deployments : dep'[d].config.id < nextId'
    BY <1>1, <1>3, <2>3, <2>4 DEF IInv, IdsAreUsed
  <2>7. QED
    BY <1>1, <1>3, <2>2, <2>5, <2>6
    DEF IInv, NeverAhead, StopsAreLate, RowHasConfig, IdsAreUsed, OneDeployPerConfig
<1>4. QED
  BY <1>2, <1>3 DEF InsertConfig

LEMMA ServeInv == IInv /\ Serve => IInv'
<1> SUFFICES ASSUME IInv, Serve PROVE IInv'
  OBVIOUS
<1>0. TypeOK'
  BY ServeType DEF IInv
<1>1. ASSUME NEW q \in Callers, NEW d \in Deployments, StopRead(q, d) PROVE IInv'
  BY <1>0, <1>1, QuietInv DEF StopRead, tableVars
<1>2. ASSUME NEW r \in stops, StopKill(r) PROVE IInv'
  <2>1. stops' \subseteq stops \cup {[r EXCEPT !.at = "save"]}
    BY <1>2 DEF StopKill
  <2>2. [r EXCEPT !.at = "save"].dep = r.dep
    BY DEF IInv, TypeOK, CommandsOK, StopReq
  <2>3. QED
    BY <1>0, <1>2, <2>1, <2>2, QuietInv DEF StopKill, tableVars
<1>3. ASSUME NEW q \in Callers, NEW p \in Projects, NEW e \in Envs, CheckConfig(q, p, e)
      PROVE  IInv'
  BY <1>0, <1>3, QuietInv DEF CheckConfig, tableVars
<1>4. QED
  BY <1>0, <1>1, <1>2, <1>3, RetryInv, StopSaveInv, InsertConfigInv DEF Serve

(* When memory is lost every goroutine counts as done.                      *)
LEMMA LoseMemoryInv ==
  ASSUME IInv, TypeOK', LoseMemory
  PROVE  IInv'
<1>1. /\ pc' = [d \in Deployments |-> IF pc[d] = "idle" THEN "idle" ELSE "done"]
      /\ stops' = {} /\ UNCHANGED <<rows, said, configs, nextId, dep>>
  BY DEF LoseMemory, tableVars
<1>2. NeverAhead'
  BY <1>1 DEF IInv, TypeOK, TablesOK, GoroutinesOK, Steps, NeverAhead, StoredAt, SaidAt,
              Observed, DeploymentStatus, None
<1>3. QED
  BY <1>1, <1>2 DEF IInv, StopsAreLate, RowHasConfig, UniqueConfigs, IdsAreUsed,
                    OneDeployPerConfig

LEMMA NextInv == IInv /\ [Next]_vars => IInv'
<1> SUFFICES ASSUME IInv, [Next]_vars PROVE IInv'
  OBVIOUS
<1>0. TypeOK'
  BY NextType DEF IInv
<1>1. CASE FinishBuild \/ SigTerm \/ Boot
  BY <1>0, <1>1, QuietInv DEF FinishBuild, SigTerm, Boot, tableVars, commandVars
<1>2. CASE Exit \/ Crash
  BY <1>0, <1>2, LoseMemoryInv DEF Exit, Crash
<1>3. CASE UNCHANGED vars
  BY <1>0, <1>3, QuietInv DEF vars
<1>4. QED
  BY <1>1, <1>2, <1>3, PipelineInv, ConsumeInv, ServeInv DEF Next

(* IInv is inductive, so it holds in every behaviour: for any number of     *)
(* deployments, projects and concurrent requests, whatever calls fail or    *)
(* are lost, and across crashes.                                            *)
THEOREM InvCorrect == Spec => []IInv
<1>1. Init => IInv
  BY InitInv
<1>2. IInv /\ [Next]_vars => IInv'
  BY NextInv
<1>3. QED
  BY <1>1, <1>2, PTL DEF Spec

(* secrets.bulk_created delivered again, or racing with POST /configs,      *)
(* never leaves two event-triggered deployments of one project and          *)
(* environment with a row.                                                  *)
THEOREM DeploysOnce == Spec => []DuplicateEventDeploysOnce
<1>1. IInv => DuplicateEventDeploysOnce
  <2> SUFFICES ASSUME IInv, NEW d1 \in Deployments, NEW d2 \in Deployments, d1 # d2,
                      dep[d1].kind = "deploy", dep[d2].kind = "deploy",
                      rows[d1] # None, rows[d2] # None,
                      dep[d1].config.project = dep[d2].config.project,
                      dep[d1].config.env = dep[d2].config.env
               PROVE  FALSE
    BY DEF DuplicateEventDeploysOnce
  <2>1. dep[d1].config = dep[d2].config
    BY DEF IInv, RowHasConfig, UniqueConfigs
  <2>2. pc[d1] # "idle" /\ pc[d2] # "idle"
    BY DEF IInv, NeverAhead, StoredAt, None
  <2>3. QED
    BY <2>1, <2>2 DEF IInv, OneDeployPerConfig
<1>2. QED
  BY <1>1, InvCorrect, PTL

-----------------------------------------------------------------------------
(* Refinement: every step is a step of DeploymentLifecycle or a stutter.    *)

(* What the status table reaches from the statuses a goroutine or a stop    *)
(* request may find stored or announced.                                    *)
LEMMA BeyondFacts ==
  /\ \A s \in {"deploying", "running", "failed"} : s \in Lifecycle!Beyond("building")
  /\ \A s \in {"running", "failed"} : s \in Lifecycle!Beyond("deploying")
  /\ "stopped" \in Lifecycle!Beyond("running")
<1>1. /\ Lifecycle!validTransitions["building"] = {"deploying", "failed"}
      /\ Lifecycle!validTransitions["deploying"] = {"running", "failed"}
      /\ Lifecycle!validTransitions["running"] = {"stopped", "failed"}
  BY DEF Lifecycle!validTransitions, Lifecycle!DeploymentStatus
<1>2. \A S : S \subseteq Lifecycle!Widen(S)
  BY DEF Lifecycle!Widen
<1>3. \A S : "deploying" \in S => "running" \in Lifecycle!Widen(S)
  BY <1>1 DEF Lifecycle!Widen, Lifecycle!validTransitions, Lifecycle!DeploymentStatus
<1>4. ASSUME NEW s PROVE \A t : t \in Lifecycle!validTransitions[s] => t \in Lifecycle!Beyond(s)
  BY <1>2 DEF Lifecycle!Beyond
<1>5. "running" \in Lifecycle!Beyond("building")
  <2>1. "running" \in Lifecycle!Widen(Lifecycle!validTransitions["building"])
    BY <1>1, <1>3
  <2>2. QED
    BY <1>2, <2>1 DEF Lifecycle!Beyond
<1>6. QED
  BY <1>1, <1>4, <1>5

LEMMA SaveStep ==
  ASSUME IInv, NEW d \in Deployments, NEW s \in {"building", "deploying", "running", "failed"},
         NEW next, NEW otherwise, Save(d, s, next, otherwise),
         \/ pc[d] = "saveBuilding" /\ s = "building"
         \/ pc[d] = "saveDeploying" /\ s = "deploying"
         \/ pc[d] = "saveRunning" /\ s = "running"
         \/ pc[d] = "saveFailed" /\ s = "failed"
  PROVE  [Lifecycle!Next]_(Lifecycle!lifecycleVars)
<1>1. rows' = rows \/ rows' = [rows EXCEPT ![d] = s]
  BY DEF Save, Upsert
<1>2. UNCHANGED said
  BY DEF Save
<1>3. CASE rows' = rows
  BY <1>2, <1>3 DEF Lifecycle!lifecycleVars
<1>4. CASE rows' = [rows EXCEPT ![d] = s]
  <2>1. rows[d] \in StoredAt(pc[d])
    BY DEF IInv, NeverAhead
  <2>2. rows[d] # None => s \in Lifecycle!Beyond(rows[d])
    BY <2>1, BeyondFacts DEF StoredAt
  <2>3. Lifecycle!Store(d, s)
    BY <1>2, <1>4, <2>2 DEF Lifecycle!Store, Lifecycle!None, None
  <2>4. QED
    BY <2>3 DEF Lifecycle!Next, Lifecycle!DeploymentStatus
<1>5. QED
  BY <1>1, <1>3, <1>4

LEMMA SayStep ==
  ASSUME IInv, NEW d \in Deployments, NEW s, UNCHANGED rows,
         said' \in {said, [said EXCEPT ![d] = s]},
         \/ pc[d] = "sayBuilding" /\ s = "building"
         \/ pc[d] = "sayDeploying" /\ s = "deploying"
         \/ pc[d] = "sayRunning" /\ s = "running"
         \/ pc[d] = "sayFailed" /\ s = "failed"
  PROVE  [Lifecycle!Next]_(Lifecycle!lifecycleVars)
<1>1. CASE said' = said
  BY <1>1 DEF Lifecycle!lifecycleVars
<1>2. CASE said' = [said EXCEPT ![d] = s]
  <2>1. said[d] \in SaidAt(pc[d])
    BY DEF IInv, NeverAhead
  <2>2. /\ said[d] \notin {"running", "failed"}
        /\ said[d] # None => s \in Lifecycle!Beyond(said[d])
    BY <2>1, BeyondFacts DEF SaidAt, None
  <2>3. Lifecycle!Announce(d, s)
    BY <1>2, <2>2 DEF Lifecycle!Announce, Lifecycle!None, None
  <2>4. QED
    BY <2>3 DEF Lifecycle!Next, Lifecycle!DeploymentStatus
<1>3. QED
  BY <1>1, <1>2

LEMMA PipelineStep ==
  ASSUME IInv, NEW d \in Deployments, Pipeline(d)
  PROVE  [Lifecycle!Next]_(Lifecycle!lifecycleVars)
<1>1. CASE SaveBuilding(d)
  BY <1>1, SaveStep DEF SaveBuilding
<1>2. CASE SaveDeploying(d)
  BY <1>2, SaveStep DEF SaveDeploying
<1>3. CASE SaveRunning(d)
  BY <1>3, SaveStep DEF SaveRunning
<1>4. CASE SaveFailed(d)
  BY <1>4, SaveStep DEF SaveFailed
<1>5. CASE SayBuilding(d)
  BY <1>5, SayStep DEF SayBuilding, Say, Publish
<1>6. CASE SayDeploying(d)
  BY <1>6, SayStep DEF SayDeploying, Say, Publish
<1>7. CASE SayRunning(d)
  BY <1>7, SayStep DEF SayRunning, Say, Publish
<1>8. CASE SayFailed(d)
  BY <1>8, SayStep DEF SayFailed, Say, Publish
<1>9. CASE SubmitBuild(d) \/ AwaitBuild(d) \/ SubmitApp(d)
  BY <1>9 DEF SubmitBuild, AwaitBuild, SubmitApp, Lifecycle!lifecycleVars
<1>10. QED
  BY <1>1, <1>2, <1>3, <1>4, <1>5, <1>6, <1>7, <1>8, <1>9 DEF Pipeline

LEMMA DropStep ==
  ASSUME NEW C, DropRows(C), UNCHANGED said
  PROVE  Lifecycle!Next
<1> DEFINE D == {d \in Deployments : dep[d].config \in C}
<1>1. Lifecycle!Remove(D)
  BY DEF Lifecycle!Remove, DropRows, Lifecycle!None, None
<1>2. QED
  BY <1>1 DEF Lifecycle!Next

LEMMA StopSaveStep ==
  ASSUME IInv, NEW r \in stops, StopSave(r)
  PROVE  [Lifecycle!Next]_(Lifecycle!lifecycleVars)
<1>1. r.dep \in Deployments /\ rows[r.dep] \in {None, "running", "stopped"}
  BY DEF IInv, TypeOK, CommandsOK, StopReq, StopsAreLate
<1>2. /\ \/ rows' = rows
         \/ rows' = [rows EXCEPT ![r.dep] = "stopped"]
      /\ UNCHANGED said
  BY DEF StopSave, Upsert
<1>3. CASE rows' = rows
  BY <1>2, <1>3 DEF Lifecycle!lifecycleVars
<1>4. CASE rows' = [rows EXCEPT ![r.dep] = "stopped"] /\ rows[r.dep] = "stopped"
  BY <1>2, <1>4 DEF Lifecycle!lifecycleVars, IInv, TypeOK, TablesOK
<1>5. CASE rows' = [rows EXCEPT ![r.dep] = "stopped"] /\ rows[r.dep] # "stopped"
  <2>1. Lifecycle!Store(r.dep, "stopped")
    BY <1>1, <1>2, <1>5, BeyondFacts DEF Lifecycle!Store, Lifecycle!None, None
  <2>2. QED
    BY <1>1, <2>1 DEF Lifecycle!Next, Lifecycle!DeploymentStatus
<1>6. QED
  BY <1>2, <1>3, <1>4, <1>5

LEMMA NextStep == IInv /\ [Next]_vars => [Lifecycle!Next]_(Lifecycle!lifecycleVars)
<1> SUFFICES ASSUME IInv, [Next]_vars
             PROVE  [Lifecycle!Next]_(Lifecycle!lifecycleVars)
  OBVIOUS
<1> USE DEF Lifecycle!lifecycleVars
<1>1. CASE Consume
  <2>1. CASE PurgeRows
    BY <2>1, DropStep DEF PurgeRows
  <2>2. CASE PurgeConfigs
    BY <2>2, DropStep DEF PurgeConfigs
  <2>3. ASSUME NEW p \in Projects, ReceiveDeleted(p) PROVE UNCHANGED <<rows, said>>
    BY <2>3 DEF ReceiveDeleted
  <2>4. ASSUME NEW p \in Projects, NEW e \in Envs, ReceiveBulkCreated(p, e)
        PROVE  UNCHANGED <<rows, said>>
    BY <2>4 DEF ReceiveBulkCreated
  <2>5. CASE PurgeRead
    BY <2>5 DEF PurgeRead
  <2>6. ASSUME NEW d \in Deployments, PurgeJobs(d) PROVE UNCHANGED <<rows, said>>
    BY <2>6 DEF PurgeJobs
  <2>7. QED
    BY <1>1, <2>1, <2>2, <2>3, <2>4, <2>5, <2>6, NamesExist DEF Consume
<1>2. CASE Serve
  <2>1. ASSUME NEW d \in Deployments, NEW p \in Projects, Retry(d, p)
        PROVE  UNCHANGED <<rows, said>>
    BY <2>1 DEF Retry
  <2>2. ASSUME NEW q \in Callers, NEW d \in Deployments, StopRead(q, d)
        PROVE  UNCHANGED <<rows, said>>
    BY <2>2 DEF StopRead
  <2>3. ASSUME NEW r \in stops, StopKill(r) PROVE UNCHANGED <<rows, said>>
    BY <2>3 DEF StopKill
  <2>4. ASSUME NEW q \in Callers, NEW p \in Projects, NEW e \in Envs, CheckConfig(q, p, e)
        PROVE  UNCHANGED <<rows, said>>
    BY <2>4 DEF CheckConfig
  <2>5. ASSUME NEW x \in checked, InsertConfig(x) PROVE UNCHANGED <<rows, said>>
    BY <2>5 DEF InsertConfig
  <2>6. QED
    BY <1>2, <2>1, <2>2, <2>3, <2>4, <2>5, StopSaveStep DEF Serve
<1>3. CASE FinishBuild \/ SigTerm \/ Exit \/ Crash \/ Boot
  BY <1>3 DEF FinishBuild, SigTerm, Exit, Crash, Boot, LoseMemory
<1>4. CASE UNCHANGED vars
  BY <1>4 DEF vars
<1>5. QED
  BY <1>1, <1>2, <1>3, <1>4, PipelineStep DEF Next

(* What an API client reads and project-service hears of every deployment   *)
(* follows DeploymentLifecycle, under every interleaving and every failure. *)
THEOREM Refines == Spec => ImplementsLifecycle
<1>1. Init => Lifecycle!Init
  BY DEF Init, Lifecycle!Init, Lifecycle!None, None
<1>2. IInv /\ [Next]_vars => [Lifecycle!Next]_(Lifecycle!lifecycleVars)
  BY NextStep
<1>3. QED
  BY <1>1, <1>2, InvCorrect, PTL DEF Spec, ImplementsLifecycle, Lifecycle!Spec

-----------------------------------------------------------------------------
(* JobsInv: the row, the events and the job of each deployment follow its   *)
(* goroutine, and only a stop request takes over from it.                   *)

(* A deployment that a step leaves alone, or only disturbs.                 *)
LEMMA JobFrame ==
  ASSUME NEW d \in Deployments, JobOf(d),
         rows'[d] = rows[d], said'[d] = said[d], pc'[d] = pc[d],
         dep'[d].kind = dep[d].kind,
         d \in disturbed => d \in disturbed',
         d \notin disturbed' => (d \in apps <=> d \in apps'),
         d \notin disturbed' =>
           \A r \in stops : r.dep = d /\ r.at = "save" =>
             \E x \in stops' : x.dep = d /\ x.at = "save"
  PROVE  JobOf(d)'
BY DEF JobOf, StoredBy

LEMMA InitJobs == Init => JobsInv
<1> SUFFICES ASSUME Init PROVE JobsInv
  OBVIOUS
<1>1. StopsHaveKilled
  BY DEF Init, StopsHaveKilled
<1>2. \A d \in Deployments : JobOf(d)
  BY DEF Init, JobOf, StoredBy, None
<1>3. QED
  BY <1>1, <1>2 DEF JobsInv

(* A save by the goroutine: the row then says s, or d counts as disturbed.  *)
LEMMA SaveJobs ==
  ASSUME IInv, JobsInv, NEW d \in Deployments, NEW s \in DeploymentStatus,
         NEW next \in Steps, NEW otherwise \in Steps,
         Save(d, s, next, otherwise), pc[d] \notin {"sayRunning", "done"},
         <<s, next>> \in {<<"building", "sayBuilding">>, <<"deploying", "sayDeploying">>,
                          <<"running", "sayRunning">>, <<"failed", "sayFailed">>},
         s = "running" <=> pc[d] = "saveRunning",
         dep[d].kind = "deploy" => otherwise # "sayRunning"
  PROVE  JobsInv'
<1> PICK o \in Outcome("db", Live(d)) :
      /\ Upsert(d, s, o)
      /\ Goto(d, IF Saved(d, o) THEN next ELSE otherwise)
      /\ Disturb(IF Saved(d, o) THEN {} ELSE {d})
      /\ UNCHANGED <<said, nomadVars, commandVars, tableVars, proc>>
  BY DEF Save
<1>0. /\ UNCHANGED <<said, apps, stops, dep>>
      /\ rows \in [Deployments -> Observed] /\ pc \in [Deployments -> Steps]
  BY DEF IInv, TypeOK, TablesOK, GoroutinesOK, nomadVars, commandVars, tableVars
<1>1. StopsHaveKilled'
  BY <1>0 DEF JobsInv, StopsHaveKilled
<1>2. ASSUME NEW x \in Deployments, x # d PROVE JobOf(x)'
  <2>1. rows'[x] = rows[x] /\ pc'[x] = pc[x] /\ (x \in disturbed <=> x \in disturbed')
    BY <1>0, <1>2 DEF Upsert, Goto, Disturb
  <2>2. QED
    BY <1>0, <1>2, <2>1, JobFrame DEF JobsInv
<1>3. JobOf(d) /\ said[d] # "running"
  BY <1>0 DEF JobsInv, IInv, NeverAhead, SaidAt, Steps, None
<1>4. JobOf(d)'
  <2>1. CASE Saved(d, o)
    <3>1. rows'[d] = s /\ pc'[d] = next /\ (d \in disturbed <=> d \in disturbed')
      BY <1>0, <2>1 DEF Saved, Upsert, Goto, Disturb
    <3>2. QED
      BY <1>0, <1>3, <3>1 DEF JobOf, StoredBy
  <2>2. CASE ~Saved(d, o)
    <3>1. pc'[d] = otherwise /\ d \in disturbed'
      BY <1>0, <2>2 DEF Goto, Disturb
    <3>2. QED
      BY <1>0, <1>3, <3>1 DEF JobOf
  <2>3. QED
    BY <2>1, <2>2
<1>5. QED
  BY <1>1, <1>2, <1>4 DEF JobsInv

(* A publication, whether or not it succeeds.                               *)
LEMMA SayJobs ==
  ASSUME IInv, JobsInv, NEW d \in Deployments, NEW s, NEW next \in Steps,
         Say(d, s, next),
         <<pc[d], s, next>> \in {<<"sayBuilding", "building", "submitBuild">>,
                                 <<"sayDeploying", "deploying", "submitApp">>,
                                 <<"sayRunning", "running", "done">>,
                                 <<"sayFailed", "failed", "done">>}
  PROVE  JobsInv'
<1>0. /\ UNCHANGED <<rows, apps, stops, dep>>
      /\ said' \in {said, [said EXCEPT ![d] = s]}
      /\ pc' = [pc EXCEPT ![d] = next]
      /\ disturbed \subseteq disturbed'
      /\ said \in [Deployments -> Observed] /\ pc \in [Deployments -> Steps]
  BY DEF IInv, TypeOK, TablesOK, GoroutinesOK, Say, Publish, Goto, Disturb,
         nomadVars, commandVars, tableVars
<1>1. StopsHaveKilled'
  BY <1>0 DEF JobsInv, StopsHaveKilled
<1>2. ASSUME NEW x \in Deployments, x # d PROVE JobOf(x)'
  BY <1>0, <1>2, JobFrame DEF JobsInv
<1>3. JobOf(d) /\ said[d] # "running"
  BY <1>0 DEF JobsInv, IInv, NeverAhead, SaidAt, None
<1>4. JobOf(d)'
  <2>1. pc'[d] = next /\ (said'[d] = said[d] \/ said'[d] = s)
    BY <1>0
  <2>2. QED
    BY <1>0, <1>3, <2>1 DEF JobOf, StoredBy
<1>5. QED
  BY <1>1, <1>2, <1>4 DEF JobsInv

(* The calls to Nomad, which change no table.                               *)
LEMMA SubmitJobs ==
  ASSUME IInv, JobsInv, NEW d \in Deployments,
         SubmitBuild(d) \/ AwaitBuild(d) \/ SubmitApp(d)
  PROVE  JobsInv'
<1>0. /\ UNCHANGED <<rows, said, stops, dep>>
      /\ disturbed \subseteq disturbed'
      /\ pc \in [Deployments -> Steps]
      /\ \A r \in stops : r.dep # d
      /\ apps' \subseteq apps \cup {d} /\ apps \subseteq apps'
      /\ \A x \in Deployments \ {d} : pc'[x] = pc[x]
  BY DEF IInv, TypeOK, GoroutinesOK, StopsAreLate, SubmitBuild, AwaitBuild, SubmitApp,
         Goto, Disturb, nomadVars, commandVars, tableVars
<1>1. StopsHaveKilled'
  BY <1>0 DEF JobsInv, StopsHaveKilled
<1>2. ASSUME NEW x \in Deployments, x # d PROVE JobOf(x)'
  BY <1>0, <1>2, JobFrame DEF JobsInv
<1>3. JobOf(d) /\ said[d] # "running"
  BY <1>0 DEF JobsInv, IInv, NeverAhead, SaidAt, None, SubmitBuild, AwaitBuild, SubmitApp
<1>4. JobOf(d)'
  <2>1. CASE SubmitBuild(d) \/ AwaitBuild(d)
    <3>1. /\ pc[d] \in {"submitBuild", "awaitBuild"}
          /\ pc'[d] \in {"awaitBuild", "saveDeploying", "saveFailed"}
          /\ UNCHANGED <<apps, disturbed>>
      BY <1>0, <2>1 DEF SubmitBuild, AwaitBuild, Goto, nomadVars
    <3>2. QED
      BY <1>0, <1>3, <3>1 DEF JobOf, StoredBy
  <2>2. CASE SubmitApp(d)
    <3>1. /\ pc[d] = "submitApp"
          /\ \/ pc'[d] = "saveRunning" /\ d \in apps'
             \/ pc'[d] = "saveFailed" /\ (apps' = apps \/ d \in disturbed')
      BY <1>0, <2>2 DEF SubmitApp, Goto, Disturb, Outcome
    <3>2. QED
      BY <1>0, <1>3, <3>1 DEF JobOf, StoredBy
  <2>3. QED
    BY <2>1, <2>2
<1>5. QED
  BY <1>1, <1>2, <1>4 DEF JobsInv

LEMMA PipelineJobs ==
  ASSUME IInv, JobsInv, NEW d \in Deployments, Pipeline(d)
  PROVE  JobsInv'
<1> USE DEF Steps, DeploymentStatus
<1>1. CASE SaveBuilding(d)
  BY <1>1, SaveJobs DEF SaveBuilding
<1>2. CASE SaveDeploying(d)
  BY <1>2, SaveJobs DEF SaveDeploying
<1>3. CASE SaveRunning(d)
  BY <1>3, SaveJobs DEF SaveRunning
<1>4. CASE SaveFailed(d)
  BY <1>4, SaveJobs DEF SaveFailed
<1>5. CASE SayBuilding(d)
  BY <1>5, SayJobs DEF SayBuilding
<1>6. CASE SayDeploying(d)
  BY <1>6, SayJobs DEF SayDeploying
<1>7. CASE SayRunning(d)
  BY <1>7, SayJobs DEF SayRunning
<1>8. CASE SayFailed(d)
  BY <1>8, SayJobs DEF SayFailed
<1>9. QED
  BY <1>1, <1>2, <1>3, <1>4, <1>5, <1>6, <1>7, <1>8, SubmitJobs DEF Pipeline

(* A step that changes rows, events, goroutines and jobs of no deployment   *)
(* but disturbed ones, and no stop request.                                 *)
LEMMA QuietJobs ==
  ASSUME JobsInv, UNCHANGED <<said, stops>>, apps' \subseteq apps,
         disturbed \subseteq disturbed',
         \A d \in Deployments : dep'[d].kind = dep[d].kind /\ pc'[d] = pc[d],
         \A d \in Deployments : rows'[d] \in {rows[d], None},
         \A d \in Deployments \ disturbed' :
           rows'[d] = rows[d] /\ (d \in apps => d \in apps')
  PROVE  JobsInv'
<1>1. StopsHaveKilled'
  BY DEF JobsInv, StopsHaveKilled
<1>2. ASSUME NEW d \in Deployments PROVE JobOf(d)'
  <2>1. CASE d \in disturbed'
    BY <2>1 DEF JobsInv, JobOf
  <2>2. CASE d \notin disturbed'
    <3>1. rows'[d] = rows[d] /\ (d \in apps <=> d \in apps')
      BY <2>2
    <3>2. QED
      BY <3>1, JobFrame DEF JobsInv
  <2>3. QED
    BY <2>1, <2>2
<1>3. QED
  BY <1>1, <1>2 DEF JobsInv

(* An identity is taken for a new deployment.                               *)
LEMMA NewJobs ==
  ASSUME IInv, JobsInv, NEW d \in Deployments, NEW kind, NEW c, NEW version, NEW seen,
         NEW missed, NewDeployment(d, kind, c, version, seen, missed),
         UNCHANGED <<rows, said, apps, stops, disturbed>>
  PROVE  JobsInv'
<1>1. /\ pc[d] = "idle" /\ pc'[d] = "saveBuilding"
      /\ \A x \in Deployments \ {d} : dep'[x] = dep[x] /\ pc'[x] = pc[x]
  BY DEF IInv, TypeOK, GoroutinesOK, NewDeployment, Goto
<1>2. rows[d] = None /\ said[d] = None /\ JobOf(d)
  BY <1>1 DEF IInv, NeverAhead, StoredAt, SaidAt, JobsInv
<1>3. JobOf(d)'
  BY <1>1, <1>2 DEF JobOf, StoredBy, None
<1>4. ASSUME NEW x \in Deployments, x # d PROVE JobOf(x)'
  BY <1>1, <1>4, JobFrame DEF JobsInv
<1>5. StopsHaveKilled'
  BY DEF JobsInv, StopsHaveKilled
<1>6. QED
  BY <1>3, <1>4, <1>5 DEF JobsInv

LEMMA ConsumeJobs == IInv /\ JobsInv /\ Consume => JobsInv'
<1> SUFFICES ASSUME IInv, JobsInv, Consume PROVE JobsInv'
  OBVIOUS
<1>1. ASSUME NEW p \in Projects, ReceiveDeleted(p) PROVE JobsInv'
  BY <1>1, QuietJobs DEF ReceiveDeleted, tableVars, nomadVars
<1>2. ASSUME NEW p \in Projects, NEW e \in Envs, ReceiveBulkCreated(p, e) PROVE JobsInv'
  <2>1. UNCHANGED <<rows, said, apps, stops, disturbed>>
    BY <1>2 DEF ReceiveBulkCreated, nomadVars, commandVars
  <2>2. CASE UNCHANGED <<pc, dep>>
    BY <2>1, <2>2, QuietJobs
  <2>3. QED
    BY <1>2, <2>1, <2>2, NewJobs DEF ReceiveBulkCreated
<1>3. CASE PurgeRead
  BY <1>3, QuietJobs DEF PurgeRead, tableVars, nomadVars
<1>4. ASSUME NEW d \in Deployments, PurgeJobs(d) PROVE JobsInv'
  <2>1. /\ apps' \subseteq apps /\ apps \ {d} \subseteq apps'
        /\ disturbed' = disturbed \cup {d}
        /\ UNCHANGED <<rows, said, pc, dep, stops>>
    BY <1>4 DEF PurgeJobs, Disturb, tableVars
  <2>2. QED
    BY <2>1, QuietJobs
\* An idle deployment has no row to lose; every other one is disturbed.
<1>5. ASSUME NEW C, DropRows(C) \/ UNCHANGED rows, Disturb(Owned(C)),
             UNCHANGED <<said, pc, dep, apps, stops>>
      PROVE  JobsInv'
  <2>1. \A d \in Deployments : rows'[d] \in {rows[d], None}
    BY <1>5 DEF DropRows
  <2>2. ASSUME NEW d \in Deployments, d \notin disturbed' PROVE rows'[d] = rows[d]
    <3>1. pc[d] = "idle" \/ dep[d].config \notin C
      BY <1>5, <2>2 DEF Disturb, Owned
    <3>2. pc[d] = "idle" => rows[d] = None
      BY DEF IInv, NeverAhead, StoredAt
    <3>3. QED
      BY <1>5, <3>1, <3>2 DEF DropRows
  <2>3. QED
    BY <1>5, <2>1, <2>2, QuietJobs DEF Disturb
<1>6. CASE PurgeRows
  BY <1>5, <1>6 DEF PurgeRows, tableVars, nomadVars
<1>7. CASE PurgeConfigs
  BY <1>5, <1>7 DEF PurgeConfigs, nomadVars
<1>8. QED
  BY <1>1, <1>2, <1>3, <1>4, <1>6, <1>7, NamesExist DEF Consume

(* StopRead, StopKill and StopSave of one request.                          *)
LEMMA StopJobs ==
  ASSUME IInv, JobsInv,
         \/ \E q \in Callers, d \in Deployments : StopRead(q, d)
         \/ \E r \in stops : StopKill(r) \/ StopSave(r)
  PROVE  JobsInv'
<1>1. ASSUME NEW q \in Callers, NEW d \in Deployments, StopRead(q, d) PROVE JobsInv'
  <2>1. /\ UNCHANGED <<rows, said, pc, dep, apps, disturbed>>
        /\ stops' = stops \cup {[by |-> q, dep |-> d, at |-> "kill"]}
    BY <1>1 DEF StopRead, tableVars, nomadVars
  <2>2. StopsHaveKilled'
    BY <2>1 DEF JobsInv, StopsHaveKilled
  <2>3. \A x \in Deployments : JobOf(x)'
    BY <2>1, JobFrame DEF JobsInv
  <2>4. QED
    BY <2>2, <2>3 DEF JobsInv
<1>2. ASSUME NEW r \in stops, StopKill(r) PROVE JobsInv'
  <2> DEFINE after == [r EXCEPT !.at = "save"]
  <2>0. r.at = "kill" /\ after.dep = r.dep /\ after.at = "save" /\ r.dep \in Deployments
    BY <1>2 DEF IInv, TypeOK, CommandsOK, StopReq, StopKill
  <2> HIDE DEF after
  <2>1. /\ UNCHANGED <<rows, said, pc, dep>>
        /\ \/ apps' \subseteq apps /\ r.dep \notin apps' /\ apps \ {r.dep} \subseteq apps'
              /\ \/ stops' = (stops \ {r}) \cup {after} /\ disturbed' = disturbed
                 \/ stops' = stops \ {r} /\ disturbed' = disturbed \cup {r.dep}
           \/ apps' = apps /\ stops' = stops \ {r} /\ disturbed' = disturbed
    BY <1>2 DEF StopKill, Outcome, Disturb, tableVars, after
  <2>2. StopsHaveKilled'
    BY <2>0, <2>1 DEF JobsInv, StopsHaveKilled
  <2>3. ASSUME NEW x \in Deployments PROVE JobOf(x)'
    <3>1. CASE x # r.dep
      BY <2>0, <2>1, <3>1, JobFrame DEF JobsInv
    <3>2. CASE x = r.dep
      <4>1. JobOf(x) /\ pc[x] \in {"sayRunning", "done"}
        BY <3>2 DEF JobsInv, IInv, StopsAreLate
      <4>2. QED
        BY <2>0, <2>1, <3>2, <4>1 DEF JobOf, StoredBy
    <3>3. QED
      BY <3>1, <3>2
  <2>4. QED
    BY <2>2, <2>3 DEF JobsInv
<1>3. ASSUME NEW r \in stops, StopSave(r) PROVE JobsInv'
  <2>0. r.at = "save" /\ r.dep \in Deployments /\ pc[r.dep] \in {"sayRunning", "done"}
        /\ rows \in [Deployments -> Observed] /\ r.dep \notin apps
    BY <1>3 DEF IInv, TypeOK, TablesOK, CommandsOK, StopReq, StopSave, StopsAreLate,
                JobsInv, StopsHaveKilled
  <2>1. /\ UNCHANGED <<said, pc, dep, apps>> /\ stops' = stops \ {r}
        /\ disturbed \subseteq disturbed'
        /\ \A x \in Deployments \ {r.dep} : rows'[x] = rows[x]
        /\ \/ rows'[r.dep] = "stopped"
           \/ rows'[r.dep] = rows[r.dep] /\ r.dep \in disturbed'
    BY <1>3, <2>0 DEF StopSave, Upsert, Saved, Disturb, tableVars, nomadVars
  <2>2. StopsHaveKilled'
    BY <2>1 DEF JobsInv, StopsHaveKilled
  <2>3. ASSUME NEW x \in Deployments PROVE JobOf(x)'
    <3>1. CASE x # r.dep
      BY <2>1, <3>1, JobFrame DEF JobsInv
    <3>2. CASE x = r.dep
      BY <2>0, <2>1, <3>2 DEF JobsInv, JobOf, StoredBy
    <3>3. QED
      BY <3>1, <3>2
  <2>4. QED
    BY <2>2, <2>3 DEF JobsInv
<1>4. QED
  BY <1>1, <1>2, <1>3

LEMMA ServeJobs == IInv /\ JobsInv /\ Serve => JobsInv'
<1> SUFFICES ASSUME IInv, JobsInv, Serve PROVE JobsInv'
  OBVIOUS
<1>1. ASSUME NEW d \in Deployments, NEW p \in Projects, Retry(d, p) PROVE JobsInv'
  <2>1. UNCHANGED <<rows, said, apps, stops, disturbed>>
    BY <1>1 DEF Retry, nomadVars, commandVars
  <2>2. QED
    BY <1>1, <2>1, NewJobs DEF Retry
<1>2. ASSUME NEW q \in Callers, NEW p \in Projects, NEW e \in Envs, CheckConfig(q, p, e)
      PROVE  JobsInv'
  BY <1>2, QuietJobs DEF CheckConfig, tableVars, nomadVars
<1>3. ASSUME NEW x \in checked, InsertConfig(x) PROVE JobsInv'
  BY <1>3, QuietJobs DEF InsertConfig, nomadVars
<1>4. QED
  BY <1>1, <1>2, <1>3, StopJobs DEF Serve

(* The end of the process cuts off what was under way.                      *)
LEMMA LoseMemoryJobs ==
  ASSUME IInv, JobsInv, LoseMemory, Disturb(CutOff)
  PROVE  JobsInv'
<1>1. /\ pc' = [d \in Deployments |-> IF pc[d] = "idle" THEN "idle" ELSE "done"]
      /\ stops' = {} /\ UNCHANGED <<rows, said, dep, apps>>
      /\ disturbed' = disturbed \cup CutOff
  BY DEF LoseMemory, Disturb, tableVars, nomadVars
<1>2. ASSUME NEW d \in Deployments PROVE JobOf(d)'
  <2>0. JobOf(d) /\ (said[d] = "running" => pc[d] = "done") /\ (pc[d] = "idle" => rows[d] = None)
    BY DEF JobsInv, IInv, TypeOK, GoroutinesOK, Steps, NeverAhead, StoredAt, SaidAt, None
  <2>1. CASE d \in disturbed'
    BY <1>1, <2>0, <2>1 DEF JobOf
  <2>2. CASE d \notin disturbed'
    <3>1. pc[d] \in {"idle", "done"} /\ \A r \in stops : r.dep # d
      BY <1>1, <2>2 DEF CutOff
    <3>2. QED
      BY <1>1, <2>0, <3>1 DEF JobOf, StoredBy
  <2>3. QED
    BY <2>1, <2>2
<1>3. StopsHaveKilled'
  BY <1>1 DEF StopsHaveKilled
<1>4. QED
  BY <1>2, <1>3 DEF JobsInv

LEMMA NextJobs == IInv /\ JobsInv /\ [Next]_vars => JobsInv'
<1> SUFFICES ASSUME IInv, JobsInv, [Next]_vars PROVE JobsInv'
  OBVIOUS
<1>1. CASE FinishBuild \/ SigTerm \/ Boot
  BY <1>1, QuietJobs DEF FinishBuild, SigTerm, Boot, tableVars, commandVars, nomadVars
<1>2. CASE Exit \/ Crash
  BY <1>2, LoseMemoryJobs DEF Exit, Crash
<1>3. CASE UNCHANGED vars
  BY <1>3, QuietJobs DEF vars
<1>4. QED
  BY <1>1, <1>2, <1>3, PipelineJobs, ConsumeJobs, ServeJobs DEF Next

(* Row, event, goroutine and job of every deployment agree in every         *)
(* behaviour, whatever calls fail, are lost or are cut short.               *)
THEOREM JobsCorrect == Spec => []JobsInv
BY InvCorrect, InitJobs, NextJobs, PTL DEF Spec

(* A deployment whose calls all arrived and whose project was not deleted   *)
(* has in the table what its goroutine, or a stop request, did last.        *)
THEOREM RowsTrackGoroutines == Spec => []RowTracksGoroutine
<1>1. JobsInv => RowTracksGoroutine
  BY DEF JobsInv, JobOf, RowTracksGoroutine
<1>2. QED
  BY <1>1, JobsCorrect, PTL

(* For such a deployment no app job leaks in Nomad and none is missing.     *)
THEOREM NoJobLeaks == Spec => []JobsMatchRows
<1>1. JobsInv => JobsMatchRows
  BY DEF JobsInv, JobOf, JobsMatchRows, StoredBy
<1>2. QED
  BY <1>1, JobsCorrect, PTL

(* deployment.running of a first deployment is announced only on a row that *)
(* says so, and stays true until the deployment is stopped or deleted.      *)
THEOREM RunningStored == Spec => []RunningIsStored
<1>1. JobsInv => RunningIsStored
  BY DEF JobsInv, JobOf, RunningIsStored
<1>2. QED
  BY <1>1, JobsCorrect, PTL

-----------------------------------------------------------------------------
(* CountsInv: what a retry counts, or misses, can only grow, unless a        *)
(* deletion takes rows away.                                                *)

LEMMA InitCounts == Init => CountsInv
BY DEF Init, CountsInv, CountedAreSaved, VersionCounts, KnownStayKnown

(* Every step but the creation of a deployment leaves what was counted      *)
(* alone.                                                                   *)
LEMMA CountsFrame ==
  ASSUME CountsInv, UNCHANGED dep, disturbed \subseteq disturbed',
         \A d \in Deployments :
           /\ pc'[d] = "idle" <=> pc[d] = "idle"
           /\ pc[d] \notin {"idle", "saveBuilding"} => pc'[d] # "saveBuilding",
         \A d \in Deployments : dep[d].seen \cup dep[d].missed \subseteq Deployments
  PROVE  CountsInv'
<1>1. CountedAreSaved'
  BY DEF CountsInv, CountedAreSaved
<1>2. VersionCounts'
  BY DEF CountsInv, VersionCounts
<1>3. KnownStayKnown'
  BY DEF CountsInv, KnownStayKnown
<1>4. QED
  BY <1>1, <1>2, <1>3 DEF CountsInv

(* A new deployment that counts seen and misses missed: together they hold   *)
(* what those in seen knew of and what is still there.                      *)
LEMMA NewCounts ==
  ASSUME IInv, CountsInv, NEW d \in Deployments, NEW kind, NEW c,
         NEW seen \in SUBSET Deployments, NEW missed \in SUBSET Deployments,
         NewDeployment(d, kind, c, Cardinality(seen) + 1, seen, missed),
         UNCHANGED disturbed,
         seen \cap missed = {}, "db" \notin Faults => missed = {},
         \A x \in seen \cup missed : /\ pc[x] \notin {"idle", "saveBuilding"}
                                     /\ dep[x].config.project = c.project,
         \A x \in seen : dep[x].seen \cup dep[x].missed \subseteq seen \cup missed \cup disturbed
  PROVE  CountsInv'
<1>1. /\ pc[d] = "idle" /\ pc'[d] = "saveBuilding"
      /\ \A x \in Deployments \ {d} : dep'[x] = dep[x] /\ pc'[x] = pc[x]
      /\ dep'[d].config = c /\ dep'[d].seen = seen /\ dep'[d].missed = missed
      /\ dep'[d].version = Cardinality(seen) + 1
  BY DEF IInv, TypeOK, GoroutinesOK, NewDeployment, Goto
<1>2. d \notin seen \cup missed /\ \A x \in Deployments : d \notin dep[x].seen \cup dep[x].missed
  BY <1>1 DEF CountsInv, CountedAreSaved
<1>3. \A x \in Deployments : dep[x].seen \cup dep[x].missed \subseteq Deployments
  BY DEF IInv, TypeOK, GoroutinesOK, Fields
<1>4. ASSUME NEW x \in Deployments, NEW y \in dep'[x].seen \cup dep'[x].missed
      PROVE  /\ pc'[y] \notin {"idle", "saveBuilding"}
             /\ dep'[y].config.project = dep'[x].config.project
             /\ y \in dep'[x].seen =>
                  dep'[y].seen \cup dep'[y].missed
                    \subseteq dep'[x].seen \cup dep'[x].missed \cup disturbed'
  <2>1. y \in Deployments \ {d}
    BY <1>1, <1>2, <1>3, <1>4
  <2>2. dep'[y] = dep[y] /\ pc'[y] = pc[y]
    BY <1>1, <2>1
  <2>3. CASE x = d
    BY <1>1, <1>4, <2>2, <2>3
  <2>4. CASE x # d
    BY <1>1, <1>4, <2>2, <2>4 DEF CountsInv, CountedAreSaved, KnownStayKnown
  <2>5. QED
    BY <2>3, <2>4
<1>5. CountedAreSaved' /\ KnownStayKnown'
  BY <1>4 DEF CountedAreSaved, KnownStayKnown
<1>6. VersionCounts'
  <2>1. ASSUME NEW x \in Deployments, x # d
        PROVE  /\ x \notin dep'[x].seen /\ dep'[x].seen \cap dep'[x].missed = {}
               /\ "db" \notin Faults => dep'[x].missed = {}
               /\ IF pc'[x] = "idle" THEN dep'[x].seen = {} /\ dep'[x].missed = {}
                                     ELSE dep'[x].version = Cardinality(dep'[x].seen) + 1
    BY <1>1, <2>1 DEF CountsInv, VersionCounts
  <2>2. /\ d \notin dep'[d].seen /\ dep'[d].seen \cap dep'[d].missed = {}
        /\ "db" \notin Faults => dep'[d].missed = {}
        /\ pc'[d] # "idle"
        /\ dep'[d].version = Cardinality(dep'[d].seen) + 1
    BY <1>1, <1>2
  <2>3. QED
    BY <2>1, <2>2 DEF VersionCounts
<1>7. QED
  BY <1>5, <1>6 DEF CountsInv

LEMMA PipelineCounts ==
  ASSUME IInv, CountsInv, NEW d \in Deployments, Pipeline(d)
  PROVE  CountsInv'
<1>1. /\ UNCHANGED dep /\ disturbed \subseteq disturbed'
      /\ pc[d] # "idle"
      /\ \E next \in Steps \ {"idle", "saveBuilding"} : Goto(d, next)
  BY DEF Pipeline, SaveBuilding, SayBuilding, SubmitBuild, AwaitBuild, SaveDeploying,
         SayDeploying, SubmitApp, SaveRunning, SayRunning, SaveFailed, SayFailed,
         Save, Say, Publish, Disturb, Goto, Steps, tableVars
<1>2. /\ \A x \in Deployments \ {d} : pc'[x] = pc[x]
      /\ pc'[d] \notin {"idle", "saveBuilding"}
  BY <1>1 DEF IInv, TypeOK, GoroutinesOK, Goto
<1>3. \A x \in Deployments : dep[x].seen \cup dep[x].missed \subseteq Deployments
  BY DEF IInv, TypeOK, GoroutinesOK, Fields
<1>4. QED
  BY <1>1, <1>2, <1>3, CountsFrame

(* The count of a retry: with what the query kept from it, it knows every    *)
(* row of the project, so also every row that the deployments it counts had *)
(* known of, unless it was deleted.                                         *)
LEMMA RetryCounts ==
  ASSUME IInv, JobsInv, CountsInv, NEW d \in Deployments, NEW p \in Projects, Retry(d, p)
  PROVE  CountsInv'
<1> DEFINE all == ProjectRows(p)
<1>1. PICK c \in Latest(p), seen \in Counted(p) :
        NewDeployment(d, "retry", c, Cardinality(seen) + 1, seen, all \ seen)
  BY DEF Retry
<1>2. UNCHANGED disturbed /\ c.project = p
  BY DEF Retry, Latest, ConfigsOf
<1>3. /\ all \subseteq Deployments /\ seen \subseteq all
      /\ "db" \notin Faults => all \ seen = {}
  BY DEF Counted, ProjectRows, RowsOf
<1>4. ASSUME NEW x \in all
      PROVE  /\ pc[x] \notin {"idle", "saveBuilding"}
             /\ dep[x].config.project = p
             /\ dep[x].seen \cup dep[x].missed \subseteq all \cup disturbed
  <2>1. x \in Deployments /\ rows[x] # None /\ dep[x].config \in ConfigsOf(p)
    BY <1>4 DEF ProjectRows, RowsOf
  <2>2. dep[x].config.project = p
    BY <2>1 DEF ConfigsOf
  <2>3. pc[x] \notin {"idle", "saveBuilding"}
    BY <2>1 DEF IInv, NeverAhead, StoredAt
  <2>4. ASSUME NEW y \in dep[x].seen \cup dep[x].missed, y \notin disturbed PROVE y \in all
    <3>1. y \in Deployments
      BY <2>1 DEF IInv, TypeOK, GoroutinesOK, Fields
    <3>2. pc[y] \notin {"idle", "saveBuilding"} /\ dep[y].config.project = p
      BY <2>1, <2>2 DEF CountsInv, CountedAreSaved
    <3>3. rows[y] # None
      BY <2>4, <3>1, <3>2 DEF JobsInv, JobOf, StoredBy, None, IInv, TypeOK, GoroutinesOK, Steps
    <3>4. dep[y].config \in ConfigsOf(p)
      BY <3>1, <3>2, <3>3 DEF IInv, RowHasConfig, ConfigsOf
    <3>5. QED
      BY <3>1, <3>3, <3>4 DEF ProjectRows, RowsOf
  <2>5. QED
    BY <2>2, <2>3, <2>4
<1>5. seen \in SUBSET Deployments /\ all \ seen \in SUBSET Deployments
  BY <1>3
<1>6. /\ seen \cap (all \ seen) = {}
      /\ \A x \in seen \cup (all \ seen) : /\ pc[x] \notin {"idle", "saveBuilding"}
                                           /\ dep[x].config.project = c.project
      /\ \A x \in seen :
           dep[x].seen \cup dep[x].missed \subseteq seen \cup (all \ seen) \cup disturbed
  BY <1>2, <1>3, <1>4
<1> HIDE DEF all
<1>7. QED
  BY <1>1, <1>2, <1>3, <1>5, <1>6, NewCounts

LEMMA NextCounts == IInv /\ JobsInv /\ CountsInv /\ [Next]_vars => CountsInv'
<1> SUFFICES ASSUME IInv, JobsInv, CountsInv, [Next]_vars PROVE CountsInv'
  OBVIOUS
<1>0. \A d \in Deployments : dep[d].seen \cup dep[d].missed \subseteq Deployments
  BY DEF IInv, TypeOK, GoroutinesOK, Fields
<1>1. CASE Consume
  <2>1. ASSUME NEW p \in Projects, NEW e \in Envs, ReceiveBulkCreated(p, e) PROVE CountsInv'
    <3>1. UNCHANGED disturbed
      BY <2>1 DEF ReceiveBulkCreated
    <3>2. ASSUME NEW d \in Deployments, NEW c, NewDeployment(d, "deploy", c, 1, {}, {})
          PROVE  CountsInv'
      <4>1. Cardinality({}) + 1 = 1
        BY FS_EmptySet
      <4>2. NewDeployment(d, "deploy", c, Cardinality({}) + 1, {}, {})
        BY <3>2, <4>1
      <4>3. QED
        BY <3>1, <4>2, NewCounts
    <3>3. CASE UNCHANGED <<pc, dep>>
      BY <1>0, <3>1, <3>3, CountsFrame
    <3>4. QED
      BY <2>1, <3>2, <3>3 DEF ReceiveBulkCreated
  <2>2. CASE \/ \E p \in Deletable : ReceiveDeleted(p)
             \/ PurgeRead \/ PurgeRows \/ PurgeConfigs
             \/ \E d \in Deployments : PurgeJobs(d)
    <3>1. UNCHANGED <<pc, dep>> /\ disturbed \subseteq disturbed'
      BY <2>2 DEF ReceiveDeleted, PurgeRead, PurgeRows, PurgeConfigs, PurgeJobs, Disturb,
                  tableVars
    <3>2. QED
      BY <1>0, <3>1, CountsFrame
  <2>3. QED
    BY <1>1, <2>1, <2>2 DEF Consume
<1>2. CASE Serve
  <2>1. CASE \/ \E q \in Callers, d \in Deployments : StopRead(q, d)
             \/ \E r \in stops : StopKill(r) \/ StopSave(r)
             \/ \E q \in Callers, p \in Projects, e \in Envs : CheckConfig(q, p, e)
             \/ \E x \in checked : InsertConfig(x)
    <3>1. UNCHANGED <<pc, dep>> /\ disturbed \subseteq disturbed'
      BY <2>1 DEF StopRead, StopKill, StopSave, CheckConfig, InsertConfig, Disturb, tableVars
    <3>2. QED
      BY <1>0, <3>1, CountsFrame
  <2>2. QED
    BY <1>2, <2>1, RetryCounts DEF Serve
<1>3. CASE FinishBuild \/ SigTerm \/ Boot \/ UNCHANGED vars
  BY <1>0, <1>3, CountsFrame DEF FinishBuild, SigTerm, Boot, tableVars, vars
<1>4. CASE Exit \/ Crash
  <2>1. /\ pc' = [d \in Deployments |-> IF pc[d] = "idle" THEN "idle" ELSE "done"]
        /\ UNCHANGED dep /\ disturbed \subseteq disturbed'
    BY <1>4 DEF Exit, Crash, LoseMemory, Disturb, tableVars
  <2>2. QED
    BY <1>0, <2>1, CountsFrame
<1>5. QED
  BY <1>1, <1>2, <1>3, <1>4, PipelineCounts DEF Next

THEOREM CountsCorrect == Spec => []CountsInv
BY InvCorrect, JobsCorrect, InitCounts, NextCounts, PTL DEF Spec

(* A retry gets a higher version, so another build job and image tag, than  *)
(* every deployment it counted, unless of what this one had counted some    *)
(* were deleted in between or were missed by a count cut short.             *)
THEOREM VersionsGrow == Spec => []RetryVersionsGrow
<1>1. IInv /\ CountsInv => RetryVersionsGrow
  <2> SUFFICES ASSUME IInv, CountsInv, NEW d1 \in Deployments, NEW d2 \in Deployments,
                      d1 \in dep[d2].seen,
                      dep[d1].seen \cap (disturbed \cup dep[d2].missed) = {}
               PROVE  dep[d1].version < dep[d2].version
    BY DEF RetryVersionsGrow
  <2> DEFINE S1 == dep[d1].seen
             S2 == dep[d2].seen
  <2>1. S1 \subseteq S2 /\ d1 \in S2 /\ d1 \notin S1
    BY DEF CountsInv, KnownStayKnown, VersionCounts
  <2>2. dep[d1].version = Cardinality(S1) + 1 /\ dep[d2].version = Cardinality(S2) + 1
    BY DEF CountsInv, CountedAreSaved, VersionCounts
  <2>3. IsFiniteSet(S2) /\ IsFiniteSet(S1)
    BY DeploymentsFinite, FS_Subset DEF IInv, TypeOK, GoroutinesOK, Fields
  <2>4. Cardinality(S1 \cup {d1}) = Cardinality(S1) + 1 /\ IsFiniteSet(S1 \cup {d1})
    BY <2>1, <2>3, FS_AddElement
  <2>5. S1 \cup {d1} \subseteq S2
    BY <2>1
  <2>6. Cardinality(S1) + 1 <= Cardinality(S2)
    BY <2>3, <2>4, <2>5, FS_Subset
  <2>7. Cardinality(S1) \in Nat /\ Cardinality(S2) \in Nat
    BY <2>3, FS_CardinalityType
  <2>8. QED
    BY <2>2, <2>6, <2>7
<1>2. QED
  BY <1>1, InvCorrect, CountsCorrect, PTL

-----------------------------------------------------------------------------
(* What the abstract specification promises, and hence the service.         *)

(* failed and stopped have no successor in validTransitions.                *)
LEMMA NothingBeyondOutcomes ==
  \A s \in {"failed", "stopped"} : Lifecycle!Beyond(s) = {}
<1>1. \A s \in {"failed", "stopped"} : Lifecycle!validTransitions[s] = {}
  BY DEF Lifecycle!validTransitions, Lifecycle!DeploymentStatus
<1>2. Lifecycle!Widen({}) = {}
  BY DEF Lifecycle!Widen
<1>3. QED
  BY <1>1, <1>2 DEF Lifecycle!Beyond

(* No copy that is saved late replaces failed or stopped.                   *)
THEOREM OutcomesAreFinal == Spec => TerminalIsFinal
<1>1. ASSUME IInv, [Lifecycle!Next]_(Lifecycle!lifecycleVars), NEW d \in Deployments,
             rows[d] \in {"failed", "stopped"}
      PROVE  rows'[d] \in {rows[d], None}
  <2>0. rows \in [Deployments -> Observed]
    BY <1>1 DEF IInv, TypeOK, TablesOK
  <2>1. ASSUME NEW x \in Deployments, NEW s, Lifecycle!Store(x, s) PROVE rows'[d] = rows[d]
    <3>1. x # d
      BY <1>1, <2>1, NothingBeyondOutcomes DEF Lifecycle!Store, Lifecycle!None
    <3>2. QED
      BY <2>0, <2>1, <3>1 DEF Lifecycle!Store
  <2>2. ASSUME NEW D, Lifecycle!Remove(D) PROVE rows'[d] \in {rows[d], None}
    BY <2>2 DEF Lifecycle!Remove, Lifecycle!None, None
  <2>3. QED
    BY <1>1, <2>1, <2>2 DEF Lifecycle!Next, Lifecycle!Announce, Lifecycle!lifecycleVars
<1>2. IInv /\ [Next]_vars =>
        [\A d \in Deployments :
           rows[d] \in {"failed", "stopped"} => rows'[d] \in {rows[d], Lifecycle!None}
        ]_(Lifecycle!lifecycleVars)
  BY <1>1, NextStep DEF Lifecycle!None, None
<1>3. QED
  BY <1>2, InvCorrect, PTL DEF Spec, TerminalIsFinal, Lifecycle!TerminalIsFinal

(* Nothing is announced after deployment.running or deployment.failed.      *)
THEOREM OneOutcome == Spec => OneOutcomeAnnounced
<1>1. ASSUME IInv, [Lifecycle!Next]_(Lifecycle!lifecycleVars), NEW d \in Deployments,
             said[d] \in {"running", "failed"}
      PROVE  said'[d] = said[d]
  <2>0. said \in [Deployments -> Observed]
    BY <1>1 DEF IInv, TypeOK, TablesOK
  <2>1. ASSUME NEW x \in Deployments, NEW s, Lifecycle!Announce(x, s) PROVE said'[d] = said[d]
    BY <1>1, <2>0, <2>1 DEF Lifecycle!Announce
  <2>2. QED
    BY <1>1, <2>1 DEF Lifecycle!Next, Lifecycle!Store, Lifecycle!Remove, Lifecycle!lifecycleVars
<1>2. IInv /\ [Next]_vars =>
        [\A d \in Deployments :
           said[d] \in {"running", "failed"} => said'[d] = said[d]
        ]_(Lifecycle!lifecycleVars)
  BY <1>1, NextStep
<1>3. QED
  BY <1>2, InvCorrect, PTL DEF Spec, OneOutcomeAnnounced, Lifecycle!OneOutcomeAnnounced

-----------------------------------------------------------------------------
(* What DeleteProjectCommand and StopCommand take away, and from whom.      *)

ProjectOf(d) == dep[d].config.project
Purging(p) == p \in Deletable /\ purge.at # "idle" /\ purge.project = p

\* The purge goes by the rows it has read, which belong to its project: the
\* fields it found them by do not change.
PurgeInv ==
  purge.at # "idle" =>
    /\ purge.project \in Deletable
    /\ \A c \in purge.todo \cup purge.now : c.project = purge.project
    /\ \A d \in purge.deps : pc[d] # "idle" /\ ProjectOf(d) = purge.project

(* Nothing is taken away but on behalf of its owner: a config or a row goes *)
(* while project.deleted of its own project is worked off, an app job also  *)
(* by a stop request for its own deployment, and a build is killed only for *)
(* its own project, whatever other projects, goroutines and requests do     *)
(* meanwhile and whatever fails.                                            *)
LossIsOwn ==
  /\ \A c \in configs \ configs' : Purging(c.project)
  /\ \A d \in Deployments : rows[d] # None /\ rows'[d] = None => Purging(ProjectOf(d))
  /\ \A d \in apps \ apps' :
       Purging(ProjectOf(d)) \/ \E r \in stops : r.dep = d /\ r.at = "kill"
  /\ \A b \in builds' : b.state = "killed" => b \in builds \/ Purging(b.id[1])

TakesOnlyItsOwn == [][LossIsOwn]_vars

\* A deployment keeps its fields once it has begun.
LEMMA BegunStays ==
  ASSUME IInv, [Next]_vars, NEW d \in Deployments, pc[d] # "idle"
  PROVE  pc'[d] # "idle" /\ dep'[d] = dep[d]
<1>0. pc \in [Deployments -> Steps] /\ dep \in [Deployments -> Fields]
  BY DEF IInv, TypeOK, GoroutinesOK
<1>1. ASSUME NEW x \in Deployments, Pipeline(x) PROVE pc'[d] # "idle" /\ dep'[d] = dep[d]
  <2>1. UNCHANGED dep /\ \E next \in Steps \ {"idle"} : Goto(x, next)
    BY <1>1 DEF Pipeline, SaveBuilding, SayBuilding, SubmitBuild, AwaitBuild, SaveDeploying,
           SayDeploying, SubmitApp, SaveRunning, SayRunning, SaveFailed, SayFailed,
           Save, Say, Goto, Steps, tableVars
  <2>2. QED
    BY <1>0, <2>1 DEF Goto
<1>2. ASSUME NEW x \in Deployments, NEW kind, NEW c, NEW version, NEW seen,
             NEW missed, NewDeployment(x, kind, c, version, seen, missed)
      PROVE  pc'[d] # "idle" /\ dep'[d] = dep[d]
  BY <1>0, <1>2 DEF NewDeployment, Goto
<1>3. CASE Consume
  BY <1>2, <1>3 DEF Consume, ReceiveDeleted, ReceiveBulkCreated, PurgeRead, PurgeRows,
                    PurgeConfigs, PurgeJobs, tableVars
<1>4. CASE Serve
  BY <1>2, <1>4 DEF Serve, Retry, StopRead, StopKill, StopSave, CheckConfig, InsertConfig,
                    tableVars
<1>5. CASE FinishBuild \/ SigTerm \/ Boot \/ UNCHANGED vars
  BY <1>5 DEF FinishBuild, SigTerm, Boot, tableVars, vars
<1>6. CASE Exit \/ Crash
  BY <1>6 DEF Exit, Crash, LoseMemory, tableVars
<1>7. QED
  BY <1>1, <1>3, <1>4, <1>5, <1>6 DEF Next

LEMMA NextPurge == IInv /\ PurgeInv /\ [Next]_vars => PurgeInv'
<1> SUFFICES ASSUME IInv, PurgeInv, [Next]_vars PROVE PurgeInv'
  OBVIOUS
<1>0. /\ purge \in PurgeState /\ \A d \in purge.deps : d \in Deployments
      /\ \A d \in Deployments :
           pc[d] # "idle" => pc'[d] # "idle" /\ ProjectOf(d)' = ProjectOf(d)
  BY BegunStays DEF IInv, TypeOK, CommandsOK, PurgeState, ProjectOf
<1>1. CASE UNCHANGED purge \/ purge' = Idle
  BY <1>0, <1>1 DEF PurgeInv, Idle
<1>2. ASSUME NEW p \in Deletable, ReceiveDeleted(p) PROVE PurgeInv'
  BY <1>2 DEF ReceiveDeleted, PurgeInv, Idle, ConfigsOf
<1>3. CASE PurgeRead
  <2>1. PICK c \in purge.todo :
          \/ purge' = [purge EXCEPT !.at = "jobs", !.now = {c}, !.deps = RowsOf(c), !.todo = @ \ {c}]
          \/ purge' = [purge EXCEPT !.todo = @ \ {c}]
    BY <1>3 DEF PurgeRead
  <2>2. purge.at = "each" /\ UNCHANGED <<pc, dep>> /\ c.project = purge.project
    BY <1>3 DEF PurgeRead, PurgeInv, tableVars
  <2>3. \A d \in RowsOf(c) : pc[d] # "idle" /\ ProjectOf(d) = purge.project
    BY <2>2 DEF RowsOf, ProjectOf, IInv, NeverAhead, StoredAt
  <2>4. /\ purge'.project = purge.project
        /\ purge'.todo \cup purge'.now \subseteq purge.todo \cup purge.now \cup {c}
        /\ purge'.deps \subseteq purge.deps \cup RowsOf(c)
    BY <1>0, <2>1 DEF PurgeState
  <2>5. \A d : ProjectOf(d)' = ProjectOf(d)
    BY <2>2 DEF ProjectOf
  <2>6. QED
    BY <2>2, <2>3, <2>4, <2>5 DEF PurgeInv
<1>4. ASSUME NEW d \in Deployments, PurgeJobs(d) PROVE PurgeInv'
  BY <1>0, <1>4 DEF PurgeJobs, PurgeInv, PurgeState
<1>5. CASE PurgeRows
  BY <1>0, <1>5 DEF PurgeRows, PurgeInv, PurgeState
<1>6. UNCHANGED purge \/ purge' = Idle \/ PurgeRead \/ PurgeRows
        \/ (\E d \in Deployments : PurgeJobs(d)) \/ \E p \in Deletable : ReceiveDeleted(p)
  <2>1. ASSUME NEW d \in Deployments, Pipeline(d) PROVE UNCHANGED purge
    BY <2>1 DEF Pipeline, SaveBuilding, SayBuilding, SubmitBuild, AwaitBuild, SaveDeploying,
           SayDeploying, SubmitApp, SaveRunning, SayRunning, SaveFailed, SayFailed,
           Save, Say, commandVars
  <2>2. QED
    BY <2>1 DEF Next, Consume, Serve, ReceiveBulkCreated, PurgeConfigs, Retry, StopRead, StopKill,
       StopSave, CheckConfig, InsertConfig, FinishBuild, SigTerm, Exit, Crash, LoseMemory, Boot,
       commandVars, vars
<1>7. QED
  BY <1>1, <1>2, <1>3, <1>4, <1>5, <1>6

LEMMA PurgeCorrect == Spec => []PurgeInv
<1>1. Init => PurgeInv
  BY DEF Init, PurgeInv, Idle
<1>2. QED
  BY <1>1, NextPurge, InvCorrect, PTL DEF Spec

LEMMA NextLoss == IInv /\ PurgeInv /\ [Next]_vars => LossIsOwn
<1> SUFFICES ASSUME IInv, PurgeInv, [Next]_vars PROVE LossIsOwn
  OBVIOUS
<1> USE DEF LossIsOwn
<1>0. \A d \in Deployments : \A s : s # None =>
        ([rows EXCEPT ![d] = s])[d] # None
        /\ \A x \in Deployments \ {d} : ([rows EXCEPT ![d] = s])[x] = rows[x]
  BY DEF IInv, TypeOK, TablesOK
<1>1. ASSUME NEW d \in Deployments, NEW s, s # None, NEW o, Upsert(d, s, o),
             UNCHANGED <<configs, apps, builds>>
      PROVE  LossIsOwn
  BY <1>0, <1>1 DEF Upsert
<1>2. ASSUME NEW d \in Deployments, Pipeline(d) PROVE LossIsOwn
  <2>1. ASSUME NEW s, s # None, NEW next, NEW otherwise, Save(d, s, next, otherwise)
        PROVE  LossIsOwn
    BY <1>1, <2>1 DEF Save, nomadVars, tableVars
  <2>2. CASE SubmitBuild(d)
    BY <2>2 DEF SubmitBuild, RegisterBuild, tableVars
  <2>3. CASE \/ SaveBuilding(d) \/ SaveDeploying(d) \/ SaveRunning(d) \/ SaveFailed(d)
    BY <2>1, <2>3 DEF SaveBuilding, SaveDeploying, SaveRunning, SaveFailed, None
  <2>4. CASE \/ SayBuilding(d) \/ AwaitBuild(d) \/ SayDeploying(d) \/ SubmitApp(d)
             \/ SayRunning(d) \/ SayFailed(d)
    BY <2>4 DEF SayBuilding, AwaitBuild, SayDeploying, SubmitApp, SayRunning, SayFailed, Say,
                nomadVars, tableVars
  <2>5. QED
    BY <1>2, <2>2, <2>3, <2>4 DEF Pipeline
<1>3. CASE Serve
  <2>1. ASSUME NEW r \in stops, StopSave(r) PROVE LossIsOwn
    <3>1. r.dep \in Deployments
      BY DEF IInv, TypeOK, CommandsOK, StopReq
    <3>2. QED
      BY <1>1, <2>1, <3>1 DEF StopSave, nomadVars, tableVars, None
  <2>2. ASSUME NEW r \in stops, StopKill(r) PROVE LossIsOwn
    BY <2>2 DEF StopKill, tableVars
  <2>3. CASE \/ \E d \in Deployments, p \in Projects : Retry(d, p)
             \/ \E q \in Callers, d \in Deployments : StopRead(q, d)
             \/ \E q \in Callers, p \in Projects, e \in Envs : CheckConfig(q, p, e)
             \/ \E x \in checked : InsertConfig(x)
    BY <2>3 DEF Retry, StopRead, CheckConfig, InsertConfig, nomadVars, tableVars
  <2>4. QED
    BY <1>3, <2>1, <2>2, <2>3 DEF Serve
<1>4. CASE Consume
  <2>1. ASSUME NEW d \in Deployments, PurgeJobs(d) PROVE LossIsOwn
    <3>1. Purging(ProjectOf(d)) /\ UNCHANGED <<rows, configs>>
      BY <2>1 DEF PurgeJobs, PurgeInv, Purging, tableVars
    <3>2. apps \ apps' \subseteq {d}
      BY <2>1 DEF PurgeJobs
    <3>3. ASSUME NEW b \in builds', b.state = "killed", b \notin builds
          PROVE  Purging(b.id[1])
      <4>1. PICK x \in builds : x.id = BuildOf(d) /\ b = [x EXCEPT !.state = "killed"]
        BY <2>1, <3>3 DEF PurgeJobs, Killed
      <4>2. b.id = <<ProjectOf(d), dep[d].version>>
        BY <4>1 DEF IInv, TypeOK, NomadOK, BuildOf, ProjectOf
      <4>3. QED
        BY <3>1, <4>2
    <3>4. QED
      BY <3>1, <3>2, <3>3
  <2>2. CASE PurgeRows
    BY <2>2 DEF PurgeRows, DropRows, PurgeInv, Purging, ProjectOf, nomadVars, tableVars
  <2>3. CASE PurgeConfigs
    BY <2>3 DEF PurgeConfigs, DropRows, ConfigsOf, PurgeInv, Purging, ProjectOf, nomadVars
  <2>4. CASE \/ \E p \in Deletable : ReceiveDeleted(p)
             \/ \E p \in Projects, e \in Envs : ReceiveBulkCreated(p, e)
             \/ PurgeRead
    BY <2>4 DEF ReceiveDeleted, ReceiveBulkCreated, PurgeRead, nomadVars, tableVars
  <2>5. QED
    BY <1>4, <2>1, <2>2, <2>3, <2>4 DEF Consume
<1>5. CASE FinishBuild
  <2>1. \A b \in builds' : b.state = "killed" => b \in builds
    BY <1>5 DEF FinishBuild, IInv, TypeOK, NomadOK
  <2>2. QED
    BY <1>5, <2>1 DEF FinishBuild, tableVars
<1>6. CASE SigTerm \/ Exit \/ Crash \/ Boot \/ UNCHANGED vars
  BY <1>6 DEF SigTerm, Exit, Crash, LoseMemory, Boot, nomadVars, tableVars, vars
<1>7. QED
  BY <1>2, <1>3, <1>4, <1>5, <1>6 DEF Next

(* For any number of projects: the deletion of one takes nothing from       *)
(* another, and an app job is stopped on nobody else's request.             *)
THEOREM OnlyOwnersLose == Spec => TakesOnlyItsOwn
<1>1. IInv /\ PurgeInv /\ [Next]_vars => [LossIsOwn]_vars
  BY NextLoss
<1>2. QED
  BY <1>1, InvCorrect, PurgeCorrect, PTL DEF Spec, TakesOnlyItsOwn

\* Without a fault only a deletion disturbs a deployment.
Undisturbed ==
  /\ proc = "up"
  /\ \A d \in Deployments :
       pc[d] # "idle" => dep[d].config \in configs \/ ProjectOf(d) \in Deletable
  /\ \A d \in disturbed : pc[d] # "idle" /\ ProjectOf(d) \in Deletable

LEMMA NextUndisturbed ==
  ASSUME Faults = {}, IInv, PurgeInv, Undisturbed, [Next]_vars
  PROVE  Undisturbed'
<1>0. /\ disturbed \subseteq Deployments /\ purge.deps \subseteq Deployments
      /\ dep \in [Deployments -> Fields] /\ pc \in [Deployments -> Steps]
      /\ \A r \in stops : r.dep \in Deployments
  BY DEF IInv, TypeOK, ProcessOK, CommandsOK, GoroutinesOK, PurgeState, StopReq
<1>1. proc' = "up"
  BY DEF Undisturbed, Next, Consume, Serve, Pipeline, SaveBuilding, SayBuilding, SubmitBuild,
     AwaitBuild, SaveDeploying, SayDeploying, SubmitApp, SaveRunning, SayRunning, SaveFailed,
     SayFailed, Save, Say, ReceiveDeleted, ReceiveBulkCreated, PurgeRead, PurgeRows, PurgeConfigs,
     PurgeJobs, Retry, StopRead, StopKill, StopSave, CheckConfig, InsertConfig, FinishBuild,
     SigTerm, Exit, Crash, Boot, vars
<1>2. ASSUME NEW d \in Deployments, pc'[d] # "idle"
      PROVE  dep'[d].config \in configs' \/ ProjectOf(d)' \in Deletable
  <2>1. CASE pc[d] # "idle"
    <3>1. dep'[d] = dep[d]
      BY <2>1, BegunStays
    <3>2. dep[d].config \in configs \ configs' => ProjectOf(d) \in Deletable
      BY NextLoss DEF LossIsOwn, Purging, ProjectOf
    <3>3. QED
      BY <2>1, <3>1, <3>2 DEF Undisturbed, ProjectOf
  <2>2. CASE pc[d] = "idle"
    <3>1. ASSUME NEW x \in Deployments, NEW kind, NEW c \in configs', NEW version, NEW seen,
                 NEW missed, NewDeployment(x, kind, c, version, seen, missed)
          PROVE  dep'[d].config \in configs'
      BY <1>0, <1>2, <2>2, <3>1 DEF NewDeployment, Goto
    <3>2. ASSUME NEW x \in Deployments, Pipeline(x) PROVE pc'[d] = "idle"
      BY <1>0, <2>2, <3>2 DEF Pipeline, SaveBuilding, SayBuilding, SubmitBuild, AwaitBuild,
         SaveDeploying, SayDeploying, SubmitApp, SaveRunning, SayRunning, SaveFailed, SayFailed,
         Save, Say, Goto
    <3>3. CASE Consume
      BY <1>2, <2>2, <3>1, <3>3 DEF Consume, ReceiveDeleted, ReceiveBulkCreated, PurgeRead,
         PurgeRows, PurgeConfigs, PurgeJobs
    <3>4. CASE Serve
      BY <1>2, <2>2, <3>1, <3>4 DEF Serve, Retry, Latest, ConfigsOf, StopRead, StopKill, StopSave,
         CheckConfig, InsertConfig
    <3>5. CASE FinishBuild \/ SigTerm \/ Exit \/ Crash \/ Boot \/ UNCHANGED vars
      BY <1>2, <2>2, <3>5 DEF FinishBuild, SigTerm, Exit, Crash, LoseMemory, Boot, vars
    <3>6. QED
      BY <1>2, <2>2, <3>2, <3>3, <3>4, <3>5 DEF Next
  <2>3. QED
    BY <2>1, <2>2
<1>3. ASSUME NEW d \in disturbed' \ disturbed PROVE pc[d] # "idle" /\ ProjectOf(d) \in Deletable
  <2>0. \A call, live : live => Outcome(call, live) = {"ok"}
    BY DEF Outcome
  <2>1. ASSUME NEW x \in Deployments, pc[x] # "idle", NEW o, o = "ok",
               Disturb(IF Saved(x, o) THEN {} ELSE {x})
        PROVE  pc[d] # "idle" /\ ProjectOf(d) \in Deletable
    BY <1>3, <2>1 DEF Disturb, Saved, Undisturbed
  <2>2. ASSUME NEW x \in Deployments, Pipeline(x)
        PROVE  pc[d] # "idle" /\ ProjectOf(d) \in Deletable
    <3>1. Live(x) /\ pc[x] # "idle"
      BY <2>2 DEF Undisturbed, Live, Pipeline, SaveBuilding, SayBuilding, SubmitBuild, AwaitBuild,
         SaveDeploying, SayDeploying, SubmitApp, SaveRunning, SayRunning, SaveFailed, SayFailed
    <3>2. ASSUME NEW s, NEW next, NEW otherwise, Save(x, s, next, otherwise)
          PROVE  pc[d] # "idle" /\ ProjectOf(d) \in Deletable
      BY <2>0, <2>1, <3>1, <3>2 DEF Save
    <3>3. ASSUME NEW s, NEW next, Say(x, s, next) PROVE FALSE
      BY <1>3, <2>0, <3>1, <3>3 DEF Say, Publish, Disturb
    <3>4. ASSUME SubmitApp(x) PROVE FALSE
      BY <1>3, <2>0, <3>1, <3>4 DEF SubmitApp, Disturb
    <3>5. ASSUME SubmitBuild(x) \/ AwaitBuild(x) PROVE FALSE
      BY <1>3, <3>5 DEF SubmitBuild, AwaitBuild
    <3>6. QED
      BY <2>2, <3>2, <3>3, <3>4, <3>5 DEF Pipeline, SaveBuilding, SayBuilding, SaveDeploying,
         SayDeploying, SaveRunning, SayRunning, SaveFailed, SayFailed
  <2>3. ASSUME NEW r \in stops, StopKill(r) \/ StopSave(r)
        PROVE  pc[d] # "idle" /\ ProjectOf(d) \in Deletable
    <3>1. CASE StopKill(r)
      BY <1>3, <2>0, <3>1 DEF StopKill, Disturb
    <3>2. CASE StopSave(r)
      <4>1. pc[r.dep] # "idle"
        BY DEF IInv, StopsAreLate
      <4>2. QED
        BY <1>0, <2>0, <2>1, <3>2, <4>1 DEF StopSave
    <3>3. QED
      BY <2>3, <3>1, <3>2
  <2>4. ASSUME NEW x \in Deployments, PurgeJobs(x)
        PROVE  pc[d] # "idle" /\ ProjectOf(d) \in Deletable
    BY <1>3, <2>4 DEF PurgeJobs, Disturb, PurgeInv
  <2>5. CASE PurgeRows \/ PurgeConfigs
    BY <1>3, <2>5 DEF PurgeRows, PurgeConfigs, Disturb, Owned, ConfigsOf, ProjectOf, PurgeInv
  <2>6. QED
    BY <1>3, <2>2, <2>3, <2>4, <2>5 DEF Next, Consume, Serve, ReceiveDeleted, ReceiveBulkCreated,
       PurgeRead, Retry, StopRead, CheckConfig, InsertConfig, FinishBuild, SigTerm, Exit, Crash,
       Boot, Undisturbed, vars
<1>4. ASSUME NEW d \in disturbed' PROVE pc'[d] # "idle" /\ ProjectOf(d)' \in Deletable
  <2>1. d \in Deployments
    BY <1>4, NextType DEF IInv, TypeOK, ProcessOK
  <2>2. pc[d] # "idle" /\ ProjectOf(d) \in Deletable
    BY <1>3, <1>4 DEF Undisturbed
  <2>3. QED
    BY <2>1, <2>2, BegunStays DEF ProjectOf
<1>5. QED
  BY <1>1, <1>2, <1>4 DEF Undisturbed

(* Every exception of RowTracksGoroutine and JobsMatchRows needs a lost     *)
(* call, the end of the process or a deletion: where none of the calls      *)
(* fails, the row of each deployment of a project that is not deleted says  *)
(* what its goroutine last did, and its app job is there exactly when the   *)
(* row says so, but for a stop request between StopJob and Save, however    *)
(* many projects, retries and stop requests interleave with it.             *)
THEOREM WithoutFaultsAllAgree ==
  ASSUME Faults = {}
  PROVE  Spec => [](\A d \in Deployments : ProjectOf(d) \notin Deletable =>
                      /\ rows[d] \in StoredBy(d)
                      /\ d \in apps => rows[d] \in {"deploying", "running"}
                      /\ rows[d] = "running" =>
                           d \in apps \/ \E r \in stops : r.dep = d /\ r.at = "save")
<1>1. Init => Undisturbed
  BY DEF Init, Undisturbed
<1>2. IInv /\ PurgeInv /\ Undisturbed /\ [Next]_vars => Undisturbed'
  BY NextUndisturbed
<1>3. Undisturbed /\ RowTracksGoroutine /\ JobsMatchRows
        => \A d \in Deployments : ProjectOf(d) \notin Deletable =>
             /\ rows[d] \in StoredBy(d)
             /\ d \in apps => rows[d] \in {"deploying", "running"}
             /\ rows[d] = "running" =>
                  d \in apps \/ \E r \in stops : r.dep = d /\ r.at = "save"
  BY DEF Undisturbed, RowTracksGoroutine, JobsMatchRows
<1>4. QED
  BY <1>1, <1>2, <1>3, InvCorrect, PurgeCorrect, RowsTrackGoroutines, NoJobLeaks, PTL DEF Spec
=============================================================================
