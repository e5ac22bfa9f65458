--------------------------- MODULE RolloutProofs ---------------------------
(***************************************************************************)
(* Proofs about Rollout, for every set of deployments, hosts and filters   *)
(* and every bound: type correctness, the inductive invariant, and that    *)
(* the task table and the posted commands implement PatchCampaign.         *)
(***************************************************************************)
EXTENDS Rollout, FiniteSetTheorems, TLAPS

USE DEF NoTag, Erased

\* The tables of a type-correct state; the short names of their ranges.
DEntry == DeploymentStatus \cup {"none", Erased}
TEntry == TaskStatus \cup {"none", Erased}
DWType == [pc : {"idle", "next", "get", "put"},
           todo : SUBSET [dep : Deployments, oversize : BOOLEAN],
           cur : SUBSET Deployments, seen : DeploymentStatus \cup {"none"}]
TWType == [pc : {"idle", "next", "get", "put", "spawn"},
           todo : SUBSET Tasks, cur : SUBSET Tasks, oneByOne : BOOLEAN]
SType == [pc : StrategyPc, hosts : SUBSET Hosts, found : Nat,
          at : SUBSET Hosts, seen : DeploymentStatus \cup {"none"}]

\* Every deployment id finds a set of hosts, and its size is a number.
LEMMA TargetsFinite ==
    \A d \in Deployments : /\ TargetHosts(d) \subseteq Hosts
                           /\ Cardinality(TargetHosts(d)) \in Nat
                           /\ Cardinality(TargetHosts(d)) = 0 => TargetHosts(d) = {}
<1> SUFFICES ASSUME NEW d \in Deployments
             PROVE /\ TargetHosts(d) \subseteq Hosts
                   /\ Cardinality(TargetHosts(d)) \in Nat
                   /\ Cardinality(TargetHosts(d)) = 0 => TargetHosts(d) = {}
    OBVIOUS
<1>1. TargetHosts(d) \subseteq Hosts
    BY DEF TargetHosts
<1>2. IsFiniteSet(TargetHosts(d))
    BY <1>1, IdsAssumption, FS_Subset
<1> QED BY <1>1, <1>2, FS_CardinalityType, FS_EmptySet

\* The values a process record is reset to have its type.
LEMMA ResetTypes == IdleDW \in DWType /\ IdleTW \in TWType
                    /\ NoStrategy \in SType /\ NewStrategy \in SType
BY DEF IdleDW, IdleTW, NoStrategy, NewStrategy, DWType, TWType, SType,
       StrategyPc, StrategyDbSteps

LEMMA InitType == Init => TypeOK
<1> SUFFICES ASSUME Init PROVE TypeOK
    OBVIOUS
<1>1. form \in [Deployments -> Forms]
    BY FormsAssumption DEF Init
<1>2. tdep \in [Tasks -> Deployments]
    BY IdsAssumption DEF Init
<1>3. /\ dw \in DWType /\ tw \in TWType
      /\ strategy \in [Tasks -> SType]
    BY ResetTypes DEF Init
<1> QED BY <1>1, <1>2, <1>3 DEF Init, TypeOK, DWType, TWType, SType

LEMMA RequestsType == TypeOK /\ Requests => TypeOK'
<1> SUFFICES ASSUME TypeOK, Requests PROVE TypeOK'
    OBVIOUS
<1> USE DEF dbVars, depVars, taskVars, procVars, agentVars, boundVars
<1>1. ASSUME NEW d \in Deployments, CreateDeployment(d) PROVE TypeOK'
    BY <1>1 DEF TypeOK, CreateDeployment, DeploymentStatus
<1>2. ASSUME NEW d \in Deployments, UpdateDeployment(d) PROVE TypeOK'
    BY <1>2 DEF TypeOK, UpdateDeployment
<1>3. ASSUME NEW d \in Deployments, DeleteDeployment(d) PROVE TypeOK'
    BY <1>3 DEF TypeOK, DeleteDeployment
<1>4. ASSUME NEW d \in Deployments, ScheduleTimePasses(d) PROVE TypeOK'
    BY <1>4 DEF TypeOK, ScheduleTimePasses
<1>5. ASSUME NEW h \in Hosts, CreateHost(h) PROVE TypeOK'
    BY <1>5 DEF TypeOK, CreateHost
<1>6. ASSUME NEW h \in Hosts, UpdateHost(h) PROVE TypeOK'
    BY <1>6 DEF TypeOK, UpdateHost
<1>7. ASSUME NEW h \in Hosts, DeleteHost(h) PROVE TypeOK'
    BY <1>7 DEF TypeOK, DeleteHost
<1> QED BY <1>1, <1>2, <1>3, <1>4, <1>5, <1>6, <1>7 DEF Requests

LEMMA DeploymentWorkerType == TypeOK /\ DeploymentWorker => TypeOK'
<1> SUFFICES ASSUME TypeOK, DeploymentWorker PROVE TypeOK'
    OBVIOUS
<1> USE DEF dbVars, depVars, taskVars, agentVars, boundVars
<1>0. dw \in DWType /\ DWContinue \in DWType
    BY DEF TypeOK, DWType, DWContinue, IdleDW
<1>1. CASE DWFire
    <2>1. {[dep |-> d, oversize |-> form[d].oversize] : d \in PendingOnce}
            \subseteq [dep : Deployments, oversize : BOOLEAN]
        BY FormsAssumption DEF TypeOK, PendingOnce, FormType
    <2>2. dw' \in DWType
        BY <1>0, <1>1, <2>1 DEF DWFire, DWType
    <2> QED BY <1>1, <2>2 DEF TypeOK, DWFire, DWType
<1>2. CASE DWCreateTask
    <2> PICK item \in dw.todo :
           IF DeploymentLive(item.dep) /\ ~item.oversize
           THEN /\ \E t \in Tasks :
                     /\ NextTask(t)
                     /\ tstatus' = [tstatus EXCEPT ![t] = "pending"]
                     /\ tdep' = [tdep EXCEPT ![t] = item.dep]
                     /\ total' = [total EXCEPT ![t] = 0]
                /\ dw' = [dw EXCEPT !.pc = "get", !.todo = @ \ {item},
                                    !.cur = {item.dep}]
           ELSE /\ dw' = IdleDW
                /\ UNCHANGED taskVars
        BY <1>2 DEF DWCreateTask
    <2>1. item.dep \in Deployments
        BY <1>0 DEF DWType
    <2>2. CASE DeploymentLive(item.dep) /\ ~item.oversize
        <3>1. dw' = [dw EXCEPT !.pc = "get", !.todo = @ \ {item}, !.cur = {item.dep}]
            BY <2>2
        <3>2. dw' \in DWType
            <4>1. dw.todo \ {item} \in SUBSET [dep : Deployments, oversize : BOOLEAN]
                BY <1>0 DEF DWType
            <4>2. {item.dep} \in SUBSET Deployments
                BY <2>1
            <4>3. dw' = [pc |-> "get", todo |-> dw.todo \ {item},
                         cur |-> {item.dep}, seen |-> dw.seen]
                BY <1>0, <3>1 DEF DWType
            <4>4. dw.seen \in DeploymentStatus \cup {"none"}
                BY <1>0 DEF DWType
            <4> QED BY <4>1, <4>2, <4>3, <4>4 DEF DWType
        <3>3. /\ tstatus' \in [Tasks -> TEntry] /\ tdep' \in [Tasks -> Deployments]
              /\ total' \in [Tasks -> Nat]
            <4> PICK t \in Tasks :
                   /\ tstatus' = [tstatus EXCEPT ![t] = "pending"]
                   /\ tdep' = [tdep EXCEPT ![t] = item.dep]
                   /\ total' = [total EXCEPT ![t] = 0]
                BY <2>2
            <4> QED BY <2>1 DEF TypeOK, TEntry, TaskStatus
        <3> QED BY <1>2, <3>2, <3>3 DEF TypeOK, DWCreateTask, DWType, TEntry
    <2>3. CASE ~(DeploymentLive(item.dep) /\ ~item.oversize)
        <3>1. dw' \in DWType /\ UNCHANGED taskVars
            BY <2>3, ResetTypes
        <3> QED BY <1>2, <3>1 DEF TypeOK, DWCreateTask, DWType
    <2> QED BY <2>2, <2>3
<1>3. CASE DWGetDeployment
    <2>1. dw' \in DWType
        BY <1>0, <1>3 DEF DWGetDeployment, DWType, DeploymentLive
    <2> QED BY <1>3, <2>1 DEF TypeOK, DWGetDeployment, DWType
<1>4. CASE DWPutPending
    <2>1. dw' \in DWType /\ dstatus' \in [Deployments -> DEntry]
        BY <1>0, <1>4, ResetTypes DEF TypeOK, DWPutPending, DEntry, DeploymentStatus
    <2> QED BY <1>4, <2>1 DEF TypeOK, DWPutPending, DWType, DEntry
<1> QED BY <1>1, <1>2, <1>3, <1>4 DEF DeploymentWorker

LEMMA TaskWorkerType == TypeOK /\ TaskWorker => TypeOK'
<1> SUFFICES ASSUME TypeOK, TaskWorker PROVE TypeOK'
    OBVIOUS
<1> USE DEF dbVars, depVars, taskVars, agentVars, boundVars
<1>0. /\ tw \in TWType
      /\ \A S \in SUBSET Tasks : TWContinue(S) \in TWType
    BY DEF TypeOK, TWType, TWContinue, IdleTW
<1>1. CASE TWFire
    <2>1. tw' \in TWType
        BY <1>0, <1>1 DEF TWFire, TWType, PendingTasks
    <2> QED BY <1>1, <2>1 DEF TypeOK, TWFire, TWType
<1>2. CASE TWGetDeployment
    <2>1. \A t \in tw.todo : form[tdep[t]].oneByOne \in BOOLEAN
        BY <1>0, FormsAssumption DEF TypeOK, TWType, FormType
    <2> PICK t \in tw.todo :
           IF DeploymentLive(tdep[t])
           THEN /\ tw' = [tw EXCEPT !.pc = "get", !.cur = {t}, !.todo = @ \ {t},
                                    !.oneByOne = form[tdep[t]].oneByOne]
                /\ UNCHANGED tstatus
           ELSE /\ tw' = TWContinue(tw.todo \ {t})
                /\ tstatus' = [tstatus EXCEPT ![t] = IF TaskLive(t) THEN Erased ELSE @]
        BY <1>2 DEF TWGetDeployment
    <2>2. t \in Tasks /\ tw.todo \ {t} \in SUBSET Tasks
        BY <1>0 DEF TWType
    <2>3. tw' \in TWType
        <3>1. CASE DeploymentLive(tdep[t])
            <4>1. {t} \in SUBSET Tasks /\ form[tdep[t]].oneByOne \in BOOLEAN
                BY <2>1, <2>2
            <4>2. tw' = [tw EXCEPT !.pc = "get", !.cur = {t}, !.todo = @ \ {t},
                                   !.oneByOne = form[tdep[t]].oneByOne]
                BY <3>1
            <4> QED BY <1>0, <2>2, <4>1, <4>2 DEF TWType
        <3>2. CASE ~DeploymentLive(tdep[t])
            BY <1>0, <2>2, <3>2
        <3> QED BY <3>1, <3>2
    <2>4. tstatus' \in [Tasks -> TEntry]
        <3>1. tstatus \in [Tasks -> TEntry] /\ Erased \in TEntry
            BY DEF TypeOK, TEntry
        <3>2. CASE DeploymentLive(tdep[t])
            BY <3>1, <3>2
        <3>3. CASE ~DeploymentLive(tdep[t])
            BY <2>2, <3>1, <3>3
        <3> QED BY <3>2, <3>3
    <2>5. UNCHANGED <<depVars, tag, tdep, total, log, dw, strategy, patch,
                      agentVars, boundVars>>
        BY <1>2 DEF TWGetDeployment
    <2> QED BY <2>3, <2>4, <2>5 DEF TypeOK, TWType, TEntry
<1>3. CASE TWGetTask
    <2>1. tw' \in TWType
        BY <1>0, <1>3 DEF TWGetTask, TWType
    <2> QED BY <1>3, <2>1 DEF TypeOK, TWGetTask, TWType
<1>4. CASE TWPutRunning
    <2>1. tw' \in TWType /\ tstatus' \in [Tasks -> TEntry]
        BY <1>0, <1>4, ResetTypes DEF TWPutRunning, TypeOK, TWType, TEntry, TaskStatus
    <2> QED BY <1>4, <2>1 DEF TypeOK, TWPutRunning, TWType, TEntry
<1>5. CASE TWSpawn
    <2>1. tw' \in TWType /\ strategy' \in [Tasks -> SType]
        BY <1>0, <1>5, ResetTypes DEF TWSpawn, TypeOK, TWType, SType
    <2> QED BY <1>5, <2>1 DEF TypeOK, TWSpawn, TWType, SType
<1> QED BY <1>1, <1>2, <1>3, <1>4, <1>5 DEF TaskWorker

\* A step of a strategy process is type-correct when the five variables that
\* strategies write are.
LEMMA StrategyFrame ==
    ASSUME TypeOK,
           UNCHANGED <<form, due, tag, tdep, log, dw, tw, agentVars, boundVars>>,
           dstatus' \in [Deployments -> DEntry], tstatus' \in [Tasks -> TEntry],
           total' \in [Tasks -> Nat], strategy' \in [Tasks -> SType],
           patch' \in [Tasks -> [Hosts -> {"none", "post", "poll"}]]
    PROVE  TypeOK'
BY DEF TypeOK, DEntry, TEntry, SType, agentVars, boundVars

\* Moving a strategy to another step, or ending it, keeps its type.
LEMMA GotoExitType ==
    ASSUME TypeOK, NEW t \in Tasks
    PROVE  /\ \A pc \in StrategyPc : Goto(t, pc) => strategy' \in [Tasks -> SType]
           /\ Exit(t) => strategy' \in [Tasks -> SType]
<1>1. strategy \in [Tasks -> SType]
    BY DEF TypeOK, SType
<1>2. ASSUME NEW pc \in StrategyPc
      PROVE  [strategy[t] EXCEPT !.pc = pc, !.seen = "none"] \in SType
    BY <1>1 DEF SType
<1> QED BY <1>1, <1>2, ResetTypes DEF Goto, Exit

\* The read half of an update, when it finds the row.
LEMMA ReadType ==
    ASSUME TypeOK, NEW t \in Tasks, NEW put \in StrategyPc,
           NEW status \in DeploymentStatus \cup {"none"}
    PROVE  [strategy EXCEPT ![t] = [@ EXCEPT !.pc = put, !.seen = status]]
               \in [Tasks -> SType]
<1>1. strategy \in [Tasks -> SType]
    BY DEF TypeOK, SType
<1>2. [strategy[t] EXCEPT !.pc = put, !.seen = status] \in SType
    BY <1>1 DEF SType
<1> QED BY <1>1, <1>2

\* The read half of an update, of a deployment.
LEMMA GetDepType ==
    ASSUME TypeOK, NEW t \in Tasks, NEW pc, NEW put \in StrategyPc,
           NEW next \in StrategyPc,
           Get(t, pc, DeploymentLive(tdep[t]), dstatus[tdep[t]], put, Goto(t, next))
           \/ Get(t, pc, DeploymentLive(tdep[t]), dstatus[tdep[t]], put, Exit(t))
    PROVE  TypeOK'
<1>1. strategy' \in [Tasks -> SType]
    <2>1. CASE DeploymentLive(tdep[t])
        <3>1. dstatus[tdep[t]] \in DeploymentStatus \cup {"none"}
            BY <2>1 DEF DeploymentLive, TaskLive, TaskStatus, DeploymentStatus
        <3>2. strategy' = [strategy EXCEPT ![t] =
                             [@ EXCEPT !.pc = put, !.seen = dstatus[tdep[t]]]]
            BY <2>1 DEF Get
        <3> QED BY <3>1, <3>2, ReadType
    <2>2. CASE ~DeploymentLive(tdep[t])
        BY <2>2, GotoExitType DEF Get
    <2> QED BY <2>1, <2>2
<1>2. UNCHANGED <<dbVars, dw, tw, patch, agentVars, boundVars>>
    BY DEF Get
<1> QED BY <1>1, <1>2, StrategyFrame
        DEF TypeOK, DEntry, TEntry, dbVars, depVars, taskVars

\* The read half of an update, of a task.
LEMMA GetTaskType ==
    ASSUME TypeOK, NEW t \in Tasks, NEW pc, NEW put \in StrategyPc,
           NEW next \in StrategyPc,
           Get(t, pc, TaskLive(t), tstatus[t], put, Goto(t, next))
           \/ Get(t, pc, TaskLive(t), tstatus[t], put, Exit(t))
    PROVE  TypeOK'
<1>1. strategy' \in [Tasks -> SType]
    <2>1. CASE TaskLive(t)
        <3>1. tstatus[t] \in DeploymentStatus \cup {"none"}
            BY <2>1 DEF DeploymentLive, TaskLive, TaskStatus, DeploymentStatus
        <3>2. strategy' = [strategy EXCEPT ![t] =
                             [@ EXCEPT !.pc = put, !.seen = tstatus[t]]]
            BY <2>1 DEF Get
        <3> QED BY <3>1, <3>2, ReadType
    <2>2. CASE ~TaskLive(t)
        BY <2>2, GotoExitType DEF Get
    <2> QED BY <2>1, <2>2
<1>2. UNCHANGED <<dbVars, dw, tw, patch, agentVars, boundVars>>
    BY DEF Get
<1> QED BY <1>1, <1>2, StrategyFrame
        DEF TypeOK, DEntry, TEntry, dbVars, depVars, taskVars

LEMMA StrategyType ==
    ASSUME TypeOK, NEW t \in Tasks, OneByOne(t) PROVE TypeOK'
<1> USE DEF dbVars, depVars, taskVars
<1>0. /\ strategy \in [Tasks -> SType] /\ tdep[t] \in Deployments
      /\ dstatus \in [Deployments -> DEntry] /\ tstatus \in [Tasks -> TEntry]
      /\ total \in [Tasks -> Nat]
      /\ patch \in [Tasks -> [Hosts -> {"none", "post", "poll"}]]
    BY DEF TypeOK, SType, DEntry, TEntry
<1>1. CASE StrategyTargetHosts(t)
    <2>1. strategy' \in [Tasks -> SType]
        <3>1. CASE DeploymentLive(tdep[t])
            <4>1. [strategy[t] EXCEPT !.pc = "getDep", !.hosts = TargetHosts(tdep[t]),
                      !.found = Cardinality(TargetHosts(tdep[t]))] \in SType
                BY <1>0, TargetsFinite DEF SType, StrategyPc, StrategyDbSteps
            <4> QED BY <1>0, <1>1, <3>1, <4>1 DEF StrategyTargetHosts
        <3>2. CASE ~DeploymentLive(tdep[t])
            BY <1>1, <3>2, GotoExitType DEF StrategyTargetHosts
        <3> QED BY <3>1, <3>2
    <2>2. UNCHANGED <<dbVars, dw, tw, patch, agentVars, boundVars>>
        BY <1>1 DEF StrategyTargetHosts
    <2> QED BY <1>0, <2>1, <2>2, StrategyFrame
<1>2. ASSUME NEW pc, NEW status \in {"running", "skipped"}, NEW next \in StrategyPc,
             PutDeployment(t, pc, status, Goto(t, next))
             \/ PutDeployment(t, pc, status, Exit(t))
      PROVE  TypeOK'
    <2>1. strategy' \in [Tasks -> SType]
        BY <1>2, GotoExitType DEF PutDeployment, PutStale
    <2>2. dstatus' \in [Deployments -> DEntry]
        BY <1>0, <1>2 DEF PutDeployment, DEntry, DeploymentStatus
    <2>3. UNCHANGED <<form, due, tag, taskVars, log, dw, tw, patch, agentVars,
                      boundVars>>
        BY <1>2 DEF PutDeployment
    <2> QED BY <1>0, <2>1, <2>2, <2>3, StrategyFrame
<1>3. ASSUME NEW pc, NEW status \in {"running", "skipped"}, NEW next \in StrategyPc,
             PutTask(t, pc, status, Goto(t, next))
      PROVE  TypeOK'
    <2>1. strategy' \in [Tasks -> SType]
        BY <1>3, GotoExitType DEF PutTask, PutStale
    <2>2. tstatus' \in [Tasks -> TEntry]
        BY <1>0, <1>3 DEF PutTask, TEntry, TaskStatus
    <2>3. UNCHANGED <<depVars, tag, tdep, total, log, dw, tw, patch, agentVars,
                      boundVars>>
        BY <1>3 DEF PutTask
    <2> QED BY <1>0, <2>1, <2>2, <2>3, StrategyFrame
<1>g. ASSUME UNCHANGED <<dbVars, dw, tw, patch, agentVars, boundVars>>,
             strategy' \in [Tasks -> SType]
      PROVE  TypeOK'
    BY <1>0, <1>g, StrategyFrame
<1>5. CASE StrategyDeploymentRunning(t)
    <2>1. CASE PutDeployment(t, "putDep", "running", Goto(t, "getTask"))
        BY <1>2, <2>1 DEF StrategyPc, StrategyDbSteps
    <2>2. CASE Get(t, "getDep", DeploymentLive(tdep[t]), dstatus[tdep[t]], "putDep",
                   Goto(t, "getTask"))
        <3>1. "putDep" \in StrategyPc /\ "getTask" \in StrategyPc
            BY DEF StrategyPc, StrategyDbSteps
        <3> QED BY <2>2, <3>1, GetDepType
    <2> QED BY <1>5, <2>1, <2>2 DEF StrategyDeploymentRunning
<1>6. CASE StrategyTaskRunning(t)
    <2>1. CASE PutTask(t, "putTask", "running", Goto(t, "getResult"))
        BY <1>3, <2>1 DEF StrategyPc, StrategyDbSteps
    <2>2. CASE Get(t, "getTask", TaskLive(t), tstatus[t], "putTask",
                   Goto(t, "getResult"))
        <3>1. "putTask" \in StrategyPc /\ "getResult" \in StrategyPc
            BY DEF StrategyPc, StrategyDbSteps
        <3> QED BY <2>2, <3>1, GetTaskType
    <2> QED BY <1>6, <2>1, <2>2 DEF StrategyTaskRunning
<1>7. CASE StrategyResult(t)
    <2>0. "putResult" \in StrategyPc /\ "loop" \in StrategyPc
        BY DEF StrategyPc, StrategyDbSteps
    <2>1. CASE Get(t, "getResult", TaskLive(t), tstatus[t], "putResult",
                   Goto(t, "loop"))
        BY <2>0, <2>1, GetTaskType
    <2>2. CASE ~Get(t, "getResult", TaskLive(t), tstatus[t], "putResult",
                    Goto(t, "loop"))
        <3>1. strategy' \in [Tasks -> SType]
            BY <1>7, <2>0, <2>2, GotoExitType DEF StrategyResult
        <3>2. total' \in [Tasks -> Nat]
            BY <1>0, <1>7, <2>2 DEF StrategyResult, SType
        <3>3. UNCHANGED <<depVars, tag, tstatus, tdep, log, dw, tw, patch,
                          agentVars, boundVars>>
            BY <1>7, <2>2 DEF StrategyResult
        <3> QED BY <1>0, <3>1, <3>2, <3>3, StrategyFrame
    <2> QED BY <2>1, <2>2
<1>8. CASE StrategyNextHost(t)
    <2>0. PICK h \in strategy[t].hosts :
           /\ patch' = [patch EXCEPT ![t][h] = "post"]
           /\ strategy' = [strategy EXCEPT ![t] =
                [@ EXCEPT !.pc = "wait", !.hosts = strategy[t].hosts \ {h},
                          !.at = {h}]]
        BY <1>8 DEF StrategyNextHost
    <2>1. h \in Hosts
        BY <1>0 DEF SType
    <2>2. [strategy[t] EXCEPT !.pc = "wait", !.hosts = strategy[t].hosts \ {h},
                              !.at = {h}] \in SType
        BY <1>0, <2>1 DEF SType, StrategyPc
    <2>3. strategy' \in [Tasks -> SType]
        BY <1>0, <2>0, <2>2
    <2>4. patch' \in [Tasks -> [Hosts -> {"none", "post", "poll"}]]
        BY <1>0, <2>0, <2>1
    <2> QED BY <1>0, <1>8, <2>3, <2>4, StrategyFrame DEF StrategyNextHost
<1>9. CASE StrategyWaitOver(t)
    <2>1. [strategy[t] EXCEPT !.pc = "loop", !.at = {}] \in SType
        BY <1>0 DEF SType, StrategyPc
    <2>2. strategy' \in [Tasks -> SType]
        BY <1>0, <1>9, <2>1 DEF StrategyWaitOver
    <2> QED BY <1>9, <1>g, <2>2 DEF StrategyWaitOver
<1>10. CASE StrategyLoopOver(t)
    <2>0. "getTaskSkip" \in StrategyPc
        BY DEF StrategyPc, StrategyDbSteps
    <2>1. strategy' \in [Tasks -> SType]
        BY <1>10, <2>0, GotoExitType DEF StrategyLoopOver
    <2> QED BY <1>10, <1>g, <2>1 DEF StrategyLoopOver
<1>11. CASE StrategySkip(t)
    <2>0. {"putTaskSkip", "getDepSkip", "putDepSkip"} \subseteq StrategyPc
        BY DEF StrategyPc, StrategyDbSteps
    <2>1. CASE Get(t, "getTaskSkip", TaskLive(t), tstatus[t], "putTaskSkip",
                   Goto(t, "getDepSkip"))
        BY <2>0, <2>1, GetTaskType
    <2>2. CASE PutTask(t, "putTaskSkip", "skipped", Goto(t, "getDepSkip"))
        BY <1>3, <2>0, <2>2
    <2>3. CASE Get(t, "getDepSkip", DeploymentLive(tdep[t]), dstatus[tdep[t]],
                   "putDepSkip", Exit(t))
        BY <2>0, <2>3, GetDepType
    <2>4. CASE PutDeployment(t, "putDepSkip", "skipped", Exit(t))
        BY <1>2, <2>0, <2>4
    <2> QED BY <1>11, <2>1, <2>2, <2>3, <2>4 DEF StrategySkip
<1> QED BY <1>1, <1>5, <1>6, <1>7, <1>8, <1>9, <1>10, <1>11 DEF OneByOne

LEMMA PatchType ==
    ASSUME TypeOK, NEW t \in Tasks, NEW h \in Hosts,
           Patch(t, h) \/ Outcome(t, h)
    PROVE  TypeOK'
<1> USE DEF dbVars, depVars, taskVars, procVars, agentVars, boundVars
<1>1. CASE PatchUnreachable(t, h)
    BY <1>1 DEF TypeOK, PatchUnreachable, PatchEnd
<1>2. CASE PatchAccepted(t, h)
    BY <1>2 DEF TypeOK, PatchAccepted
<1>3. CASE PatchRefused(t, h)
    BY <1>3 DEF TypeOK, PatchRefused
<1>4. CASE PatchAnswerLost(t, h)
    BY <1>4 DEF TypeOK, PatchAnswerLost, PatchEnd
<1>5. CASE PatchCheck(t, h)
    BY <1>5 DEF TypeOK, PatchCheck, PatchEnd
<1>6. CASE AgentReport(t, h)
    BY <1>6 DEF TypeOK, AgentReport
<1>7. CASE CreateTaskLog(t, h)
    BY <1>7 DEF TypeOK, CreateTaskLog
<1> QED BY <1>1, <1>2, <1>3, <1>4, <1>5, <1>6, <1>7 DEF Patch, Outcome

LEMMA CrashesType == TypeOK /\ Crashes => TypeOK'
<1> SUFFICES ASSUME TypeOK, Crashes PROVE TypeOK'
    OBVIOUS
<1> USE DEF dbVars, depVars, taskVars, agentVars, boundVars
<1>1. CASE DWCrash
    BY <1>1, ResetTypes DEF TypeOK, DWCrash, DWType
<1>2. CASE TWCrash
    BY <1>2, ResetTypes DEF TypeOK, TWCrash, TWType
<1>3. CASE NodeRestart
    BY <1>3, ResetTypes DEF TypeOK, NodeRestart, DWType, TWType, SType
<1>4. ASSUME NEW t \in Tasks, StrategyCrash(t) PROVE TypeOK'
    <2>1. strategy' \in [Tasks -> SType]
        BY <1>4, GotoExitType DEF StrategyCrash
    <2> QED BY <1>4, <2>1 DEF TypeOK, StrategyCrash, SType
<1>5. ASSUME NEW t \in Tasks, NEW h \in Hosts, PatchCrash(t, h) PROVE TypeOK'
    BY <1>5 DEF TypeOK, PatchCrash, PatchEnd
<1> QED BY <1>1, <1>2, <1>3, <1>4, <1>5 DEF Crashes

\* No interleaving, crash or deletion takes a variable out of its range.
THEOREM TypeCorrect == Spec => []TypeOK
<1>1. Init => TypeOK
    BY InitType
<1>2. TypeOK /\ [Next]_vars => TypeOK'
    <2> SUFFICES ASSUME TypeOK, [Next]_vars PROVE TypeOK'
        OBVIOUS
    <2>1. CASE UNCHANGED vars
        BY <2>1 DEF vars, dbVars, depVars, taskVars, procVars, agentVars,
                    boundVars, TypeOK
    <2>2. CASE Next
        BY <2>2, RequestsType, DeploymentWorkerType, TaskWorkerType,
           StrategyType, PatchType, CrashesType DEF Next
    <2> QED BY <2>1, <2>2
<1> QED BY <1>1, <1>2, PTL DEF Spec
=============================================================================
