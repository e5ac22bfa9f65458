--------------------------- MODULE RolloutCounts ---------------------------
(***************************************************************************)
(* What the tables of Rollout say about each other and how often things    *)
(* can go wrong: the status of a deployment is backed by its tasks, a      *)
(* second task costs a crash, total_hosts covers what was commanded, and   *)
(* hosts patched at the same time cost a fault or a crash.  Then what      *)
(* makes a rollout end: its steps and those of the two workers' fires      *)
(* count down, and one that is over stays over.                            *)
(***************************************************************************)
EXTENDS RolloutSafety

USE DEF NoTag, Erased

----------------------------------------------------------------------------
\* What a step does to a row of tasks and of deployments

\* The strategy of a task writes its deployment and skips its task.
LEMMA StrategyRows ==
    ASSUME TypeOK, IInv, NEW t \in Tasks, OneByOne(t)
    PROVE  /\ UNCHANGED <<tdep, dw, crashes>>
           /\ \/ UNCHANGED <<tstatus, dstatus>>
              \/ /\ tstatus[t] = "running" /\ UNCHANGED dstatus
                 /\ tstatus' = [tstatus EXCEPT ![t] = "skipped"]
              \/ /\ DeploymentLive(tdep[t]) /\ UNCHANGED tstatus
                 /\ \/ /\ strategy[t].pc = "putDep"
                       /\ dstatus' = [dstatus EXCEPT ![tdep[t]] = "running"]
                    \/ /\ strategy[t].pc = "putDepSkip"
                       /\ dstatus' = [dstatus EXCEPT ![tdep[t]] = "skipped"]
<1> USE DEF dbVars, depVars, taskVars, agentVars, boundVars
<1>1. CASE StrategyTaskRunning(t)
    <2>1. TaskLive(t) /\ strategy[t].pc = "putTask" => tstatus[t] = "running"
        BY DEF IInv, StrategyInv, Preparing, TaskLive, TaskStatus
    <2> QED BY <1>1, <2>1, Shapes DEF StrategyTaskRunning, Get, PutTask
<1>2. CASE StrategySkip(t)
    <2>1. CASE PutTask(t, "putTaskSkip", "skipped", Goto(t, "getDepSkip"))
        <3>1. TaskLive(t) => tstatus[t] = "running"
            BY <2>1 DEF PutTask, IInv, StrategyInv, SkipSteps, TaskLive, TaskStatus
        <3> QED BY <2>1, <3>1 DEF PutTask
    <2>2. CASE PutDeployment(t, "putDepSkip", "skipped", Exit(t))
        BY <2>2 DEF PutDeployment
    <2>3. CASE ~PutTask(t, "putTaskSkip", "skipped", Goto(t, "getDepSkip"))
               /\ ~PutDeployment(t, "putDepSkip", "skipped", Exit(t))
        BY <1>2, <2>3 DEF StrategySkip, Get
    <2> QED BY <2>1, <2>2, <2>3
<1>3. CASE StrategyDeploymentRunning(t)
    BY <1>3 DEF StrategyDeploymentRunning, Get, PutDeployment
<1>4. CASE StrategyResult(t)
    BY <1>4 DEF StrategyResult, Get
<1>5. CASE StrategyTargetHosts(t) \/ StrategyNextHost(t) \/ StrategyWaitOver(t)
           \/ StrategyLoopOver(t)
    BY <1>5 DEF StrategyTargetHosts, StrategyNextHost, StrategyWaitOver, StrategyLoopOver
<1> QED BY <1>1, <1>2, <1>3, <1>4, <1>5 DEF OneByOne

\* Neither PatchTasks, agents nor crashes write these rows.
LEMMA OtherRows ==
    ASSUME \/ Crashes
           \/ \E t \in Tasks, h \in Hosts :
                Patch(t, h) \/ Outcome(t, h)
    PROVE  UNCHANGED <<dstatus, tstatus, tdep>>
BY DEF Crashes, DWCrash, TWCrash, StrategyCrash, PatchCrash, NodeRestart, Patch,
       PatchUnreachable, PatchAccepted, PatchRefused, PatchAnswerLost, PatchCheck,
       Outcome, AgentReport, CreateTaskLog, dbVars, depVars, taskVars

\* What can become of a row of tasks, and with which state of its deployment.
TaskRow(t) ==
    \/ tstatus'[t] = tstatus[t] /\ tdep'[t] = tdep[t]
    \/ /\ DWCreateTask /\ tstatus[t] = "none" /\ tstatus'[t] = "pending"
       /\ DeploymentLive(tdep'[t]) /\ UNCHANGED dstatus
    \/ /\ tstatus[t] = "pending" /\ tstatus'[t] = "running"
       /\ tdep'[t] = tdep[t] /\ UNCHANGED dstatus
    \/ /\ tstatus[t] = "running" /\ tstatus'[t] = "skipped"
       /\ tdep'[t] = tdep[t] /\ UNCHANGED dstatus
    \/ /\ TaskLive(t) /\ tstatus'[t] = Erased /\ tdep'[t] = tdep[t]
       /\ dstatus'[tdep[t]] \notin DeploymentStatus
       /\ dstatus[tdep[t]] # "none" => dstatus'[tdep[t]] = Erased

\* What can become of a row of deployments, and who writes it.
DeploymentRow(d) ==
    \/ dstatus'[d] = dstatus[d]
    \/ dstatus[d] = "none" /\ dstatus'[d] = "unknown" /\ UNCHANGED <<tstatus, tdep, dw>>
    \/ DeploymentLive(d) /\ dstatus'[d] = Erased /\ \A t \in TasksOf(d) : tstatus'[t] = Erased
    \/ /\ DeploymentLive(d) /\ UNCHANGED <<tstatus, tdep>>
       /\ \/ dstatus'[d] = "pending" /\ dw.pc = "put" /\ d \in dw.cur
          \/ \E t \in Tasks :
               /\ tdep[t] = d
               /\ \/ strategy[t].pc = "putDep" /\ dstatus'[d] = "running"
                  \/ strategy[t].pc = "putDepSkip" /\ dstatus'[d] = "skipped"

LEMMA Rows ==
    ASSUME TypeOK, IInv, [Next]_vars
    PROVE  /\ \A t \in Tasks : TaskRow(t)
           /\ \A d \in Deployments : DeploymentRow(d)
<1> DEFINE Good == /\ \A t \in Tasks : TaskRow(t)
                   /\ \A d \in Deployments : DeploymentRow(d)
<1> SUFFICES Good
    OBVIOUS
<1> USE DEF depVars, taskVars, agentVars
<1>0. /\ tstatus \in [Tasks -> TEntry] /\ tdep \in [Tasks -> Deployments]
      /\ dstatus \in [Deployments -> DEntry]
    BY DEF TypeOK, TEntry, DEntry
<1>s. UNCHANGED <<dstatus, tstatus, tdep>> => Good
    BY DEF TaskRow, DeploymentRow
<1>1. ASSUME NEW d \in Deployments, CreateDeployment(d) PROVE Good
    BY <1>0, <1>1 DEF CreateDeployment, TaskRow, DeploymentRow, procVars
<1>2. ASSUME NEW d \in Deployments, DeleteDeployment(d) PROVE Good
    <2>1. /\ DeploymentLive(d) /\ UNCHANGED tdep
          /\ dstatus'[d] = Erased
          /\ \A e \in Deployments \ {d} : dstatus'[e] = dstatus[e]
          /\ \A t \in TasksOf(d) : tstatus'[t] = Erased
          /\ \A t \in Tasks \ TasksOf(d) : tstatus'[t] = tstatus[t]
        BY <1>0, <1>2 DEF DeleteDeployment, TasksOf
    <2>2. \A t \in TasksOf(d) : TaskLive(t) /\ tdep[t] = d
        BY DEF TasksOf
    <2>3. \A t \in Tasks : TaskRow(t)
        BY <2>1, <2>2 DEF TaskRow, DeploymentStatus
    <2>4. \A e \in Deployments : DeploymentRow(e)
        BY <2>1 DEF DeploymentRow
    <2> QED BY <2>3, <2>4
<1>3. CASE DWCreateTask
    <2>1. UNCHANGED dstatus
        BY <1>3 DEF DWCreateTask
    <2>2. ASSUME NEW item \in dw.todo, NEW t \in Tasks, NextTask(t),
                 DeploymentLive(item.dep),
                 tstatus' = [tstatus EXCEPT ![t] = "pending"],
                 tdep' = [tdep EXCEPT ![t] = item.dep]
          PROVE  Good
        BY <1>0, <1>3, <2>1, <2>2 DEF TaskRow, DeploymentRow, NextTask
    <2> QED BY <1>3, <1>s, <2>1, <2>2 DEF DWCreateTask
<1>4. CASE DWPutPending
    <2>1. UNCHANGED <<tstatus, tdep>> /\ dw.pc = "put" /\ dw.cur \subseteq Deployments
        BY <1>4 DEF DWPutPending, TypeOK
    <2>2. PICK d \in dw.cur :
            \/ UNCHANGED dstatus
            \/ DeploymentLive(d) /\ dstatus' = [dstatus EXCEPT ![d] = "pending"]
        BY <1>4 DEF DWPutPending
    <2> QED BY <1>0, <1>s, <2>1, <2>2 DEF TaskRow, DeploymentRow
<1>5. CASE TWGetDeployment
    <2>1. UNCHANGED <<dstatus, tdep>>
        BY <1>5 DEF TWGetDeployment
    <2>2. PICK t \in tw.todo :
            \/ UNCHANGED tstatus
            \/ /\ ~DeploymentLive(tdep[t])
               /\ tstatus' = [tstatus EXCEPT ![t] = IF TaskLive(t) THEN Erased ELSE @]
        BY <1>5 DEF TWGetDeployment
    <2>3. t \in Tasks
        BY Shapes DEF TWType
    <2>4. CASE UNCHANGED tstatus
        BY <1>s, <2>1, <2>4
    <2>5. CASE ~UNCHANGED tstatus
        <3>1. /\ ~DeploymentLive(tdep[t]) /\ TaskLive(t) /\ tstatus'[t] = Erased
              /\ \A u \in Tasks \ {t} : tstatus'[u] = tstatus[u]
            BY <1>0, <2>2, <2>3, <2>5
        <3>2. dstatus[tdep[t]] # "none" => dstatus[tdep[t]] = Erased
            BY <1>0, <2>3, <3>1 DEF DeploymentLive, DEntry
        <3> QED BY <2>1, <3>1, <3>2 DEF TaskRow, DeploymentRow, DeploymentLive
    <2> QED BY <2>4, <2>5
<1>6. CASE TWPutRunning
    <2>1. UNCHANGED <<dstatus, tdep>>
        BY <1>6 DEF TWPutRunning
    <2>2. PICK t \in tw.cur :
            \/ UNCHANGED tstatus
            \/ TaskLive(t) /\ tstatus' = [tstatus EXCEPT ![t] = "running"]
        BY <1>6 DEF TWPutRunning
    <2>3. t \in Tasks /\ (TaskLive(t) => tstatus[t] = "pending")
        BY <1>6, Shapes DEF TWType, TWPutRunning, IInv, WorkerInv, TaskLive, TaskStatus
    <2> QED BY <1>0, <1>s, <2>1, <2>2, <2>3 DEF TaskRow, DeploymentRow
<1>7. ASSUME NEW t \in Tasks, OneByOne(t) PROVE Good
    <2>1. tdep[t] \in Deployments
        BY <1>0
    <2> QED BY <1>0, <1>7, <2>1, StrategyRows, <1>s DEF TaskRow, DeploymentRow
<1>8. ASSUME NEW d \in Deployments, UpdateDeployment(d) \/ ScheduleTimePasses(d)
      PROVE  Good
    BY <1>8, <1>s DEF UpdateDeployment, ScheduleTimePasses
<1>9. ASSUME NEW h \in Hosts, CreateHost(h) \/ UpdateHost(h) \/ DeleteHost(h)
      PROVE  Good
    BY <1>9, <1>s DEF CreateHost, UpdateHost, DeleteHost
<1>10. CASE DWFire \/ DWGetDeployment \/ TWFire \/ TWGetTask \/ TWSpawn
    BY <1>10, <1>s DEF DWFire, DWGetDeployment, TWFire, TWGetTask, TWSpawn, dbVars
<1>11. CASE UNCHANGED vars
    BY <1>11, <1>s DEF vars, dbVars
<1> HIDE DEF Good
<1>12. Requests => Good
    BY <1>1, <1>2, <1>8, <1>9 DEF Requests
<1>13. DeploymentWorker \/ TaskWorker => Good
    BY <1>3, <1>4, <1>5, <1>6, <1>10 DEF DeploymentWorker, TaskWorker
<1>14. CASE Next
    BY <1>7, <1>12, <1>13, <1>14, <1>s, OtherRows DEF Next
<1> QED BY <1>11, <1>14

----------------------------------------------------------------------------
\* The status of a deployment is backed by its tasks

\* The invariant behind StatusIsBacked.  A task row goes only after its
\* deployment, a deployment in the hands of the DeploymentWorker has a task
\* as long as it is there, and nobody writes "skipped" for a deployment
\* before its task says so.
Housed(t) ==
    /\ tstatus[t] # "none" => dstatus[tdep[t]] # "none"
    /\ tstatus[t] = Erased => dstatus[tdep[t]] = Erased

SkipMarked(t) ==
    /\ strategy[t].pc = "putTaskSkip" => strategy[t].seen # "skipped"
    /\ strategy[t].pc \in {"getDepSkip", "putDepSkip"} =>
         tstatus[t] \in {"skipped", Erased}

BackedInv ==
    /\ \A t \in Tasks : Housed(t) /\ SkipMarked(t)
    /\ \A d \in dw.cur : dstatus[d] # "none" /\ (DeploymentLive(d) => TasksOf(d) # {})
    /\ StatusIsBacked

\* A deployment does not come back: neither from "deleted" nor to "none".
LEMMA NoReturn ==
    ASSUME NEW d \in Deployments, DeploymentRow(d)
    PROVE  /\ dstatus[d] # "none" => dstatus'[d] # "none"
           /\ dstatus[d] = Erased => dstatus'[d] = Erased
           /\ dstatus'[d] = "unknown" => dstatus[d] \in {"none", "unknown"}
BY DEF DeploymentRow, DeploymentLive, DeploymentStatus

LEMMA HousedNext ==
    ASSUME TypeOK, NEW t \in Tasks, Housed(t), TaskRow(t),
           \A d \in Deployments : DeploymentRow(d)
    PROVE  Housed(t)'
<1>1. tdep[t] \in Deployments
    BY DEF TypeOK
<1>2. /\ dstatus[tdep[t]] # "none" => dstatus'[tdep[t]] # "none"
      /\ dstatus[tdep[t]] = Erased => dstatus'[tdep[t]] = Erased
    BY <1>1, NoReturn
<1> QED BY <1>2 DEF Housed, TaskRow, TaskLive, TaskStatus, DeploymentLive, DeploymentStatus

\* The steps of the strategy of t; the others leave its record alone or reset it.
LEMMA SkipMarkedSteps ==
    ASSUME TypeOK, IInv, NEW t \in Tasks, SkipMarked(t), OneByOne(t)
    PROVE  SkipMarked(t)'
<1>0. /\ strategy \in [Tasks -> SType] /\ strategy[t] \in SType
      /\ tstatus \in [Tasks -> TEntry]
    BY Shapes
<1>2. ASSUME Exit(t) PROVE SkipMarked(t)'
    BY <1>0, <1>2 DEF Exit, NoStrategy, SkipMarked
<1>3. ASSUME NEW pc, Goto(t, pc)
      PROVE  strategy'[t].pc = pc /\ strategy'[t].seen = "none"
    BY <1>0, <1>3 DEF Goto, SType
<1>4. ASSUME NEW pc, NEW live, NEW status, NEW put, NEW missing,
             Get(t, pc, live, status, put, missing)
      PROVE  /\ UNCHANGED tstatus
             /\ \/ live /\ strategy'[t].pc = put /\ strategy'[t].seen = status
                \/ ~live /\ missing
    <2>1. UNCHANGED tstatus
        BY <1>4 DEF Get, dbVars, taskVars
    <2>2. CASE live
        <3>1. strategy' = [strategy EXCEPT ![t] = [@ EXCEPT !.pc = put, !.seen = status]]
            BY <1>4, <2>2 DEF Get
        <3> QED BY <1>0, <2>1, <2>2, <3>1 DEF SType
    <2>3. CASE ~live
        <3>1. missing
            BY <1>4, <2>3 DEF Get
        <3> QED BY <2>1, <2>3, <3>1
    <2> QED BY <2>2, <2>3
<1>5. ASSUME NEW pc, pc \notin {"putTaskSkip", "getDepSkip", "putDepSkip"}, Goto(t, pc)
      PROVE  SkipMarked(t)'
    BY <1>3, <1>5 DEF SkipMarked
<1>6. CASE StrategyTargetHosts(t)
    <2>1. CASE DeploymentLive(tdep[t])
        <3> DEFINE targets == TargetHosts(tdep[t])
                   r == [strategy[t] EXCEPT !.pc = "getDep", !.hosts = targets,
                                            !.found = Cardinality(targets)]
        <3>1. strategy'[t] = r
            BY <1>0, <1>6, <2>1 DEF StrategyTargetHosts
        <3>2. r.pc = "getDep"
            BY <1>0 DEF SType
        <3> HIDE DEF r
        <3> QED BY <3>1, <3>2 DEF SkipMarked
    <2>2. CASE ~DeploymentLive(tdep[t])
        BY <1>2, <1>6, <2>2 DEF StrategyTargetHosts
    <2> QED BY <2>1, <2>2
<1>7. CASE StrategyDeploymentRunning(t)
    <2>1. CASE Get(t, "getDep", DeploymentLive(tdep[t]), dstatus[tdep[t]], "putDep",
                   Goto(t, "getTask"))
        BY <1>4, <1>5, <2>1 DEF SkipMarked
    <2>2. CASE PutDeployment(t, "putDep", "running", Goto(t, "getTask"))
        BY <1>2, <1>5, <2>2 DEF PutDeployment, PutStale
    <2> QED BY <1>7, <2>1, <2>2 DEF StrategyDeploymentRunning
<1>8. CASE StrategyTaskRunning(t)
    <2>1. CASE Get(t, "getTask", TaskLive(t), tstatus[t], "putTask",
                   Goto(t, "getResult"))
        BY <1>4, <1>5, <2>1 DEF SkipMarked
    <2>2. CASE PutTask(t, "putTask", "running", Goto(t, "getResult"))
        BY <1>2, <1>5, <2>2 DEF PutTask, PutStale
    <2> QED BY <1>8, <2>1, <2>2 DEF StrategyTaskRunning
<1>9. CASE StrategyResult(t)
    <2>1. CASE Get(t, "getResult", TaskLive(t), tstatus[t], "putResult", Goto(t, "loop"))
        BY <1>4, <1>5, <2>1 DEF SkipMarked
    <2>2. CASE ~Get(t, "getResult", TaskLive(t), tstatus[t], "putResult", Goto(t, "loop"))
        BY <1>2, <1>5, <1>9, <2>2 DEF StrategyResult
    <2> QED BY <2>1, <2>2
<1>10. CASE StrategyNextHost(t) \/ StrategyWaitOver(t)
    <2>1. CASE StrategyWaitOver(t)
        <3>1. strategy'[t].pc = "loop"
            BY <1>0, <2>1 DEF StrategyWaitOver, SType
        <3> QED BY <3>1 DEF SkipMarked
    <2>2. CASE StrategyNextHost(t)
        <3>1. PICK h \in strategy[t].hosts :
                strategy' = [strategy EXCEPT ![t] =
                  [@ EXCEPT !.pc = "wait", !.hosts = strategy[t].hosts \ {h}, !.at = {h}]]
            BY <2>2 DEF StrategyNextHost
        <3>2. strategy'[t].pc = "wait"
            BY <1>0, <3>1 DEF SType
        <3> QED BY <3>2 DEF SkipMarked
    <2> QED BY <1>10, <2>1, <2>2
<1>11. CASE StrategyLoopOver(t)
    BY <1>2, <1>5, <1>11 DEF StrategyLoopOver
<1>12. CASE StrategySkip(t)
    <2>1. CASE Get(t, "getTaskSkip", TaskLive(t), tstatus[t], "putTaskSkip",
                   Goto(t, "getDepSkip"))
        <3>1. strategy[t].pc = "getTaskSkip" /\ tstatus[t] # "skipped"
              /\ tstatus[t] \in {"running", Erased}
            BY <2>1 DEF Get, IInv, StrategyInv, SkipSteps
        <3>2. CASE TaskLive(t)
            <4>1. strategy'[t].pc = "putTaskSkip" /\ strategy'[t].seen = tstatus[t]
                BY <1>4, <2>1, <3>2
            <4> QED BY <3>1, <4>1 DEF SkipMarked
        <3>3. CASE ~TaskLive(t)
            <4>1. UNCHANGED tstatus /\ Goto(t, "getDepSkip")
                BY <1>4, <2>1, <3>3
            <4>2. strategy'[t].pc = "getDepSkip"
                BY <1>3, <4>1
            <4>3. tstatus[t] = Erased
                BY <3>1, <3>3 DEF TaskLive, TaskStatus
            <4> QED BY <4>1, <4>2, <4>3 DEF SkipMarked
        <3> QED BY <3>2, <3>3
    <2>2. CASE PutTask(t, "putTaskSkip", "skipped", Goto(t, "getDepSkip"))
        <3>1. strategy[t].pc = "putTaskSkip" /\ strategy[t].seen # "skipped"
              /\ tstatus[t] \in {"running", "skipped", Erased}
            BY <2>2 DEF PutTask, SkipMarked, IInv, StrategyInv, SkipSteps
        <3>2. CASE TaskLive(t)
            <4>1. tstatus'[t] = "skipped" /\ Goto(t, "getDepSkip")
                BY <1>0, <2>2, <3>1, <3>2 DEF PutTask
            <4>2. strategy'[t].pc = "getDepSkip"
                BY <1>3, <4>1
            <4> QED BY <4>1, <4>2 DEF SkipMarked
        <3>3. CASE ~TaskLive(t)
            BY <1>2, <2>2, <3>1, <3>3 DEF PutTask, PutStale
        <3> QED BY <3>2, <3>3
    <2>3. CASE Get(t, "getDepSkip", DeploymentLive(tdep[t]), dstatus[tdep[t]],
                   "putDepSkip", Exit(t))
        <3>1. strategy[t].pc = "getDepSkip"
            BY <2>3 DEF Get
        <3> QED BY <1>2, <1>4, <2>3, <3>1 DEF SkipMarked
    <2>4. CASE PutDeployment(t, "putDepSkip", "skipped", Exit(t))
        BY <1>2, <2>4 DEF PutDeployment, PutStale
    <2> QED BY <1>12, <2>1, <2>2, <2>3, <2>4 DEF StrategySkip
<1> QED BY <1>6, <1>7, <1>8, <1>9, <1>10, <1>11, <1>12 DEF OneByOne

\* Who changes the record of the strategy of t.
LEMMA StrategyChanges ==
    ASSUME TypeOK, NEW t \in Tasks, [Next]_vars
    PROVE  \/ strategy'[t] = strategy[t]
           \/ strategy'[t] = NoStrategy
           \/ strategy'[t] = NewStrategy /\ tw.pc = "spawn" /\ t \in tw.cur
           \/ OneByOne(t)
<1> USE DEF dbVars, depVars, taskVars, procVars, agentVars
<1>0. strategy \in [Tasks -> SType]
    BY Shapes
<1>1. CASE UNCHANGED vars
    BY <1>1 DEF vars
<1>2. CASE Requests
    BY <1>2 DEF Requests, CreateDeployment, UpdateDeployment, DeleteDeployment,
       ScheduleTimePasses, CreateHost, UpdateHost, DeleteHost
<1>3. CASE DeploymentWorker
    BY <1>3 DEF DeploymentWorker, DWFire, DWCreateTask, DWGetDeployment, DWPutPending
<1>4. CASE TaskWorker
    <2>1. CASE TWSpawn
        <3>1. PICK u \in tw.cur : \/ UNCHANGED strategy
                                  \/ strategy' = [strategy EXCEPT ![u] = NewStrategy]
            BY <2>1 DEF TWSpawn
        <3>2. tw.pc = "spawn"
            BY <2>1 DEF TWSpawn
        <3> QED BY <1>0, <3>1, <3>2
    <2>2. CASE TWFire \/ TWGetDeployment \/ TWGetTask \/ TWPutRunning
        BY <2>2 DEF TWFire, TWGetDeployment, TWGetTask, TWPutRunning
    <2> QED BY <1>4, <2>1, <2>2 DEF TaskWorker
<1>5. ASSUME NEW u \in Tasks \ {t}, OneByOne(u) PROVE strategy'[t] = strategy[t]
    <2>1. \A r : strategy' = [strategy EXCEPT ![u] = r] => strategy'[t] = strategy[t]
        BY <1>0
    <2>2. CASE StrategyTargetHosts(u) \/ StrategyNextHost(u) \/ StrategyWaitOver(u)
               \/ StrategyLoopOver(u)
        BY <1>0, <2>2 DEF StrategyTargetHosts, StrategyNextHost, StrategyWaitOver,
           StrategyLoopOver, Goto, Exit
    <2>3. CASE StrategyDeploymentRunning(u) \/ StrategyTaskRunning(u) \/ StrategyResult(u)
        BY <1>0, <2>3 DEF StrategyDeploymentRunning, StrategyTaskRunning, StrategyResult,
           Get, PutTask, PutDeployment, PutStale, Goto, Exit
    <2>4. CASE StrategySkip(u)
        BY <1>0, <2>4 DEF StrategySkip, Get, PutTask, PutDeployment, PutStale, Goto, Exit
    <2> QED BY <1>5, <2>2, <2>3, <2>4 DEF OneByOne
<1>6. ASSUME NEW u \in Tasks, NEW h \in Hosts,
             Patch(u, h) \/ Outcome(u, h)
      PROVE  UNCHANGED strategy
    BY <1>6 DEF Patch, PatchUnreachable, PatchAccepted, PatchRefused, PatchAnswerLost,
       PatchCheck, Outcome, AgentReport, CreateTaskLog
<1>7. CASE Crashes
    BY <1>0, <1>7 DEF Crashes, DWCrash, TWCrash, StrategyCrash, PatchCrash, NodeRestart, Exit
<1> QED BY <1>1, <1>2, <1>3, <1>4, <1>5, <1>6, <1>7 DEF Next

LEMMA SkipMarkedNext ==
    ASSUME TypeOK, IInv, NEW t \in Tasks, SkipMarked(t), TaskRow(t), [Next]_vars
    PROVE  SkipMarked(t)'
<1>1. CASE strategy'[t] = strategy[t]
    BY <1>1 DEF SkipMarked, TaskRow, TaskLive, TaskStatus
<1>2. CASE strategy'[t] \in {NewStrategy, NoStrategy}
    BY <1>2 DEF SkipMarked, NewStrategy, NoStrategy
<1> QED BY <1>1, <1>2, SkipMarkedSteps, StrategyChanges

\* A task leaves its deployment only with it.
LEMMA TasksStay ==
    ASSUME TypeOK, NEW d \in Deployments, NEW t \in TasksOf(d), TaskRow(t),
           dstatus'[d] \in DeploymentStatus
    PROVE  /\ t \in TasksOf(d)'
           /\ tstatus[t] \in {"running", "skipped"} => tstatus'[t] \in {"running", "skipped"}
           /\ tstatus[t] = "skipped" => tstatus'[t] = "skipped"
<1>1. t \in Tasks /\ TaskLive(t) /\ tdep[t] = d
    BY DEF TasksOf
<1> QED BY <1>1 DEF TaskRow, TasksOf, TaskLive, TaskStatus

\* The deployment that the DeploymentWorker has in its hands.
LEMMA HeldNext ==
    ASSUME TypeOK, IInv, BackedInv, [Next]_vars,
           \A t \in Tasks : TaskRow(t), \A d \in Deployments : DeploymentRow(d)
    PROVE  (\A d \in dw.cur : dstatus[d] # "none" /\ (DeploymentLive(d) => TasksOf(d) # {}))'
<1> USE DEF dbVars, depVars, taskVars, procVars, agentVars
<1>0. dw \in DWType /\ dw.cur \subseteq Deployments
    BY DEF TypeOK, DWType
<1>1. ASSUME NEW d \in dw.cur
      PROVE  (dstatus[d] # "none" /\ (DeploymentLive(d) => TasksOf(d) # {}))'
    <2>1. d \in Deployments /\ dstatus[d] # "none" /\ (DeploymentLive(d) => TasksOf(d) # {})
        BY <1>0, <1>1 DEF BackedInv
    <2>2. dstatus'[d] # "none"
        BY <2>1, NoReturn
    <2>3. ASSUME DeploymentLive(d)' PROVE TasksOf(d)' # {}
        <3>1. dstatus'[d] \in DeploymentStatus
            BY <2>3 DEF DeploymentLive
        <3>2. DeploymentLive(d)
            BY <2>1, <3>1 DEF DeploymentRow, DeploymentLive
        <3>3. PICK t \in TasksOf(d) : TRUE
            BY <2>1, <3>2
        <3>4. TaskRow(t)
            BY <3>3 DEF TasksOf
        <3> QED BY <2>1, <3>1, <3>3, <3>4, TasksStay
    <2> QED BY <2>2, <2>3
<1>2. CASE DWCreateTask
    <2>0. \A item \in dw.todo :
            [dw EXCEPT !.pc = "get", !.todo = @ \ {item}, !.cur = {item.dep}].cur
              = {item.dep}
        BY <1>0 DEF DWType
    <2>1. PICK item \in dw.todo :
            \/ dw' = IdleDW
            \/ /\ DeploymentLive(item.dep)
               /\ dw' = [dw EXCEPT !.pc = "get", !.todo = @ \ {item}, !.cur = {item.dep}]
               /\ \E t \in Tasks : /\ tstatus' = [tstatus EXCEPT ![t] = "pending"]
                                   /\ tdep' = [tdep EXCEPT ![t] = item.dep]
        BY <1>2 DEF DWCreateTask
    <2>2. UNCHANGED dstatus
        BY <1>2 DEF DWCreateTask
    <2>3. CASE dw' = IdleDW
        BY <2>3 DEF IdleDW
    <2>4. ASSUME DeploymentLive(item.dep), dw'.cur = {item.dep}, NEW t \in Tasks,
                 tstatus' = [tstatus EXCEPT ![t] = "pending"],
                 tdep' = [tdep EXCEPT ![t] = item.dep]
          PROVE  (\A d \in dw.cur : dstatus[d] # "none"
                                    /\ (DeploymentLive(d) => TasksOf(d) # {}))'
        <3>1. tstatus'[t] = "pending" /\ tdep'[t] = item.dep
            BY <2>4 DEF TypeOK
        <3>2. t \in TasksOf(item.dep)'
            BY <3>1 DEF TasksOf, TaskLive, TaskStatus
        <3>3. dstatus'[item.dep] # "none"
            BY <2>2, <2>4 DEF DeploymentLive, DeploymentStatus
        <3> QED BY <2>4, <3>2, <3>3
    <2> QED BY <2>0, <2>1, <2>3, <2>4
<1>3. ASSUME dw'.cur \subseteq dw.cur
      PROVE  (\A d \in dw.cur : dstatus[d] # "none" /\ (DeploymentLive(d) => TasksOf(d) # {}))'
    BY <1>1, <1>3
<1>4. CASE DWFire \/ DWGetDeployment \/ DWPutPending
    <2>0. DWContinue.cur = {} /\ IdleDW.cur = {}
        BY DEF DWContinue, IdleDW
    <2>1. dw'.cur \in {dw.cur, {}}
        <3>1. CASE DWFire
            <4>1. \A todo : [dw EXCEPT !.pc = "next", !.todo = todo].cur = dw.cur
                BY <1>0 DEF DWType
            <4> QED BY <3>1, <4>1 DEF DWFire
        <3>2. CASE DWGetDeployment
            <4>1. \A seen : [dw EXCEPT !.pc = "put", !.seen = seen].cur = dw.cur
                BY <1>0 DEF DWType
            <4> QED BY <2>0, <3>2, <4>1 DEF DWGetDeployment
        <3>3. CASE DWPutPending
            BY <2>0, <3>3 DEF DWPutPending
        <3> QED BY <1>4, <3>1, <3>2, <3>3
    <2> QED BY <1>3, <2>1
<1>5. CASE ~DeploymentWorker
    <2>1. dw' = dw \/ dw' = IdleDW
        BY <1>5, StrategyRows DEF Next, Requests, CreateDeployment, UpdateDeployment,
           DeleteDeployment, ScheduleTimePasses, CreateHost, UpdateHost, DeleteHost,
           TaskWorker, TWFire, TWGetDeployment, TWGetTask, TWPutRunning, TWSpawn, Patch,
           PatchUnreachable, PatchAccepted, PatchRefused, PatchAnswerLost, PatchCheck,
           Outcome, AgentReport, CreateTaskLog, Crashes, DWCrash, TWCrash, StrategyCrash,
           PatchCrash, NodeRestart, vars
    <2>2. dw'.cur \subseteq dw.cur
        BY <2>1 DEF IdleDW
    <2> QED BY <1>3, <2>2
<1> QED BY <1>2, <1>4, <1>5 DEF DeploymentWorker

LEMMA BackedInit == Init => BackedInv
BY DEF Init, BackedInv, Housed, SkipMarked, StatusIsBacked, IdleDW, NoStrategy

LEMMA BackedNext == TypeOK /\ IInv /\ BackedInv /\ [Next]_vars => BackedInv'
<1> SUFFICES ASSUME TypeOK, IInv, BackedInv, [Next]_vars PROVE BackedInv'
    OBVIOUS
<1>0. /\ \A t \in Tasks : TaskRow(t)
      /\ \A d \in Deployments : DeploymentRow(d)
    BY Rows
<1>1. \A t \in Tasks : Housed(t)' /\ SkipMarked(t)'
    BY <1>0, HousedNext, SkipMarkedNext DEF BackedInv
<1>2. ASSUME NEW d \in Deployments
      PROVE  LET some(S) == \E t \in TasksOf(d)' : tstatus'[t] \in S IN
             /\ dstatus'[d] = "pending" => some(TaskStatus)
             /\ dstatus'[d] = "running" => some({"running", "skipped"})
             /\ dstatus'[d] = "skipped" => some({"skipped"})
    <2>0. \A t \in TasksOf(d) : t \in Tasks /\ TaskLive(t) /\ tdep[t] = d /\ TaskRow(t)
        BY <1>0 DEF TasksOf
    <2>l. \A t \in TasksOf(d)' : tstatus'[t] \in TaskStatus
        BY DEF TasksOf, TaskLive
    <2>1. CASE dstatus'[d] = dstatus[d] /\ dstatus[d] \in {"pending", "running", "skipped"}
        <3>1. dstatus'[d] \in DeploymentStatus
            BY <2>1 DEF DeploymentStatus
        <3>2. CASE dstatus[d] = "pending"
            <4>1. PICK t \in TasksOf(d) : TRUE
                BY <3>2 DEF BackedInv, StatusIsBacked
            <4>2. t \in TasksOf(d)'
                BY <2>0, <3>1, TasksStay
            <4> QED BY <2>1, <2>l, <3>2, <4>2
        <3>3. CASE dstatus[d] = "running"
            <4>1. PICK t \in TasksOf(d) : tstatus[t] \in {"running", "skipped"}
                BY <3>3 DEF BackedInv, StatusIsBacked
            <4>2. t \in TasksOf(d)' /\ tstatus'[t] \in {"running", "skipped"}
                BY <2>0, <3>1, <4>1, TasksStay
            <4> QED BY <2>1, <3>3, <4>2
        <3>4. CASE dstatus[d] = "skipped"
            <4>1. PICK t \in TasksOf(d) : tstatus[t] = "skipped"
                BY <3>4 DEF BackedInv, StatusIsBacked
            <4>2. t \in TasksOf(d)' /\ tstatus'[t] = "skipped"
                BY <2>0, <3>1, <4>1, TasksStay
            <4> QED BY <2>1, <3>4, <4>2
        <3> QED BY <2>1, <3>2, <3>3, <3>4
    <2>2. CASE DeploymentLive(d) /\ UNCHANGED <<tstatus, tdep>>
               /\ dstatus'[d] = "pending" /\ d \in dw.cur
        <3>1. TasksOf(d) # {} /\ TasksOf(d)' = TasksOf(d)
            BY <2>2 DEF BackedInv, TasksOf, TaskLive
        <3> QED BY <2>2, <2>l, <3>1
    <2>3. ASSUME DeploymentLive(d), UNCHANGED <<tstatus, tdep>>, NEW t \in Tasks, tdep[t] = d,
                 \/ strategy[t].pc = "putDep" /\ dstatus'[d] = "running"
                 \/ strategy[t].pc = "putDepSkip" /\ dstatus'[d] = "skipped"
          PROVE  /\ dstatus'[d] = "running" =>
                      \E u \in TasksOf(d)' : tstatus'[u] \in {"running", "skipped"}
                 /\ dstatus'[d] = "skipped" =>
                      \E u \in TasksOf(d)' : tstatus'[u] = "skipped"
                 /\ dstatus'[d] # "pending"
        <3>1. tstatus[t] # Erased
            BY <1>0, <2>3 DEF BackedInv, Housed, DeploymentLive, DeploymentStatus
        <3>2. CASE strategy[t].pc = "putDep" /\ dstatus'[d] = "running"
            <4>1. tstatus[t] = "running"
                BY <3>1, <3>2 DEF IInv, StrategyInv, Preparing
            <4>2. t \in TasksOf(d)' /\ tstatus'[t] = "running"
                BY <2>3, <4>1 DEF TasksOf, TaskLive, TaskStatus
            <4> QED BY <3>2, <4>2
        <3>3. CASE strategy[t].pc = "putDepSkip" /\ dstatus'[d] = "skipped"
            <4>1. tstatus[t] = "skipped"
                BY <3>1, <3>3 DEF BackedInv, SkipMarked
            <4>2. t \in TasksOf(d)' /\ tstatus'[t] = "skipped"
                BY <2>3, <4>1 DEF TasksOf, TaskLive, TaskStatus
            <4> QED BY <3>3, <4>2
        <3> QED BY <2>3, <3>2, <3>3
    <2>4. CASE dstatus'[d] \notin {"pending", "running", "skipped"}
        BY <2>4
    <2>5. CASE dstatus'[d] # dstatus[d] /\ dstatus'[d] \in {"pending", "running", "skipped"}
        BY <1>0, <2>2, <2>3, <2>5 DEF DeploymentRow
    <2> QED BY <2>1, <2>4, <2>5
<1>3. StatusIsBacked'
    BY <1>2 DEF StatusIsBacked
<1> QED BY <1>0, <1>1, <1>3, HeldNext DEF BackedInv

\* What the last_status of a deployment says is true of its tasks, although
\* three processes write it and rows are deleted under them.
THEOREM StatusStaysBacked == Spec => []StatusIsBacked
<1>1. Spec => []BackedInv
    BY BackedInit, BackedNext, TypeCorrect, Invariance, PTL DEF Spec
<1>2. BackedInv => StatusIsBacked
    BY DEF BackedInv
<1> QED BY <1>1, <1>2, PTL

----------------------------------------------------------------------------
\* A second task costs a crash

\* The invariant behind DuplicateNeedsCrash: a deployment that may still be
\* given a task (it is in the list of the fire, or unknown and not in the
\* DeploymentWorker's hands) has at most one task for each crash so far.
Offered(d) == d \in {i.dep : i \in dw.todo} \/ (dstatus[d] = "unknown" /\ d \notin dw.cur)

CountInv ==
    /\ dw.pc \in {"idle", "next"} => dw.cur = {}
    /\ \A d, e \in dw.cur : d = e
    /\ \A i \in dw.todo : i.dep \notin dw.cur
    /\ \A i, j \in dw.todo : i.dep = j.dep => i = j
    /\ dw.pc = "put" /\ dw.seen = "pending" => \A d \in dw.cur : dstatus[d] # "unknown"
    /\ \A d \in Deployments : Offered(d) => Cardinality(TasksOf(d)) <= crashes
    /\ DuplicateNeedsCrash

LEMMA FiniteTasks ==
    ASSUME NEW S \in SUBSET Tasks
    PROVE  /\ IsFiniteSet(S) /\ Cardinality(S) \in Nat
           /\ \A T \in SUBSET S : Cardinality(T) <= Cardinality(S)
           /\ S = {} => Cardinality(S) = 0
           /\ \A t : Cardinality(S \cup {t}) <= Cardinality(S) + 1
<1>1. IsFiniteSet(Tasks)
    BY BoundsAssumption, FS_Interval DEF Tasks
<1>2. IsFiniteSet(S)
    BY <1>1, FS_Subset
<1>3. \A T \in SUBSET S : Cardinality(T) <= Cardinality(S)
    BY <1>2, FS_Subset
<1>4. Cardinality(S) \in Nat
    BY <1>2, FS_CardinalityType
<1>5. \A t : Cardinality(S \cup {t}) \in {Cardinality(S), Cardinality(S) + 1}
    BY <1>2, FS_AddElement
<1>6. ASSUME NEW t PROVE Cardinality(S \cup {t}) <= Cardinality(S) + 1
    <2>1. Cardinality(S \cup {t}) \in {Cardinality(S), Cardinality(S) + 1}
        BY <1>5
    <2> QED BY <1>4, <2>1
<1>7. S = {} => Cardinality(S) = 0
    BY FS_EmptySet
<1> QED BY <1>2, <1>3, <1>4, <1>6, <1>7

\* Only the insert adds a task to a deployment.
LEMMA FewerTasks ==
    ASSUME TypeOK, ~DWCreateTask, \A t \in Tasks : TaskRow(t), NEW d \in Deployments
    PROVE  /\ TasksOf(d)' \subseteq TasksOf(d)
           /\ Cardinality(TasksOf(d)') <= Cardinality(TasksOf(d))
<1>1. TasksOf(d)' \subseteq TasksOf(d)
    BY DEF TaskRow, TasksOf, TaskLive, TaskStatus
<1>2. TasksOf(d) \in SUBSET Tasks
    BY DEF TasksOf
<1> QED BY <1>1, <1>2, FiniteTasks

LEMMA CountInit == Init => CountInv
<1> SUFFICES ASSUME Init PROVE CountInv
    OBVIOUS
<1>1. \A d : TasksOf(d) = {}
    BY DEF Init, TasksOf, TaskLive, TaskStatus
<1>2. \A d : Cardinality(TasksOf(d)) = 0
    BY <1>1, FS_EmptySet
<1>3. crashes = 0 /\ dw.pc = "idle" /\ dw.todo = {} /\ dw.cur = {}
    BY DEF Init, IdleDW
<1>4. DuplicateNeedsCrash /\ \A d \in Deployments : Cardinality(TasksOf(d)) <= crashes
    BY <1>2, <1>3 DEF DuplicateNeedsCrash
<1> QED BY <1>3, <1>4 DEF CountInv

\* Steps that leave the list of the worker alone.
LEMMA CountElsewhere ==
    ASSUME TypeOK, IInv, BackedInv, CountInv, UNCHANGED dw, ~DWCreateTask,
           crashes' \in {crashes, crashes + 1},
           \A t \in Tasks : TaskRow(t), \A d \in Deployments : DeploymentRow(d)
    PROVE  CountInv'
<1>1. \A d \in Deployments : /\ Cardinality(TasksOf(d)') <= Cardinality(TasksOf(d))
                             /\ Cardinality(TasksOf(d)) \in Nat
                             /\ Cardinality(TasksOf(d)') \in Nat
    <2>1. \A d : TasksOf(d) \in SUBSET Tasks /\ TasksOf(d)' \in SUBSET Tasks
        BY DEF TasksOf
    <2> QED BY <2>1, FewerTasks, FiniteTasks
<1>2. crashes \in Nat /\ crashes' \in Nat /\ crashes <= crashes'
    BY DEF TypeOK
<1>3. ASSUME NEW d \in Deployments, Offered(d)' PROVE Cardinality(TasksOf(d)') <= crashes'
    <2>1. CASE dstatus[d] = "none"
        <3>1. TasksOf(d) = {}
            BY <2>1 DEF BackedInv, Housed, TasksOf, TaskLive, TaskStatus
        <3>2. Cardinality(TasksOf(d)) = 0
            BY <3>1, FS_EmptySet
        <3> QED BY <1>1, <1>2, <3>2
    <2>2. CASE Offered(d)
        <3>1. Cardinality(TasksOf(d)) <= crashes
            BY <2>2 DEF CountInv
        <3> QED BY <1>1, <1>2, <3>1
    <2>3. dstatus[d] = "none" \/ Offered(d)
        BY <1>3, NoReturn DEF Offered
    <2> QED BY <2>1, <2>2, <2>3
<1>4. DuplicateNeedsCrash'
    BY <1>1, <1>2 DEF CountInv, DuplicateNeedsCrash
<1>5. ASSUME dw.pc = "put", dw.seen = "pending", NEW d \in dw.cur PROVE dstatus'[d] # "unknown"
    <2>1. d \in Deployments /\ dstatus[d] # "unknown" /\ dstatus[d] # "none"
        BY <1>5 DEF TypeOK, CountInv, BackedInv
    <2> QED BY <2>1, NoReturn
<1> QED BY <1>3, <1>4, <1>5 DEF CountInv

\* Steps of the worker that insert nothing: it suffices to look at its list.
LEMMA CountHere ==
    ASSUME TypeOK, CountInv, UNCHANGED <<tstatus, tdep>>,
           \/ UNCHANGED crashes
           \/ crashes' = crashes + 1 /\ dw' = IdleDW,
           dw'.cur \in {dw.cur, {}}, dw'.pc \in {"idle", "next"} => dw'.cur = {},
           dw'.pc = "put" /\ dw'.seen = "pending" =>
               \A d \in dw'.cur : dstatus'[d] # "unknown",
           \A i \in dw'.todo : i.dep \notin dw'.cur,
           \A i, j \in dw'.todo : i.dep = j.dep => i = j,
           UNCHANGED crashes => \A d \in Deployments : Offered(d)' => Offered(d)
    PROVE  CountInv'
<1>1. \A d : TasksOf(d)' = TasksOf(d) /\ TasksOf(d) \in SUBSET Tasks
    BY DEF TasksOf, TaskLive
<1>2. \A d : Cardinality(TasksOf(d)) \in Nat
    BY <1>1, FiniteTasks
<1>3. crashes \in Nat
    BY DEF TypeOK
<1>4. \A d \in Deployments : Cardinality(TasksOf(d)) <= 1 + crashes
    BY DEF CountInv, DuplicateNeedsCrash
<1>5. \A d \in Deployments : Offered(d)' => Cardinality(TasksOf(d)) <= crashes'
    BY <1>2, <1>3, <1>4 DEF CountInv
<1>6. DuplicateNeedsCrash'
    BY <1>1, <1>2, <1>3, <1>4 DEF DuplicateNeedsCrash
<1>7. \A d, e \in dw'.cur : d = e
    BY DEF CountInv
<1> QED BY <1>1, <1>5, <1>6, <1>7 DEF CountInv

LEMMA CountCreate ==
    ASSUME TypeOK, CountInv, DWCreateTask, \A t \in Tasks : TaskRow(t)
    PROVE  CountInv'
<1>0. /\ dw \in DWType /\ tstatus \in [Tasks -> TEntry] /\ tdep \in [Tasks -> Deployments]
      /\ dw.cur = {} /\ UNCHANGED <<dstatus, crashes>> /\ crashes \in Nat
    BY DEF TypeOK, DWType, TEntry, CountInv, DWCreateTask, depVars, boundVars
<1>1. PICK item \in dw.todo :
        \/ dw' = IdleDW /\ UNCHANGED taskVars
        \/ /\ DeploymentLive(item.dep)
           /\ dw' = [dw EXCEPT !.pc = "get", !.todo = @ \ {item}, !.cur = {item.dep}]
           /\ \E t \in Tasks : /\ NextTask(t)
                               /\ tstatus' = [tstatus EXCEPT ![t] = "pending"]
                               /\ tdep' = [tdep EXCEPT ![t] = item.dep]
    BY DEF DWCreateTask
<1>2. CASE dw' = IdleDW /\ UNCHANGED taskVars
    <2>1. dw'.pc = "idle" /\ dw'.todo = {} /\ dw'.cur = {}
        BY <1>2 DEF IdleDW
    <2>2. \A d \in Deployments : Offered(d)' => Offered(d)
        BY <1>0, <2>1 DEF Offered
    <2> QED BY <1>0, <1>2, <2>1, <2>2, CountHere DEF taskVars
<1>3. ASSUME DeploymentLive(item.dep),
             dw' = [dw EXCEPT !.pc = "get", !.todo = @ \ {item}, !.cur = {item.dep}],
             NEW t \in Tasks, NextTask(t),
             tstatus' = [tstatus EXCEPT ![t] = "pending"],
             tdep' = [tdep EXCEPT ![t] = item.dep]
      PROVE  CountInv'
    <2>1. dw'.pc = "get" /\ dw'.todo = dw.todo \ {item} /\ dw'.cur = {item.dep}
        BY <1>0, <1>3 DEF DWType
    <2>2. item.dep \in Deployments
        BY <1>0 DEF DWType
    <2>3. /\ \A u \in Tasks \ {t} : tstatus'[u] = tstatus[u] /\ tdep'[u] = tdep[u]
          /\ tstatus[t] = "none" /\ tdep'[t] = item.dep
        BY <1>0, <1>3 DEF NextTask
    <2>4. TasksOf(item.dep)' \subseteq TasksOf(item.dep) \cup {t}
        BY <2>3 DEF TasksOf, TaskLive
    <2>5. \A d \in Deployments \ {item.dep} : TasksOf(d)' \subseteq TasksOf(d)
        BY <2>3 DEF TasksOf, TaskLive
    <2>6. \A d : TasksOf(d) \in SUBSET Tasks /\ TasksOf(d)' \in SUBSET Tasks
        BY DEF TasksOf
    <2>7. \A d : Cardinality(TasksOf(d)) \in Nat /\ Cardinality(TasksOf(d)') \in Nat
        BY <2>6, FiniteTasks
    <2>8. Cardinality(TasksOf(item.dep)) <= crashes
        BY <2>2 DEF CountInv, Offered
    <2>9. Cardinality(TasksOf(item.dep)') <= 1 + crashes
        <3>1. TasksOf(item.dep) \cup {t} \in SUBSET Tasks
            BY <2>6
        <3>2. Cardinality(TasksOf(item.dep)') <= Cardinality(TasksOf(item.dep) \cup {t})
            BY <2>4, <3>1, FiniteTasks
        <3>3. Cardinality(TasksOf(item.dep) \cup {t}) <= Cardinality(TasksOf(item.dep)) + 1
            BY <2>6, FiniteTasks
        <3>4. Cardinality(TasksOf(item.dep) \cup {t}) \in Nat
            BY <3>1, FiniteTasks
        <3> QED BY <1>0, <2>7, <2>8, <3>2, <3>3, <3>4
    <2>10. \A d \in Deployments \ {item.dep} :
             Cardinality(TasksOf(d)') <= Cardinality(TasksOf(d))
        BY <2>5, <2>6, FiniteTasks
    <2>11. DuplicateNeedsCrash'
        BY <1>0, <2>7, <2>9, <2>10 DEF CountInv, DuplicateNeedsCrash
    <2>12. ASSUME NEW d \in Deployments, Offered(d)' PROVE Cardinality(TasksOf(d)') <= crashes
        <3>1. d # item.dep /\ Offered(d)
            BY <1>0, <2>1, <2>12 DEF Offered, CountInv
        <3>2. Cardinality(TasksOf(d)) <= crashes
            BY <3>1 DEF CountInv
        <3> QED BY <1>0, <2>7, <2>10, <3>1, <3>2
    <2>13. /\ \A i \in dw'.todo : i.dep \notin dw'.cur
           /\ \A i, j \in dw'.todo : i.dep = j.dep => i = j
        BY <2>1 DEF CountInv
    <2> QED BY <1>0, <2>1, <2>11, <2>12, <2>13 DEF CountInv
<1> QED BY <1>1, <1>2, <1>3

LEMMA CountNext == TypeOK /\ IInv /\ BackedInv /\ CountInv /\ [Next]_vars => CountInv'
<1> SUFFICES ASSUME TypeOK, IInv, BackedInv, CountInv, [Next]_vars PROVE CountInv'
    OBVIOUS
<1> USE DEF dbVars, depVars, taskVars, boundVars
<1>0. /\ \A t \in Tasks : TaskRow(t)
      /\ \A d \in Deployments : DeploymentRow(d)
      /\ dw \in DWType
    BY Rows DEF TypeOK, DWType
<1>e. ASSUME UNCHANGED dw, ~DWCreateTask, crashes' \in {crashes, crashes + 1} PROVE CountInv'
    BY <1>0, <1>e, CountElsewhere
<1>1. CASE DWCreateTask
    BY <1>0, <1>1, CountCreate
<1>2. CASE DWFire
    <2>1. /\ dw.pc = "idle" /\ UNCHANGED <<tstatus, tdep, dstatus, crashes>>
          /\ dw'.pc = "next" /\ dw'.cur = dw.cur
          /\ dw'.todo = {[dep |-> d, oversize |-> form[d].oversize] : d \in PendingOnce}
        <3>1. \A todo : LET r == [dw EXCEPT !.pc = "next", !.todo = todo]
                        IN  r.pc = "next" /\ r.cur = dw.cur /\ r.todo = todo
            BY <1>0 DEF DWType
        <3> QED BY <1>2, <3>1 DEF DWFire
    <2>2. dw.cur = {}
        BY <2>1 DEF CountInv
    <2>3. \A i \in dw'.todo : /\ i.dep \in PendingOnce
                              /\ i = [dep |-> i.dep, oversize |-> form[i.dep].oversize]
        BY <2>1
    <2>4. \A d \in Deployments : Offered(d)' => Offered(d)
        BY <2>1, <2>2, <2>3 DEF Offered, PendingOnce
    <2>5. \A i, j \in dw'.todo : i.dep = j.dep => i = j
        BY <2>3
    <2> QED BY <2>1, <2>2, <2>4, <2>5, CountHere
<1>3. CASE DWGetDeployment
    <2>0. /\ dw.pc = "get" /\ UNCHANGED <<tstatus, tdep, dstatus, crashes>>
          /\ dw.cur \subseteq Deployments
        BY <1>0, <1>3 DEF DWGetDeployment, DWType
    <2>1. PICK d \in dw.cur :
            dw' = IF DeploymentLive(d) THEN [dw EXCEPT !.pc = "put", !.seen = dstatus[d]]
                  ELSE DWContinue
        BY <1>3 DEF DWGetDeployment
    <2>2. CASE DeploymentLive(d)
        <3>1. /\ dw'.pc = "put" /\ dw'.cur = dw.cur /\ dw'.todo = dw.todo
              /\ dw'.seen = dstatus[d]
            BY <1>0, <2>1, <2>2 DEF DWType
        <3>2. dw'.seen = "pending" => \A e \in dw'.cur : dstatus'[e] # "unknown"
            BY <2>0, <3>1 DEF CountInv
        <3>3. \A e \in Deployments : Offered(e)' => Offered(e)
            BY <2>0, <3>1 DEF Offered
        <3>4. /\ \A i \in dw'.todo : i.dep \notin dw'.cur
              /\ \A i, j \in dw'.todo : i.dep = j.dep => i = j
            BY <3>1 DEF CountInv
        <3> QED BY <2>0, <3>1, <3>2, <3>3, <3>4, CountHere
    <2>3. CASE ~DeploymentLive(d)
        <3>1. dw'.pc \in {"idle", "next"} /\ dw'.cur = {} /\ dw'.todo = dw.todo
            BY <2>1, <2>3 DEF DWContinue, IdleDW
        <3>2. \A e \in dw.cur : dstatus[e] # "unknown"
            BY <2>3 DEF CountInv, DeploymentLive, DeploymentStatus
        <3>3. \A e \in Deployments : Offered(e)' => Offered(e)
            BY <2>0, <3>1, <3>2 DEF Offered
        <3>4. \A i, j \in dw'.todo : i.dep = j.dep => i = j
            BY <3>1 DEF CountInv
        <3> QED BY <2>0, <3>1, <3>3, <3>4, CountHere
    <2> QED BY <2>2, <2>3
<1>4. CASE DWPutPending
    <2>0. /\ dw.pc = "put" /\ UNCHANGED <<tstatus, tdep, crashes>>
          /\ dw.cur \subseteq Deployments /\ dstatus \in [Deployments -> DEntry]
        BY <1>0, <1>4 DEF DWPutPending, DWType, TypeOK, DEntry
    <2>1. PICK d \in dw.cur :
            IF DeploymentLive(d)
            THEN /\ dstatus' = IF dw.seen = "pending" THEN dstatus
                               ELSE [dstatus EXCEPT ![d] = "pending"]
                 /\ dw' = DWContinue
            ELSE dw' = IdleDW /\ UNCHANGED dstatus
        BY <1>4 DEF DWPutPending
    <2>2. /\ dw'.pc \in {"idle", "next"} /\ dw'.cur = {} /\ dw'.todo \in {dw.todo, {}}
        <3>1. /\ DWContinue.pc \in {"idle", "next"} /\ DWContinue.cur = {}
              /\ DWContinue.todo = dw.todo
            BY DEF DWContinue, IdleDW
        <3>2. IdleDW.pc = "idle" /\ IdleDW.cur = {} /\ IdleDW.todo = {}
            BY DEF IdleDW
        <3> QED BY <2>1, <3>1, <3>2
    <2>3. dstatus'[d] # "unknown" /\ d \in Deployments
        BY <2>0, <2>1 DEF CountInv, DeploymentLive, DeploymentStatus
    <2>4. \A e \in Deployments : dstatus'[e] = "unknown" => e \notin dw.cur /\ dstatus[e] = "unknown"
        <3>1. \A e \in Deployments \ {d} : dstatus'[e] = dstatus[e]
            BY <2>0, <2>1
        <3> QED BY <2>3, <3>1 DEF CountInv
    <2>5. \A e \in Deployments : Offered(e)' => Offered(e)
        BY <2>2, <2>4 DEF Offered
    <2>6. \A i, j \in dw'.todo : i.dep = j.dep => i = j
        BY <2>2 DEF CountInv
    <2> QED BY <2>0, <2>2, <2>5, <2>6, CountHere
<1>5. CASE DWCrash \/ NodeRestart
    <2>1. dw' = IdleDW /\ crashes' = crashes + 1 /\ UNCHANGED <<tstatus, tdep>>
        BY <1>5 DEF DWCrash, NodeRestart
    <2>2. dw'.pc = "idle" /\ dw'.cur = {} /\ dw'.todo = {}
        BY <2>1 DEF IdleDW
    <2>3. crashes' # crashes
        BY <2>1 DEF TypeOK
    <2> QED BY <2>1, <2>2, <2>3, CountHere
<1>6. CASE ~DeploymentWorker /\ ~DWCrash /\ ~NodeRestart
    <2>1. UNCHANGED dw /\ crashes' \in {crashes, crashes + 1}
        BY <1>6, StrategyRows DEF Next, Requests, CreateDeployment, UpdateDeployment,
           DeleteDeployment, ScheduleTimePasses, CreateHost, UpdateHost, DeleteHost,
           TaskWorker, TWFire, TWGetDeployment, TWGetTask, TWPutRunning, TWSpawn, Patch,
           PatchUnreachable, PatchAccepted, PatchRefused, PatchAnswerLost, PatchCheck,
           Outcome, AgentReport, CreateTaskLog, Crashes, TWCrash, StrategyCrash, PatchCrash,
           vars, procVars
    <2>2. ~DWCreateTask
        BY <1>6 DEF DeploymentWorker
    <2> QED BY <1>e, <2>1, <2>2
<1> QED BY <1>1, <1>2, <1>3, <1>4, <1>5, <1>6 DEF DeploymentWorker

\* However often the timer fires, whatever raises or is edited: a deployment
\* has at most one task more than there were crashes.
THEOREM DuplicatesCostCrashes == Spec => []DuplicateNeedsCrash
<1>1. Spec => [](BackedInv /\ CountInv)
    BY BackedInit, BackedNext, CountInit, CountNext, TypeCorrect, Invariance, PTL DEF Spec
<1>2. CountInv => DuplicateNeedsCrash
    BY DEF CountInv
<1> QED BY <1>1, <1>2, PTL

----------------------------------------------------------------------------
\* The result covers what was commanded

\* The invariant behind TotalCoversCommands: the hosts that were commanded,
\* are about to be or are still to come were all counted when the list was
\* read, and from the loop on the row has that count.
Reached(t) == Commanded(t) \cup strategy[t].hosts
                           \cup {h \in Hosts : patch[t][h] = "post"}

TotalInv(t) ==
    /\ strategy[t].pc \in (Preparing \ {"hosts"}) \cup {"loop", "wait"} =>
         Cardinality(Reached(t)) <= strategy[t].found
    /\ strategy[t].pc \in {"loop", "wait"} /\ TaskLive(t) =>
         total[t] = strategy[t].found
    /\ TaskLive(t) => Cardinality(Commanded(t)) <= total[t]

LEMMA FiniteHosts ==
    ASSUME NEW S \in SUBSET Hosts
    PROVE  /\ Cardinality(S) \in Nat
           /\ \A T \in SUBSET S : Cardinality(T) <= Cardinality(S)
           /\ S = {} => Cardinality(S) = 0
           /\ \A h : Cardinality(S \cup {h}) <= Cardinality(S) + 1
<1>1. IsFiniteSet(S)
    BY IdsAssumption, FS_Subset
<1>2. \A T \in SUBSET S : Cardinality(T) <= Cardinality(S)
    BY <1>1, FS_Subset
<1>3. Cardinality(S) \in Nat
    BY <1>1, FS_CardinalityType
<1>4. S = {} => Cardinality(S) = 0
    BY FS_EmptySet
<1>5. ASSUME NEW h PROVE Cardinality(S \cup {h}) <= Cardinality(S) + 1
    <2>1. Cardinality(S \cup {h}) \in {Cardinality(S), Cardinality(S) + 1}
        BY <1>1, FS_AddElement
    <2> QED BY <1>3, <2>1
<1> QED BY <1>2, <1>3, <1>4, <1>5

\* The ways a strategy moves: it ends, it reads its hosts, it goes from one
\* update to the next, it starts on a host, it is done with one.
Ends(t) == strategy'[t] = NoStrategy /\ UNCHANGED <<patch, total>>

Lists(t) ==
    /\ strategy[t].pc = "hosts" /\ strategy'[t].pc = "getDep"
    /\ strategy'[t].hosts = TargetHosts(tdep[t])
    /\ strategy'[t].found = Cardinality(TargetHosts(tdep[t]))
    /\ strategy'[t].at = strategy[t].at
    /\ UNCHANGED <<patch, total>>

Proceeds(t) ==
    /\ strategy'[t].hosts = strategy[t].hosts
    /\ strategy'[t].found = strategy[t].found
    /\ strategy'[t].at = strategy[t].at
    /\ UNCHANGED patch
    /\ \/ /\ strategy[t].pc \in Preparing \ {"hosts"}
          /\ strategy'[t].pc \in Preparing \ {"hosts"} /\ UNCHANGED total
       \/ /\ strategy[t].pc \in Preparing \ {"hosts"} /\ strategy'[t].pc = "loop"
          /\ ~TaskLive(t) /\ UNCHANGED total
       \/ /\ strategy[t].pc = "putResult" /\ strategy'[t].pc = "loop"
          /\ total' = [total EXCEPT ![t] = strategy[t].found]
       \/ strategy'[t].pc \in SkipSteps /\ UNCHANGED total

Starts(t, h) ==
    /\ h \in strategy[t].hosts /\ strategy[t].pc = "loop" /\ strategy'[t].pc = "wait"
    /\ strategy'[t].hosts = strategy[t].hosts \ {h}
    /\ strategy'[t].found = strategy[t].found
    /\ strategy'[t].at = {h}
    /\ patch' = [patch EXCEPT ![t][h] = "post"] /\ UNCHANGED total

Returns(t) ==
    /\ strategy[t].pc = "wait" /\ strategy'[t].pc = "loop"
    /\ strategy'[t].hosts = strategy[t].hosts
    /\ strategy'[t].found = strategy[t].found
    /\ strategy'[t].at = {}
    /\ UNCHANGED <<patch, total>>

LEMMA StrategyMoves ==
    ASSUME TypeOK, NEW t \in Tasks, OneByOne(t)
    PROVE  /\ UNCHANGED <<posts, commands, log, faults, crashes>>
           /\ \/ Ends(t) \/ Lists(t) \/ Proceeds(t) \/ Returns(t)
              \/ \E h \in Hosts : Starts(t, h)
<1> DEFINE Moved == \/ Ends(t) \/ Lists(t) \/ Proceeds(t) \/ Returns(t)
                    \/ \E h \in Hosts : Starts(t, h)
<1> USE DEF dbVars, taskVars, agentVars, boundVars
<1>0. strategy \in [Tasks -> SType] /\ strategy[t] \in SType
    BY Shapes
<1>1. UNCHANGED <<posts, commands, log, faults, crashes>>
    BY DEF OneByOne, StrategyTargetHosts, StrategyDeploymentRunning, StrategyTaskRunning,
       StrategyResult, StrategyNextHost, StrategyWaitOver, StrategyLoopOver, StrategySkip,
       Get, PutTask, PutDeployment
<1>g. SUFFICES Moved
    BY <1>1
<1>2. Exit(t) /\ UNCHANGED <<patch, total>> => Moved
    BY <1>0 DEF Exit, Ends
<1>3. ASSUME NEW pc, Goto(t, pc)
      PROVE  /\ strategy'[t].pc = pc /\ strategy'[t].hosts = strategy[t].hosts
             /\ strategy'[t].found = strategy[t].found
             /\ strategy'[t].at = strategy[t].at
    BY <1>0, <1>3 DEF Goto, SType
<1>4. ASSUME NEW pc, NEW live, NEW status, NEW put, NEW missing,
             Get(t, pc, live, status, put, missing)
      PROVE  /\ strategy[t].pc = pc /\ UNCHANGED <<patch, total>>
             /\ \/ /\ strategy'[t].pc = put /\ strategy'[t].hosts = strategy[t].hosts
                   /\ strategy'[t].found = strategy[t].found
                   /\ strategy'[t].at = strategy[t].at
                \/ ~live /\ missing
    <2>1. strategy[t].pc = pc /\ UNCHANGED <<patch, total>>
        BY <1>4 DEF Get
    <2>2. CASE live
        <3>1. strategy' = [strategy EXCEPT ![t] = [@ EXCEPT !.pc = put, !.seen = status]]
            BY <1>4, <2>2 DEF Get
        <3> QED BY <1>0, <2>1, <3>1 DEF SType
    <2>3. CASE ~live
        <3>1. missing
            BY <1>4, <2>3 DEF Get
        <3> QED BY <2>1, <2>3, <3>1
    <2> QED BY <2>2, <2>3
<1>5. CASE StrategyTargetHosts(t)
    <2>1. CASE DeploymentLive(tdep[t])
        <3> DEFINE targets == TargetHosts(tdep[t])
                   r == [strategy[t] EXCEPT !.pc = "getDep", !.hosts = targets,
                                            !.found = Cardinality(targets)]
        <3>1. strategy'[t] = r /\ strategy[t].pc = "hosts" /\ UNCHANGED <<patch, total>>
            BY <1>0, <1>5, <2>1 DEF StrategyTargetHosts
        <3>2. /\ r.pc = "getDep" /\ r.hosts = targets /\ r.found = Cardinality(targets)
              /\ r.at = strategy[t].at
            BY <1>0 DEF SType
        <3> HIDE DEF r
        <3> QED BY <3>1, <3>2 DEF Lists
    <2>2. CASE ~DeploymentLive(tdep[t])
        BY <1>2, <1>5, <2>2 DEF StrategyTargetHosts
    <2> QED BY <2>1, <2>2
<1>6. CASE StrategyDeploymentRunning(t)
    <2>1. CASE Get(t, "getDep", DeploymentLive(tdep[t]), dstatus[tdep[t]], "putDep",
                   Goto(t, "getTask"))
        BY <1>3, <1>4, <2>1 DEF Proceeds, Preparing
    <2>2. CASE PutDeployment(t, "putDep", "running", Goto(t, "getTask"))
        <3>1. strategy[t].pc = "putDep" /\ UNCHANGED <<patch, total>>
              /\ (Goto(t, "getTask") \/ Exit(t))
            BY <2>2 DEF PutDeployment, PutStale
        <3> QED BY <1>2, <1>3, <3>1 DEF Proceeds, Preparing
    <2> QED BY <1>6, <2>1, <2>2 DEF StrategyDeploymentRunning
<1>7. CASE StrategyTaskRunning(t)
    <2>1. CASE Get(t, "getTask", TaskLive(t), tstatus[t], "putTask",
                   Goto(t, "getResult"))
        BY <1>3, <1>4, <2>1 DEF Proceeds, Preparing
    <2>2. CASE PutTask(t, "putTask", "running", Goto(t, "getResult"))
        <3>1. strategy[t].pc = "putTask" /\ UNCHANGED <<patch, total>>
              /\ (Goto(t, "getResult") \/ Exit(t))
            BY <2>2 DEF PutTask, PutStale
        <3> QED BY <1>2, <1>3, <3>1 DEF Proceeds, Preparing
    <2> QED BY <1>7, <2>1, <2>2 DEF StrategyTaskRunning
<1>8. CASE StrategyResult(t)
    <2>1. CASE Get(t, "getResult", TaskLive(t), tstatus[t], "putResult", Goto(t, "loop"))
        BY <1>3, <1>4, <2>1 DEF Proceeds, Preparing
    <2>2. CASE ~Get(t, "getResult", TaskLive(t), tstatus[t], "putResult", Goto(t, "loop"))
        <3>1. /\ strategy[t].pc = "putResult" /\ UNCHANGED patch
              /\ \/ total' = [total EXCEPT ![t] = strategy[t].found] /\ Goto(t, "loop")
                 \/ UNCHANGED total /\ Exit(t)
                 \/ UNCHANGED total /\ ~TaskLive(t) /\ Goto(t, "loop")
            BY <1>8, <2>2 DEF StrategyResult
        <3> QED BY <1>2, <1>3, <3>1 DEF Proceeds, Preparing
    <2> QED BY <2>1, <2>2
<1>9. CASE StrategyWaitOver(t)
    <2> DEFINE r == [strategy[t] EXCEPT !.pc = "loop", !.at = {}]
    <2>1. strategy'[t] = r /\ strategy[t].pc = "wait" /\ UNCHANGED <<patch, total>>
        BY <1>0, <1>9 DEF StrategyWaitOver
    <2>2. /\ r.pc = "loop" /\ r.hosts = strategy[t].hosts /\ r.found = strategy[t].found
          /\ r.at = {}
        BY <1>0 DEF SType
    <2> HIDE DEF r
    <2> QED BY <2>1, <2>2 DEF Returns
<1>10. CASE StrategyNextHost(t)
    <2>1. PICK h \in strategy[t].hosts :
            /\ patch' = [patch EXCEPT ![t][h] = "post"]
            /\ strategy' = [strategy EXCEPT ![t] =
                 [@ EXCEPT !.pc = "wait", !.hosts = strategy[t].hosts \ {h}, !.at = {h}]]
        BY <1>10 DEF StrategyNextHost
    <2>2. h \in Hosts /\ strategy[t].pc = "loop" /\ UNCHANGED total
        BY <1>0, <1>10 DEF StrategyNextHost, SType
    <2>3. /\ strategy'[t].pc = "wait" /\ strategy'[t].at = {h}
          /\ strategy'[t].hosts = strategy[t].hosts \ {h}
          /\ strategy'[t].found = strategy[t].found
        BY <1>0, <2>1 DEF SType
    <2> QED BY <2>1, <2>2, <2>3 DEF Starts
<1>11. CASE StrategyLoopOver(t)
    <2>1. UNCHANGED <<patch, total>> /\ (Goto(t, "getTaskSkip") \/ Exit(t))
        BY <1>11 DEF StrategyLoopOver
    <2> QED BY <1>2, <1>3, <2>1 DEF Proceeds, SkipSteps
<1>12. CASE StrategySkip(t)
    <2>1. CASE Get(t, "getTaskSkip", TaskLive(t), tstatus[t], "putTaskSkip",
                   Goto(t, "getDepSkip"))
        BY <1>3, <1>4, <2>1 DEF Proceeds, SkipSteps
    <2>2. CASE PutTask(t, "putTaskSkip", "skipped", Goto(t, "getDepSkip"))
        <3>1. UNCHANGED <<patch, total>> /\ (Goto(t, "getDepSkip") \/ Exit(t))
            BY <2>2 DEF PutTask, PutStale
        <3> QED BY <1>2, <1>3, <3>1 DEF Proceeds, SkipSteps
    <2>3. CASE Get(t, "getDepSkip", DeploymentLive(tdep[t]), dstatus[tdep[t]],
                   "putDepSkip", Exit(t))
        BY <1>2, <1>4, <2>3 DEF Proceeds, SkipSteps
    <2>4. CASE PutDeployment(t, "putDepSkip", "skipped", Exit(t))
        BY <1>2, <2>4 DEF PutDeployment, PutStale
    <2> QED BY <1>12, <2>1, <2>2, <2>3, <2>4 DEF StrategySkip
<1> QED BY <1>5, <1>6, <1>7, <1>8, <1>9, <1>10, <1>11, <1>12 DEF OneByOne

\* The sets of hosts whose sizes are compared.
LEMMA ReachedHosts ==
    ASSUME TypeOK, NEW t \in Tasks
    PROVE  /\ Reached(t) \in SUBSET Hosts /\ Commanded(t) \in SUBSET Reached(t)
           /\ Cardinality(Reached(t)) \in Nat /\ Cardinality(Commanded(t)) \in Nat
           /\ \A S \in SUBSET Reached(t) :
                Cardinality(S) \in Nat /\ Cardinality(S) <= Cardinality(Reached(t))
<1>1. Reached(t) \in SUBSET Hosts /\ Commanded(t) \in SUBSET Reached(t)
    BY Shapes DEF Reached, Commanded, SType
<1>2. \A S \in SUBSET Reached(t) : S \in SUBSET Hosts
    BY <1>1
<1> QED BY <1>1, <1>2, FiniteHosts

Looping(t) == strategy[t].pc \in {"loop", "wait"}
Listed(t) == strategy[t].pc \in (Preparing \ {"hosts"}) \cup {"loop", "wait"}

\* A step that commands nobody and keeps the list and the result.
LEMMA TotalStays ==
    ASSUME TypeOK, NEW t \in Tasks, TotalInv(t), TaskLive(t)' => TaskLive(t),
           posts'[t] = posts[t], total'[t] = total[t],
           Listed(t)' => /\ Listed(t) /\ strategy'[t].found = strategy[t].found
                         /\ strategy'[t].hosts \subseteq strategy[t].hosts
                         /\ \A h \in Hosts : patch'[t][h] = "post" =>
                              patch[t][h] = "post" \/ h \in strategy[t].hosts,
           Looping(t)' => Looping(t) \/ ~TaskLive(t)
    PROVE  TotalInv(t)'
<1>1. Commanded(t)' = Commanded(t)
    BY DEF Commanded
<1>2. ASSUME Listed(t)' PROVE Cardinality(Reached(t)') <= strategy'[t].found
    <2>1. Reached(t)' \in SUBSET Reached(t)
        BY <1>1, <1>2 DEF Reached
    <2>2. Cardinality(Reached(t)') \in Nat /\ Cardinality(Reached(t)) \in Nat
          /\ Cardinality(Reached(t)') <= Cardinality(Reached(t))
        BY <2>1, ReachedHosts
    <2>3. strategy[t].found \in Nat
        BY Shapes DEF SType
    <2>4. Cardinality(Reached(t)) <= strategy[t].found
        BY <1>2 DEF TotalInv, Listed
    <2> QED BY <1>2, <2>2, <2>3, <2>4
<1>3. Looping(t)' /\ TaskLive(t)' => total'[t] = strategy'[t].found
    <2>1. Looping(t)' => Listed(t)'
        BY DEF Looping, Listed
    <2> QED BY <2>1 DEF TotalInv, Looping
<1>4. TaskLive(t)' => Cardinality(Commanded(t)') <= total'[t]
    BY <1>1 DEF TotalInv
<1> QED BY <1>2, <1>3, <1>4 DEF TotalInv, Listed, Looping

\* The steps of the strategy of t.
LEMMA TotalStrategy ==
    ASSUME TypeOK, IInv, NEW t \in Tasks, TotalInv(t), TaskLive(t)' => TaskLive(t),
           OneByOne(t)
    PROVE  TotalInv(t)'
<1>0. UNCHANGED posts /\ Commanded(t)' = Commanded(t)
    BY StrategyMoves DEF Commanded
<1>1. CASE Ends(t)
    <2>1. ~Listed(t)' /\ ~Looping(t)'
        BY <1>1 DEF Ends, Listed, Looping, NoStrategy, Preparing
    <2> QED BY <1>0, <1>1, <2>1, TotalStays DEF Ends
<1>2. CASE Lists(t)
    <2>1. Commanded(t) = {} /\ \A h \in Hosts : patch[t][h] = "none"
        BY <1>2 DEF Lists, IInv, StrategyInv, Untouched, Preparing, Commanded
    <2>2. Reached(t)' = TargetHosts(tdep[t])
        BY <1>0, <1>2, <2>1 DEF Lists, Reached
    <2>3. Cardinality(TargetHosts(tdep[t])) \in Nat
        BY TargetsFinite DEF TypeOK
    <2>4. TaskLive(t)' => Cardinality(Commanded(t)') <= total'[t]
        BY <1>0, <1>2 DEF Lists, TotalInv
    <2> QED BY <1>2, <2>2, <2>3, <2>4 DEF Lists, TotalInv
<1>3. CASE Proceeds(t)
    <2>1. Reached(t)' = Reached(t)
        BY <1>0, <1>3 DEF Proceeds, Reached
    <2>2. CASE strategy[t].pc = "putResult" /\ strategy'[t].pc = "loop"
               /\ total' = [total EXCEPT ![t] = strategy[t].found]
        <3>1. Commanded(t) = {} /\ Cardinality({}) = 0
            BY <2>2, FS_EmptySet DEF IInv, StrategyInv, Untouched, Preparing, Commanded
        <3>2. total'[t] = strategy'[t].found /\ strategy[t].found \in Nat
            BY <1>3, <2>2, Shapes DEF Proceeds, TypeOK, SType
        <3>3. Cardinality(Reached(t)) <= strategy[t].found
            BY <2>2 DEF TotalInv, Preparing
        <3>4. Cardinality(Commanded(t)') <= total'[t]
            BY <1>0, <1>3, <3>1, <3>2 DEF Proceeds
        <3> QED BY <1>3, <2>1, <2>2, <3>2, <3>3, <3>4 DEF Proceeds, TotalInv
    <2>3. CASE total' = total /\ strategy'[t].pc \in SkipSteps
        <3>1. ~Listed(t)' /\ ~Looping(t)'
            BY <2>3 DEF Listed, Looping, Preparing, SkipSteps
        <3> QED BY <1>0, <2>3, <3>1, TotalStays
    <2>4. CASE total' = total /\ strategy[t].pc \in Preparing \ {"hosts"}
               /\ \/ strategy'[t].pc \in Preparing \ {"hosts"}
                  \/ ~TaskLive(t) /\ strategy'[t].pc = "loop"
        <3>1. Listed(t) /\ (Looping(t)' => ~TaskLive(t))
            BY <2>4 DEF Listed, Looping, Preparing
        <3> QED BY <1>0, <1>3, <2>4, <3>1, TotalStays DEF Proceeds
    <2> QED BY <1>3, <2>2, <2>3, <2>4 DEF Proceeds
<1>4. CASE Returns(t)
    <2>1. Listed(t) /\ Looping(t)
        BY <1>4 DEF Returns, Listed, Looping
    <2> QED BY <1>0, <1>4, <2>1, TotalStays DEF Returns
<1>5. ASSUME NEW h \in Hosts, Starts(t, h) PROVE TotalInv(t)'
    <2>1. Listed(t) /\ Looping(t)
        BY <1>5 DEF Starts, Listed, Looping
    <2>2. \A g \in Hosts : patch'[t][g] = "post" => patch[t][g] = "post" \/ g \in strategy[t].hosts
        BY <1>5, Shapes DEF Starts
    <2> QED BY <1>0, <1>5, <2>1, <2>2, TotalStays DEF Starts
<1> QED BY <1>1, <1>2, <1>3, <1>4, <1>5, StrategyMoves

\* The steps of the PatchTasks of t.
LEMMA TotalPatch ==
    ASSUME TypeOK, IInv, NEW t \in Tasks, TotalInv(t), NEW h \in Hosts, Patch(t, h)
    PROVE  TotalInv(t)'
<1> USE DEF dbVars, taskVars, agentVars
<1>1. /\ UNCHANGED <<tstatus, total, strategy>> /\ patch[t][h] # "none"
      /\ \E new \in {"none", "poll"} : patch' = [patch EXCEPT ![t][h] = new]
      /\ \/ posts' = posts
         \/ patch[t][h] = "post" /\ posts' = [posts EXCEPT ![t][h] = @ + 1]
    BY DEF Patch, PatchUnreachable, PatchAccepted, PatchRefused, PatchAnswerLost,
           PatchCheck, PatchEnd
<1>2. \A g \in Hosts : patch'[t][g] = "post" => patch[t][g] = "post"
    BY <1>1, Shapes
<1>3. \A g \in Hosts : posts'[t][g] > 0 => posts[t][g] > 0 \/ (g = h /\ patch[t][h] = "post")
    BY <1>1, Shapes
<1>4. Commanded(t)' \in SUBSET Reached(t) /\ Reached(t)' \in SUBSET Reached(t)
    BY <1>1, <1>2, <1>3 DEF Commanded, Reached
<1>5. strategy[t].pc = "wait"
    BY <1>1 DEF IInv, StrategyInv
<1>6. Cardinality(Reached(t)) <= strategy[t].found
    BY <1>5 DEF TotalInv
<1>7. strategy[t].found \in Nat /\ Cardinality(Reached(t)) \in Nat
      /\ Cardinality(Reached(t)') \in Nat /\ Cardinality(Commanded(t)') \in Nat
      /\ Cardinality(Reached(t)') <= Cardinality(Reached(t))
      /\ Cardinality(Commanded(t)') <= Cardinality(Reached(t))
    BY <1>4, Shapes, ReachedHosts DEF SType
<1>8. Cardinality(Reached(t)') <= strategy[t].found
      /\ Cardinality(Commanded(t)') <= strategy[t].found
    BY <1>6, <1>7
<1>9. TaskLive(t)' => TaskLive(t) /\ total[t] = strategy[t].found
    BY <1>1, <1>5 DEF TaskLive, TotalInv
<1> QED BY <1>1, <1>8, <1>9 DEF TotalInv

\* A step that is not of the processes of t gives it no command and no result,
\* but for the row it starts with.
LEMMA TotalElsewhere ==
    ASSUME TypeOK, IInv, NEW t \in Tasks, [Next]_vars, ~OneByOne(t),
           \A h \in Hosts : ~Patch(t, h)
    PROVE  /\ posts'[t] = posts[t]
           /\ \A h \in Hosts : patch'[t][h] = "post" => patch[t][h] = "post"
           /\ \/ total'[t] = total[t]
              \/ tstatus[t] = "none" /\ total'[t] = 0
<1> DEFINE Quiet == /\ posts'[t] = posts[t]
                    /\ \A h \in Hosts : patch'[t][h] = "post" => patch[t][h] = "post"
                    /\ \/ total'[t] = total[t]
                       \/ tstatus[t] = "none" /\ total'[t] = 0
<1> SUFFICES Quiet
    OBVIOUS
<1> USE DEF dbVars, depVars, taskVars, procVars, agentVars
<1>1. UNCHANGED <<posts, patch, total>> => Quiet
    OBVIOUS
<1>2. CASE UNCHANGED vars \/ Requests
    BY <1>1, <1>2 DEF vars, Requests, CreateDeployment, UpdateDeployment, DeleteDeployment,
       ScheduleTimePasses, CreateHost, UpdateHost, DeleteHost
<1>3. CASE DeploymentWorker
    <2>1. CASE DWCreateTask
        <3>1. UNCHANGED <<posts, patch>>
            BY <2>1 DEF DWCreateTask
        <3>2. \/ UNCHANGED total
              \/ \E u \in Tasks : NextTask(u) /\ total' = [total EXCEPT ![u] = 0]
            BY <2>1 DEF DWCreateTask
        <3> QED BY <3>1, <3>2 DEF TypeOK, NextTask
    <2>2. CASE DWFire \/ DWGetDeployment \/ DWPutPending
        BY <1>1, <2>2 DEF DWFire, DWGetDeployment, DWPutPending
    <2> QED BY <1>3, <2>1, <2>2 DEF DeploymentWorker
<1>4. CASE TaskWorker
    BY <1>1, <1>4 DEF TaskWorker, TWFire, TWGetDeployment, TWGetTask, TWPutRunning, TWSpawn
<1>5. ASSUME NEW u \in Tasks, OneByOne(u) PROVE Quiet
    <2>1. u # t /\ UNCHANGED posts
        BY <1>5, StrategyMoves
    <2>2. \/ UNCHANGED patch
          \/ \E h \in Hosts : patch' = [patch EXCEPT ![u][h] = "post"]
        BY <1>5, StrategyMoves DEF Ends, Lists, Proceeds, Returns, Starts
    <2>3. UNCHANGED total \/ total' = [total EXCEPT ![u] = strategy[u].found]
        BY <1>5, StrategyMoves DEF Ends, Lists, Proceeds, Returns, Starts
    <2>4. patch'[t] = patch[t]
        BY <2>1, <2>2, Shapes
    <2>5. total'[t] = total[t]
        BY <2>1, <2>3 DEF TypeOK
    <2> QED BY <2>1, <2>4, <2>5
<1>6. ASSUME NEW u \in Tasks, NEW h \in Hosts, Patch(u, h) PROVE Quiet
    <2>1. u # t
        BY <1>6
    <2>2. /\ UNCHANGED total
          /\ \E new \in {"none", "poll"} : patch' = [patch EXCEPT ![u][h] = new]
          /\ posts' = posts \/ posts' = [posts EXCEPT ![u][h] = @ + 1]
        BY <1>6 DEF Patch, PatchUnreachable, PatchAccepted, PatchRefused, PatchAnswerLost,
           PatchCheck, PatchEnd
    <2>3. patch'[t] = patch[t]
        BY <2>1, <2>2, Shapes
    <2>4. posts'[t] = posts[t]
        BY <2>1, <2>2, Shapes
    <2> QED BY <2>2, <2>3, <2>4
<1>7. ASSUME NEW u \in Tasks, NEW h \in Hosts, Outcome(u, h)
      PROVE  Quiet
    BY <1>1, <1>7 DEF Outcome, AgentReport, CreateTaskLog
<1>8. CASE Crashes
    <2>1. ASSUME NEW u \in Tasks, NEW h \in Hosts, PatchCrash(u, h) PROVE Quiet
        <3>1. UNCHANGED <<posts, total>> /\ patch' = [patch EXCEPT ![u][h] = "none"]
            BY <2>1 DEF PatchCrash, PatchEnd
        <3>2. \A g \in Hosts : patch'[t][g] \in {patch[t][g], "none"}
            BY <3>1, Shapes
        <3> QED BY <3>1, <3>2
    <2>2. CASE NodeRestart
        <3>1. \A h \in Hosts : patch'[t][h] = "none"
            BY <2>2 DEF NodeRestart
        <3> QED BY <2>2, <3>1 DEF NodeRestart
    <2>3. CASE DWCrash \/ TWCrash \/ \E u \in Tasks : StrategyCrash(u)
        BY <1>1, <2>3 DEF DWCrash, TWCrash, StrategyCrash
    <2> QED BY <1>8, <2>1, <2>2, <2>3 DEF Crashes
<1> HIDE DEF Quiet
<1> QED BY <1>2, <1>3, <1>4, <1>5, <1>6, <1>7, <1>8 DEF Next

LEMMA TotalNext ==
    ASSUME TypeOK, IInv, [Next]_vars, NEW t \in Tasks, TotalInv(t)
    PROVE  TotalInv(t)'
<1>1. TaskRow(t) /\ tstatus \in [Tasks -> TEntry]
    BY Rows, Shapes
<1>2. CASE OneByOne(t)
    <2>1. UNCHANGED tstatus \/ tstatus[t] = "running"
        BY <1>2, StrategyRows
    <2>2. TaskLive(t)' => TaskLive(t)
        BY <2>1 DEF TaskLive, TaskStatus
    <2> QED BY <1>2, <2>2, TotalStrategy
<1>3. ASSUME NEW h \in Hosts, Patch(t, h) PROVE TotalInv(t)'
    BY <1>3, TotalPatch
<1>4. CASE ~OneByOne(t) /\ \A h \in Hosts : ~Patch(t, h)
    <2>1. /\ posts'[t] = posts[t]
          /\ \A h \in Hosts : patch'[t][h] = "post" => patch[t][h] = "post"
          /\ \/ total'[t] = total[t]
             \/ tstatus[t] = "none" /\ total'[t] = 0
        BY <1>4, TotalElsewhere
    <2>2. strategy'[t] = strategy[t] \/ strategy'[t] \in {NewStrategy, NoStrategy}
        BY <1>4, StrategyChanges
    <2>3. CASE tstatus[t] # "none"
        <3>1. TaskLive(t)' => TaskLive(t)
            BY <1>1, <2>3 DEF TaskRow, TaskLive, TaskStatus
        <3>2. strategy'[t] # strategy[t] => ~Listed(t)' /\ ~Looping(t)'
            BY <2>2 DEF Listed, Looping, NewStrategy, NoStrategy, Preparing
        <3>3. strategy'[t] = strategy[t] => (Listed(t)' <=> Listed(t)) /\ (Looping(t)' <=> Looping(t))
            BY DEF Listed, Looping
        <3>4. total'[t] = total[t]
            BY <2>1, <2>3
        <3> QED BY <2>1, <3>1, <3>2, <3>3, <3>4, TotalStays
    <2>4. CASE tstatus[t] = "none"
        <3>1. strategy[t].pc = "none" /\ \A h \in Hosts : posts[t][h] = 0
            BY <2>4 DEF IInv, WorkerInv, Fresh, Untouched
        <3>2. strategy'[t].pc \in {"none", "hosts"}
            BY <2>2, <3>1 DEF NewStrategy, NoStrategy
        <3>3. Commanded(t)' = {} /\ Cardinality({}) = 0
            BY <2>1, <3>1, FS_EmptySet DEF Commanded
        <3>4. total'[t] \in Nat
            BY <2>1 DEF TypeOK
        <3>5. Cardinality(Commanded(t)') <= total'[t]
            BY <3>3, <3>4
        <3> QED BY <3>2, <3>5 DEF TotalInv, Preparing
    <2> QED BY <2>3, <2>4
<1> QED BY <1>2, <1>3, <1>4

LEMMA TotalInit == Init => \A t \in Tasks : TotalInv(t)
<1> SUFFICES ASSUME Init, NEW t \in Tasks PROVE TotalInv(t)
    OBVIOUS
<1>1. strategy[t].pc = "none" /\ total[t] = 0
    BY DEF Init, NoStrategy
<1>2. Commanded(t) = {}
    BY DEF Init, Commanded
<1>3. Cardinality(Commanded(t)) <= total[t]
    BY <1>1, <1>2, FS_EmptySet
<1> QED BY <1>1, <1>3 DEF TotalInv, Preparing

\* The result of a task counts, from before its first command, every host it
\* commands, although the hosts and the filter are edited under it.
THEOREM TotalsCover == Spec => []TotalCoversCommands
<1> DEFINE Totals == \A t \in Tasks : TotalInv(t)
<1>1. TypeOK /\ IInv /\ Totals /\ [Next]_vars => Totals'
    BY TotalNext
<1>2. Init => Totals
    BY TotalInit
<1>3. Totals => TotalCoversCommands
    BY DEF TotalInv, TotalCoversCommands
<1> HIDE DEF Totals
<1> QED BY <1>1, <1>2, <1>3, TypeCorrect, Invariance, PTL DEF Spec

----------------------------------------------------------------------------
\* Two hosts at a time cost a fault or a crash

\* The invariant behind OverlapNeedsFault: a strategy waits for one host, a
\* command whose outcome is recorded is not being executed, and every host that is
\* patched without a PatchTask polling for it cost a fault or a crash.
Stray(t) == {h \in Patching(t) : patch[t][h] # "poll"}

OverlapInv(t) ==
    /\ \A g, h \in strategy[t].at : g = h
    /\ \A h \in Hosts : /\ <<t, h>> \in log => <<t, h>> \notin commands
                        /\ <<t, h>> \in log \cup commands => posts[t][h] > 0
    /\ Cardinality(Stray(t)) <= faults + crashes

\* What went wrong so far is a number.
LEMMA Spent == /\ TypeOK => faults + crashes \in Nat
               /\ TypeOK' => faults' + crashes' \in Nat
BY DEF TypeOK

\* One Stray host more costs one fault or crash more.
LEMMA OverlapStep ==
    ASSUME TypeOK, TypeOK', NEW t \in Tasks, OverlapInv(t),
           \A g, h \in strategy'[t].at : g = h,
           \A h \in Hosts : /\ <<t, h>> \in log' => <<t, h>> \notin commands'
                            /\ <<t, h>> \in log' \cup commands' => posts'[t][h] > 0,
           \/ Stray(t)' \subseteq Stray(t) /\ faults + crashes <= faults' + crashes'
           \/ \E h \in Hosts : /\ Stray(t)' \subseteq Stray(t) \cup {h}
                               /\ faults' + crashes' = faults + crashes + 1
    PROVE  OverlapInv(t)'
<1>1. Stray(t) \in SUBSET Hosts /\ Stray(t)' \in SUBSET Hosts
    BY DEF Stray, Patching
<1>2. Cardinality(Stray(t)) \in Nat /\ Cardinality(Stray(t)') \in Nat
    BY <1>1, FiniteHosts
<1>3. /\ Cardinality(Stray(t)) <= faults + crashes
      /\ faults + crashes \in Nat /\ faults' + crashes' \in Nat
    BY Spent DEF OverlapInv
<1>4. CASE Stray(t)' \subseteq Stray(t) /\ faults + crashes <= faults' + crashes'
    <2>1. Cardinality(Stray(t)') <= Cardinality(Stray(t))
        BY <1>1, <1>4, FiniteHosts
    <2>2. Cardinality(Stray(t)') <= faults' + crashes'
        BY <1>2, <1>3, <1>4, <2>1
    <2> QED BY <2>2 DEF OverlapInv
<1>5. ASSUME NEW h \in Hosts, Stray(t)' \subseteq Stray(t) \cup {h},
             faults' + crashes' = faults + crashes + 1
      PROVE  OverlapInv(t)'
    <2>1. Stray(t) \cup {h} \in SUBSET Hosts
        BY <1>1
    <2>2. Cardinality(Stray(t)') <= Cardinality(Stray(t) \cup {h})
        BY <1>5, <2>1, FiniteHosts
    <2>3. Cardinality(Stray(t) \cup {h}) <= Cardinality(Stray(t)) + 1
        BY <1>1, FiniteHosts
    <2>4. Cardinality(Stray(t) \cup {h}) \in Nat
        BY <2>1, FiniteHosts
    <2>5. Cardinality(Stray(t)') <= faults' + crashes'
        BY <1>2, <1>3, <1>5, <2>2, <2>3, <2>4
    <2> QED BY <2>5 DEF OverlapInv
<1> QED BY <1>4, <1>5

\* A strategy holds one host at a time.
LEMMA OneAtATime ==
    ASSUME TypeOK, [Next]_vars, NEW t \in Tasks, OverlapInv(t)
    PROVE  \A g, h \in strategy'[t].at : g = h
<1>1. \A g, h \in strategy[t].at : g = h
    BY DEF OverlapInv
<1>2. CASE OneByOne(t)
    BY <1>1, <1>2, StrategyMoves DEF Ends, Lists, Proceeds, Returns, Starts, NoStrategy
<1>3. CASE strategy'[t] = strategy[t] \/ strategy'[t] \in {NewStrategy, NoStrategy}
    BY <1>1, <1>3 DEF NewStrategy, NoStrategy
<1> QED BY <1>2, <1>3, StrategyChanges

\* A step that gives t no command and no outcome and takes no PatchTask away.
LEMMA OverlapStays ==
    ASSUME TypeOK, TypeOK', [Next]_vars, NEW t \in Tasks, OverlapInv(t),
           posts'[t] = posts[t], faults + crashes <= faults' + crashes',
           \A h \in Hosts : /\ <<t, h>> \in log' => <<t, h>> \in log
                            /\ <<t, h>> \in commands' => <<t, h>> \in commands
                            /\ patch[t][h] = "poll" => patch'[t][h] = "poll"
    PROVE  OverlapInv(t)'
<1>1. Stray(t)' \subseteq Stray(t)
    BY DEF Stray, Patching
<1>2. \A h \in Hosts : /\ <<t, h>> \in log' => <<t, h>> \notin commands'
                       /\ <<t, h>> \in log' \cup commands' => posts'[t][h] > 0
    BY DEF OverlapInv
<1> QED BY <1>1, <1>2, OneAtATime, OverlapStep

\* The steps of a PatchTask of t.
LEMMA OverlapPatch ==
    ASSUME TypeOK, TypeOK', IInv, NEW t \in Tasks, OverlapInv(t), NEW h \in Hosts,
           Patch(t, h)
    PROVE  OverlapInv(t)'
<1> USE DEF dbVars, procVars, agentVars, boundVars
<1>0. [Next]_vars
    BY DEF Next
<1>1. UNCHANGED <<log, strategy, crashes>>
    BY DEF Patch, PatchUnreachable, PatchAccepted, PatchRefused, PatchAnswerLost, PatchCheck
<1>2. crashes \in Nat /\ faults \in Nat
    BY DEF TypeOK
<1>3. \A g \in Hosts : /\ <<t, g>> \in log => <<t, g>> \notin commands
                       /\ <<t, g>> \in log \cup commands => posts[t][g] > 0
    BY DEF OverlapInv
<1>4. ASSUME patch[t][h] = "post" PROVE <<t, h>> \notin log /\ <<t, h>> \notin commands
    <2>1. posts[t][h] = 0
        BY <1>4 DEF IInv, StrategyInv
    <2> QED BY <1>3, <2>1
<1>5. ASSUME patch[t][h] = "post", posts' = [posts EXCEPT ![t][h] = @ + 1]
      PROVE  \A g \in Hosts : posts'[t][g] > 0 <=> posts[t][g] > 0 \/ g = h
    BY <1>5, Shapes
<1>6. CASE PatchUnreachable(t, h)
    <2>1. /\ patch[t][h] = "post" /\ posts' = [posts EXCEPT ![t][h] = @ + 1]
          /\ patch' = [patch EXCEPT ![t][h] = "none"] /\ UNCHANGED <<commands, faults>>
        BY <1>6 DEF PatchUnreachable, PatchEnd
    <2>2. Stray(t)' \subseteq Stray(t)
        BY <2>1, Shapes DEF Stray, Patching
    <2>3. \A g \in Hosts : /\ <<t, g>> \in log' => <<t, g>> \notin commands'
                           /\ <<t, g>> \in log' \cup commands' => posts'[t][g] > 0
        BY <1>1, <1>3, <1>5, <2>1
    <2> QED BY <1>0, <1>1, <1>2, <2>1, <2>2, <2>3, OneAtATime, OverlapStep
<1>7. CASE PatchAccepted(t, h)
    <2>1. /\ patch[t][h] = "post" /\ posts' = [posts EXCEPT ![t][h] = @ + 1]
          /\ patch' = [patch EXCEPT ![t][h] = "poll"]
          /\ commands' = commands \cup {<<t, h>>} /\ UNCHANGED faults
        BY <1>7 DEF PatchAccepted
    <2>2. patch'[t][h] = "poll" /\ \A g \in Hosts \ {h} : patch'[t][g] = patch[t][g]
        BY <2>1, Shapes
    <2>3. Stray(t)' \subseteq Stray(t)
        BY <2>1, <2>2 DEF Stray, Patching
    <2>4. \A g \in Hosts : /\ <<t, g>> \in log' => <<t, g>> \notin commands'
                           /\ <<t, g>> \in log' \cup commands' => posts'[t][g] > 0
        BY <1>1, <1>3, <1>4, <1>5, <2>1
    <2> QED BY <1>0, <1>1, <1>2, <2>1, <2>3, <2>4, OneAtATime, OverlapStep
<1>8. CASE PatchRefused(t, h)
    <2>1. /\ patch[t][h] = "post" /\ posts' = [posts EXCEPT ![t][h] = @ + 1]
          /\ patch' = [patch EXCEPT ![t][h] = "poll"]
          /\ commands' \in {commands, commands \cup {<<t, h>>}} /\ faults' = faults + 1
        BY <1>8 DEF PatchRefused
    <2>2. patch'[t][h] = "poll" /\ \A g \in Hosts \ {h} : patch'[t][g] = patch[t][g]
        BY <2>1, Shapes
    <2>3. Stray(t)' \subseteq Stray(t)
        BY <2>1, <2>2 DEF Stray, Patching
    <2>4. \A g \in Hosts : /\ <<t, g>> \in log' => <<t, g>> \notin commands'
                           /\ <<t, g>> \in log' \cup commands' => posts'[t][g] > 0
        BY <1>1, <1>3, <1>4, <1>5, <2>1
    <2>5. faults + crashes <= faults' + crashes'
        BY <1>1, <1>2, <2>1
    <2> QED BY <1>0, <2>3, <2>4, <2>5, OneAtATime, OverlapStep
<1>9. CASE PatchAnswerLost(t, h)
    <2>1. /\ patch[t][h] = "post" /\ posts' = [posts EXCEPT ![t][h] = @ + 1]
          /\ patch' = [patch EXCEPT ![t][h] = "none"]
          /\ commands' = commands \cup {<<t, h>>} /\ faults' = faults + 1
        BY <1>9 DEF PatchAnswerLost, PatchEnd
    <2>2. \A g \in Hosts \ {h} : patch'[t][g] = patch[t][g]
        BY <2>1, Shapes
    <2>3. Stray(t)' \subseteq Stray(t) \cup {h}
        BY <2>1, <2>2 DEF Stray, Patching
    <2>4. \A g \in Hosts : /\ <<t, g>> \in log' => <<t, g>> \notin commands'
                           /\ <<t, g>> \in log' \cup commands' => posts'[t][g] > 0
        BY <1>1, <1>3, <1>4, <1>5, <2>1
    <2>5. faults' + crashes' = faults + crashes + 1
        BY <1>1, <1>2, <2>1
    <2> QED BY <1>0, <2>3, <2>4, <2>5, OneAtATime, OverlapStep
<1>10. CASE PatchCheck(t, h)
    <2>1. /\ <<t, h>> \in log /\ patch' = [patch EXCEPT ![t][h] = "none"]
          /\ UNCHANGED <<posts, commands, faults>>
        BY <1>10 DEF PatchCheck, PatchEnd
    <2>2. \A g \in Hosts \ {h} : patch'[t][g] = patch[t][g]
        BY <2>1, Shapes
    <2>3. <<t, h>> \notin commands
        BY <1>3, <2>1
    <2>4. Stray(t)' \subseteq Stray(t)
        BY <2>1, <2>2, <2>3 DEF Stray, Patching
    <2>5. \A g \in Hosts : /\ <<t, g>> \in log' => <<t, g>> \notin commands'
                           /\ <<t, g>> \in log' \cup commands' => posts'[t][g] > 0
        BY <1>1, <1>3, <2>1
    <2> QED BY <1>0, <1>1, <1>2, <2>1, <2>4, <2>5, OneAtATime, OverlapStep
<1> QED BY <1>6, <1>7, <1>8, <1>9, <1>10 DEF Patch

LEMMA OverlapNext ==
    ASSUME TypeOK, TypeOK', IInv, [Next]_vars, NEW t \in Tasks, OverlapInv(t)
    PROVE  OverlapInv(t)'
<1> USE DEF dbVars, depVars, taskVars, procVars, agentVars, boundVars
<1>2. crashes \in Nat /\ faults \in Nat /\ log \subseteq Tasks \X Hosts
    BY DEF TypeOK
<1>3. \A g \in Hosts : /\ <<t, g>> \in log => <<t, g>> \notin commands
                       /\ <<t, g>> \in log \cup commands => posts[t][g] > 0
    BY DEF OverlapInv
<1>4. ASSUME UNCHANGED <<patch, posts, commands, faults, crashes>>, log' \subseteq log
      PROVE  OverlapInv(t)'
    BY <1>2, <1>4, OverlapStays
<1>5. CASE UNCHANGED vars
    BY <1>4, <1>5 DEF vars
<1>6. CASE Requests
    BY <1>4, <1>6 DEF Requests, CreateDeployment, UpdateDeployment, DeleteDeployment,
       ScheduleTimePasses, CreateHost, UpdateHost, DeleteHost
<1>7. CASE DeploymentWorker \/ TaskWorker
    BY <1>4, <1>7 DEF DeploymentWorker, DWFire, DWCreateTask, DWGetDeployment, DWPutPending,
       TaskWorker, TWFire, TWGetDeployment, TWGetTask, TWPutRunning, TWSpawn
<1>8. ASSUME NEW u \in Tasks, OneByOne(u) PROVE OverlapInv(t)'
    <2>1. UNCHANGED <<posts, commands, log, faults, crashes>>
        BY <1>8, StrategyMoves
    <2>2. CASE UNCHANGED patch
        BY <1>4, <2>1, <2>2
    <2>3. ASSUME NEW h \in Hosts, Starts(u, h) PROVE OverlapInv(t)'
        <3>1. patch[u][h] = "none" /\ patch' = [patch EXCEPT ![u][h] = "post"]
            BY <2>3 DEF Starts, IInv, StrategyInv
        <3>2. \A g \in Hosts : patch[t][g] = "poll" => patch'[t][g] = "poll"
            BY <3>1, Shapes
        <3> QED BY <1>2, <2>1, <3>2, OverlapStays
    <2> QED BY <1>8, <2>2, <2>3, StrategyMoves DEF Ends, Lists, Proceeds, Returns
<1>9. ASSUME NEW u \in Tasks, NEW h \in Hosts, Patch(u, h) PROVE OverlapInv(t)'
    <2>1. CASE u = t
        BY <1>9, <2>1, OverlapPatch
    <2>2. CASE u # t
        <3>1. /\ UNCHANGED <<log, crashes>> /\ faults' \in {faults, faults + 1}
              /\ \E new \in {"none", "poll"} : patch' = [patch EXCEPT ![u][h] = new]
              /\ posts' = posts \/ posts' = [posts EXCEPT ![u][h] = @ + 1]
              /\ commands' \in {commands, commands \cup {<<u, h>>}}
            BY <1>9 DEF Patch, PatchUnreachable, PatchAccepted, PatchRefused,
               PatchAnswerLost, PatchCheck, PatchEnd
        <3>2. patch'[t] = patch[t] /\ posts'[t] = posts[t]
            BY <2>2, <3>1, Shapes
        <3>3. \A g \in Hosts : <<t, g>> \in commands' => <<t, g>> \in commands
            BY <2>2, <3>1
        <3>4. faults + crashes <= faults' + crashes'
            BY <1>2, <3>1
        <3> QED BY <3>1, <3>2, <3>3, <3>4, OverlapStays
    <2> QED BY <2>1, <2>2
<1>10. ASSUME NEW u \in Tasks, NEW h \in Hosts, Outcome(u, h)
       PROVE  OverlapInv(t)'
    <2>1. /\ UNCHANGED <<patch, posts, faults, crashes>>
          /\ \/ log' = log /\ commands' = commands \ {<<u, h>>}
             \/ /\ log' = log \cup {<<u, h>>} /\ commands' = commands
                /\ posts[u][h] > 0 /\ <<u, h>> \notin commands
        BY <1>10 DEF Outcome, AgentReport, CreateTaskLog
    <2>2. Stray(t)' \subseteq Stray(t)
        BY <2>1 DEF Stray, Patching
    <2>3. \A g \in Hosts : /\ <<t, g>> \in log' => <<t, g>> \notin commands'
                           /\ <<t, g>> \in log' \cup commands' => posts'[t][g] > 0
        BY <1>3, <2>1
    <2>4. faults + crashes <= faults' + crashes'
        BY <1>2, <2>1
    <2> QED BY <2>2, <2>3, <2>4, OneAtATime, OverlapStep
<1>11. ASSUME UNCHANGED <<posts, commands, log, faults>>, crashes' = crashes + 1,
              \/ Stray(t)' \subseteq Stray(t)
              \/ \E h \in Hosts : Stray(t)' \subseteq Stray(t) \cup {h}
       PROVE  OverlapInv(t)'
    <2>1. faults' + crashes' = faults + crashes + 1 /\ faults + crashes <= faults' + crashes'
        BY <1>2, <1>11
    <2>2. \A g \in Hosts : /\ <<t, g>> \in log' => <<t, g>> \notin commands'
                           /\ <<t, g>> \in log' \cup commands' => posts'[t][g] > 0
        BY <1>3, <1>11
    <2> QED BY <1>11, <2>1, <2>2, OneAtATime, OverlapStep
<1>12. CASE Crashes
    <2>1. CASE DWCrash \/ TWCrash \/ \E u \in Tasks : StrategyCrash(u)
        <3>1. UNCHANGED <<patch, posts, commands, log, faults>> /\ crashes' = crashes + 1
            BY <2>1 DEF DWCrash, TWCrash, StrategyCrash
        <3>2. Stray(t)' \subseteq Stray(t)
            BY <3>1 DEF Stray, Patching
        <3> QED BY <1>11, <3>1, <3>2
    <2>2. ASSUME NEW u \in Tasks, NEW h \in Hosts, PatchCrash(u, h) PROVE OverlapInv(t)'
        <3>1. /\ UNCHANGED <<posts, commands, log, faults>> /\ crashes' = crashes + 1
              /\ patch' = [patch EXCEPT ![u][h] = "none"]
            BY <2>2 DEF PatchCrash, PatchEnd
        <3>2. \A g \in Hosts \ {h} : patch'[t][g] = patch[t][g]
            BY <3>1, Shapes
        <3>3. Stray(t)' \subseteq Stray(t) \cup {h}
            BY <3>1, <3>2 DEF Stray, Patching
        <3> QED BY <1>11, <3>1, <3>3
    <2>3. CASE NodeRestart
        <3>1. UNCHANGED <<posts, commands, log, faults>> /\ crashes' = crashes + 1
            BY <2>3 DEF NodeRestart
        <3>2. \A h \in Hosts : patch[t][h] = "poll" => h \in strategy[t].at
            BY DEF IInv, StrategyInv
        <3>3. Stray(t)' \subseteq Stray(t) \cup strategy[t].at
            BY <3>1, <3>2 DEF Stray, Patching
        <3>4. strategy[t].at \subseteq Hosts /\ \A g, h \in strategy[t].at : g = h
            BY Shapes DEF OverlapInv, SType
        <3>5. strategy[t].at = {} \/ \E h \in Hosts : strategy[t].at = {h}
            BY <3>4
        <3> QED BY <1>11, <3>1, <3>3, <3>5
    <2> QED BY <1>12, <2>1, <2>2, <2>3 DEF Crashes
<1> QED BY <1>5, <1>6, <1>7, <1>8, <1>9, <1>10, <1>12 DEF Next

LEMMA OverlapInit == Init => \A t \in Tasks : OverlapInv(t)
<1> SUFFICES ASSUME Init, NEW t \in Tasks PROVE OverlapInv(t)
    OBVIOUS
<1>1. strategy[t].at = {} /\ log = {} /\ commands = {} /\ faults = 0 /\ crashes = 0
    BY DEF Init, NoStrategy
<1>2. Stray(t) = {}
    BY <1>1 DEF Stray, Patching
<1>3. Cardinality(Stray(t)) <= faults + crashes
    BY <1>1, <1>2, FS_EmptySet
<1> QED BY <1>1, <1>3 DEF OverlapInv

\* A task patches one host at a time, and one more for each lost answer and
\* each process that died.
THEOREM OverlapsCostFaults == Spec => []OverlapNeedsFault
<1> DEFINE Overlaps == \A t \in Tasks : OverlapInv(t)
<1>1. TypeOK /\ TypeOK' /\ IInv /\ Overlaps /\ [Next]_vars => Overlaps'
    BY OverlapNext
<1>2. Init => Overlaps
    BY OverlapInit
<1>3. TypeOK /\ IInv /\ Overlaps => OverlapNeedsFault
    <2> SUFFICES ASSUME TypeOK, IInv, Overlaps, NEW t \in Tasks
                 PROVE  Cardinality(Patching(t)) <= 1 + faults + crashes
        BY DEF OverlapNeedsFault
    <2>1. /\ \A g, h \in strategy[t].at : g = h
          /\ Cardinality(Stray(t)) <= faults + crashes
        BY DEF OverlapInv
    <2>2. \A h \in Hosts : patch[t][h] = "poll" => h \in strategy[t].at
        BY DEF IInv, StrategyInv
    <2>3. Stray(t) \in SUBSET Hosts /\ Patching(t) \in SUBSET Hosts
        BY DEF Stray, Patching
    <2>4. /\ Cardinality(Patching(t)) \in Nat /\ Cardinality(Stray(t)) \in Nat
          /\ faults \in Nat /\ crashes \in Nat
        BY <2>3, FiniteHosts DEF TypeOK
    <2>5. CASE Patching(t) = Stray(t)
        BY <2>1, <2>4, <2>5
    <2>6. CASE Patching(t) # Stray(t)
        <3>1. PICK h \in Patching(t) : patch[t][h] = "poll"
            BY <2>6 DEF Stray
        <3>2. Patching(t) \subseteq Stray(t) \cup {h} /\ Stray(t) \cup {h} \in SUBSET Hosts
            BY <2>1, <2>2, <2>3, <3>1 DEF Stray
        <3>3. /\ Cardinality(Stray(t) \cup {h}) \in Nat
              /\ Cardinality(Patching(t)) <= Cardinality(Stray(t) \cup {h})
              /\ Cardinality(Stray(t) \cup {h}) <= Cardinality(Stray(t)) + 1
            BY <2>3, <3>2, FiniteHosts
        <3> QED BY <2>1, <2>4, <3>3
    <2> QED BY <2>5, <2>6
<1> HIDE DEF Overlaps
<1> QED BY <1>1, <1>2, <1>3, TypeCorrect, Invariance, PTL DEF Spec

----------------------------------------------------------------------------
\* The safety half of OnlyPollsWait and PendingStarts: nothing makes a process
\* go on for ever, and nothing starts one again.

\* What is left of a rollout: the updates before its loop, two steps for each
\* host on its list, and the skip.
Stage == [none |-> 0, putDepSkip |-> 1, getDepSkip |-> 2, putTaskSkip |-> 3,
          getTaskSkip |-> 4, loop |-> 5, wait |-> 6, putResult |-> 6,
          getResult |-> 7, putTask |-> 8, getTask |-> 9, putDep |-> 10,
          getDep |-> 11]

StepsLeft(t) ==
    IF strategy[t].pc = "hosts" THEN 12 + 2 * Cardinality(Hosts)
    ELSE Stage[strategy[t].pc] + 2 * Cardinality(strategy[t].hosts)

RolloutAdvances ==
    \A t \in Tasks : strategy[t].pc # "none" =>
        strategy'[t] = strategy[t] \/ StepsLeft(t)' < StepsLeft(t)

\* What is left of a fire of the TaskWorker: three statements and a spawn for
\* each task on its list.
FireLeft ==
    CASE tw.pc = "idle"  -> 0
      [] tw.pc = "next"  -> 1 + 4 * Cardinality(tw.todo)
      [] tw.pc = "spawn" -> 2 + 4 * Cardinality(tw.todo)
      [] tw.pc = "put"   -> 3 + 4 * Cardinality(tw.todo)
      [] tw.pc = "get"   -> 4 + 4 * Cardinality(tw.todo)

FireAdvances == tw.pc # "idle" => tw' = tw \/ FireLeft' < FireLeft

\* A rollout that has ended, or that was lost between the mark of its task and
\* its spawn.
Over(t) ==
    /\ tstatus[t] \notin {"none", "pending"}
    /\ strategy[t].pc = "none"
    /\ t \notin tw.todo \cup tw.cur

NeverResumed ==
    \A t \in Tasks : Over(t) => Over(t)' /\ posts'[t] = posts[t]

\* The list of a strategy is finite, and every stage is a number.
LEMMA StepsAreFinite ==
    ASSUME TypeOK, NEW t \in Tasks
    PROVE  /\ Cardinality(Hosts) \in Nat /\ Cardinality(strategy[t].hosts) \in Nat
           /\ \A S \in SUBSET Hosts : Cardinality(S) \in Nat
                                      /\ Cardinality(S) <= Cardinality(Hosts)
           /\ strategy[t].pc # "hosts" => Stage[strategy[t].pc] \in 0..11
           /\ strategy[t].pc \notin {"none", "hosts"} => Stage[strategy[t].pc] > 0
           /\ StepsLeft(t) \in Nat /\ StepsLeft(t) <= 12 + 2 * Cardinality(Hosts)
           /\ strategy[t].pc # "none" => StepsLeft(t) > 0
<1>1. strategy[t] \in SType
    BY Shapes
<1>2. strategy[t].hosts \in SUBSET Hosts /\ strategy[t].pc \in StrategyPc
    BY <1>1 DEF SType
<1>3. \A S \in SUBSET Hosts : Cardinality(S) \in Nat
                              /\ Cardinality(S) <= Cardinality(Hosts)
    BY FiniteHosts
<1>4. Cardinality(Hosts) \in Nat /\ Cardinality(strategy[t].hosts) \in Nat
      /\ Cardinality(strategy[t].hosts) <= Cardinality(Hosts)
    BY <1>2, <1>3
<1>5. /\ strategy[t].pc # "hosts" => Stage[strategy[t].pc] \in 0..11
      /\ strategy[t].pc \notin {"none", "hosts"} => Stage[strategy[t].pc] > 0
    BY <1>2 DEF StrategyPc, StrategyDbSteps, Stage
<1>6. /\ StepsLeft(t) \in Nat /\ StepsLeft(t) <= 12 + 2 * Cardinality(Hosts)
      /\ strategy[t].pc # "none" => StepsLeft(t) > 0
    <2>1. CASE strategy[t].pc = "hosts"
        BY <1>4, <2>1 DEF StepsLeft
    <2>2. CASE strategy[t].pc # "hosts"
        BY <1>4, <1>5, <2>2 DEF StepsLeft
    <2> QED BY <2>1, <2>2
<1> QED BY <1>3, <1>4, <1>5, <1>6

\* From one stage to a later one, with the same list.
LEMMA NextStage ==
    ASSUME TypeOK, NEW t \in Tasks, strategy[t].pc \notin {"none", "hosts"},
           NEW pc \in StrategyPc \ {"hosts"}, strategy'[t].pc = pc,
           strategy'[t].hosts = strategy[t].hosts, Stage[pc] < Stage[strategy[t].pc]
    PROVE  StepsLeft(t)' < StepsLeft(t)
<1>1. Stage[pc] \in 0..11
    BY DEF StrategyPc, StrategyDbSteps, Stage
<1>2. /\ StepsLeft(t)' = Stage[pc] + 2 * Cardinality(strategy[t].hosts)
      /\ StepsLeft(t) = Stage[strategy[t].pc] + 2 * Cardinality(strategy[t].hosts)
    BY DEF StepsLeft
<1> QED BY <1>1, <1>2, StepsAreFinite

LEMMA NoStage ==
    ASSUME TypeOK, NEW t \in Tasks, strategy[t].pc # "none", strategy'[t] = NoStrategy
    PROVE  StepsLeft(t)' < StepsLeft(t)
<1>1. strategy'[t].pc = "none" /\ strategy'[t].hosts = {} /\ Cardinality({}) = 0
    BY FS_EmptySet DEF NoStrategy
<1>2. StepsLeft(t)' = 0
    BY <1>1 DEF StepsLeft, Stage
<1> QED BY <1>2, StepsAreFinite

\* Every step of a strategy brings it nearer to its end.
LEMMA StrategyAdvances ==
    ASSUME TypeOK, NEW t \in Tasks, OneByOne(t)
    PROVE  StepsLeft(t)' < StepsLeft(t)
<1> DEFINE Closer == StepsLeft(t)' < StepsLeft(t)
<1>0. strategy \in [Tasks -> SType] /\ strategy[t] \in SType
    BY Shapes
<1>1. Exit(t) => strategy'[t] = NoStrategy
    BY <1>0 DEF Exit
<1>2. ASSUME NEW pc, Goto(t, pc)
      PROVE  strategy'[t].pc = pc /\ strategy'[t].hosts = strategy[t].hosts
    BY <1>0, <1>2 DEF Goto, SType
<1>3. ASSUME NEW pc, NEW live, NEW status, NEW put, NEW missing,
             Get(t, pc, live, status, put, missing)
      PROVE  /\ strategy[t].pc = pc
             /\ \/ strategy'[t].pc = put /\ strategy'[t].hosts = strategy[t].hosts
                \/ missing
    <2>1. strategy[t].pc = pc
        BY <1>3 DEF Get
    <2>2. CASE live
        <3>1. strategy' = [strategy EXCEPT ![t] = [@ EXCEPT !.pc = put, !.seen = status]]
            BY <1>3, <2>2 DEF Get
        <3> QED BY <1>0, <2>1, <3>1 DEF SType
    <2>3. CASE ~live
        <3>1. missing
            BY <1>3, <2>3 DEF Get
        <3> QED BY <2>1, <3>1
    <2> QED BY <2>2, <2>3
<1> USE DEF StrategyPc, StrategyDbSteps, Stage
<1>4. CASE StrategyTargetHosts(t)
    <2>1. strategy[t].pc = "hosts"
        BY <1>4 DEF StrategyTargetHosts
    <2>2. CASE DeploymentLive(tdep[t])
        <3> DEFINE targets == TargetHosts(tdep[t])
        <3>1. targets \in SUBSET Hosts
            BY DEF TargetHosts
        <3>2. strategy'[t].pc = "getDep" /\ strategy'[t].hosts = targets
            <4> DEFINE r == [strategy[t] EXCEPT !.pc = "getDep", !.hosts = targets,
                                                !.found = Cardinality(targets)]
            <4>1. strategy'[t] = r
                BY <1>0, <1>4, <2>2 DEF StrategyTargetHosts
            <4>2. r.pc = "getDep" /\ r.hosts = targets
                BY <1>0 DEF SType
            <4> HIDE DEF r
            <4> QED BY <4>1, <4>2
        <3>3. /\ StepsLeft(t)' = 11 + 2 * Cardinality(targets)
              /\ StepsLeft(t) = 12 + 2 * Cardinality(Hosts)
            BY <2>1, <3>2 DEF StepsLeft
        <3>4. Cardinality(targets) \in Nat /\ Cardinality(Hosts) \in Nat
              /\ Cardinality(targets) <= Cardinality(Hosts)
            BY <3>1, StepsAreFinite
        <3> HIDE DEF targets
        <3> QED BY <3>3, <3>4
    <2>3. CASE ~DeploymentLive(tdep[t])
        BY <1>1, <1>4, <2>1, <2>3, NoStage DEF StrategyTargetHosts
    <2> QED BY <2>2, <2>3
<1>5. CASE StrategyDeploymentRunning(t)
    <2>1. CASE Get(t, "getDep", DeploymentLive(tdep[t]), dstatus[tdep[t]], "putDep",
                   Goto(t, "getTask"))
        BY <1>2, <1>3, <2>1, NextStage
    <2>2. CASE PutDeployment(t, "putDep", "running", Goto(t, "getTask"))
        <3>1. strategy[t].pc = "putDep" /\ (Goto(t, "getTask") \/ Exit(t))
            BY <2>2 DEF PutDeployment, PutStale
        <3> QED BY <1>1, <1>2, <3>1, NextStage, NoStage
    <2> QED BY <1>5, <2>1, <2>2 DEF StrategyDeploymentRunning
<1>6. CASE StrategyTaskRunning(t)
    <2>1. CASE Get(t, "getTask", TaskLive(t), tstatus[t], "putTask", Goto(t, "getResult"))
        BY <1>2, <1>3, <2>1, NextStage
    <2>2. CASE PutTask(t, "putTask", "running", Goto(t, "getResult"))
        <3>1. strategy[t].pc = "putTask" /\ (Goto(t, "getResult") \/ Exit(t))
            BY <2>2 DEF PutTask, PutStale
        <3> QED BY <1>1, <1>2, <3>1, NextStage, NoStage
    <2> QED BY <1>6, <2>1, <2>2 DEF StrategyTaskRunning
<1>7. CASE StrategyResult(t)
    <2>1. CASE Get(t, "getResult", TaskLive(t), tstatus[t], "putResult", Goto(t, "loop"))
        BY <1>2, <1>3, <2>1, NextStage
    <2>2. CASE ~Get(t, "getResult", TaskLive(t), tstatus[t], "putResult", Goto(t, "loop"))
        <3>1. strategy[t].pc = "putResult" /\ (Goto(t, "loop") \/ Exit(t))
            BY <1>7, <2>2 DEF StrategyResult
        <3> QED BY <1>1, <1>2, <3>1, NextStage, NoStage
    <2> QED BY <2>1, <2>2
<1>8. CASE StrategyWaitOver(t)
    <2>1. /\ strategy[t].pc = "wait" /\ strategy'[t].pc = "loop"
          /\ strategy'[t].hosts = strategy[t].hosts
        BY <1>0, <1>8 DEF StrategyWaitOver, SType
    <2> QED BY <2>1, NextStage
\* A host leaves the list when its turn comes.
<1>9. CASE StrategyNextHost(t)
    <2>1. PICK h \in strategy[t].hosts :
            strategy' = [strategy EXCEPT ![t] =
              [@ EXCEPT !.pc = "wait", !.hosts = strategy[t].hosts \ {h}, !.at = {h}]]
        BY <1>9 DEF StrategyNextHost
    <2>2. /\ strategy[t].pc = "loop" /\ strategy'[t].pc = "wait"
          /\ strategy'[t].hosts = strategy[t].hosts \ {h}
        BY <1>0, <1>9, <2>1 DEF StrategyNextHost, SType
    <2>3. IsFiniteSet(strategy[t].hosts)
        BY <1>0, IdsAssumption, FS_Subset DEF SType
    <2>4. Cardinality(strategy[t].hosts \ {h}) = Cardinality(strategy[t].hosts) - 1
        BY <2>3, FS_RemoveElement
    <2>5. /\ StepsLeft(t)' = 6 + 2 * Cardinality(strategy[t].hosts \ {h})
          /\ StepsLeft(t) = 5 + 2 * Cardinality(strategy[t].hosts)
        BY <2>2 DEF StepsLeft
    <2> QED BY <2>4, <2>5, StepsAreFinite
<1>10. CASE StrategyLoopOver(t)
    <2>1. strategy[t].pc = "loop" /\ (Goto(t, "getTaskSkip") \/ Exit(t))
        BY <1>10 DEF StrategyLoopOver
    <2> QED BY <1>1, <1>2, <2>1, NextStage, NoStage
<1>11. CASE StrategySkip(t)
    <2>1. CASE Get(t, "getTaskSkip", TaskLive(t), tstatus[t], "putTaskSkip",
                   Goto(t, "getDepSkip"))
        BY <1>2, <1>3, <2>1, NextStage
    <2>2. CASE PutTask(t, "putTaskSkip", "skipped", Goto(t, "getDepSkip"))
        <3>1. strategy[t].pc = "putTaskSkip" /\ (Goto(t, "getDepSkip") \/ Exit(t))
            BY <2>2 DEF PutTask, PutStale
        <3> QED BY <1>1, <1>2, <3>1, NextStage, NoStage
    <2>3. CASE Get(t, "getDepSkip", DeploymentLive(tdep[t]), dstatus[tdep[t]],
                   "putDepSkip", Exit(t))
        BY <1>1, <1>3, <2>3, NextStage, NoStage
    <2>4. CASE PutDeployment(t, "putDepSkip", "skipped", Exit(t))
        <3>1. strategy[t].pc = "putDepSkip" /\ Exit(t)
            BY <2>4 DEF PutDeployment, PutStale
        <3> QED BY <1>1, <3>1, NoStage
    <2> QED BY <1>11, <2>1, <2>2, <2>3, <2>4 DEF StrategySkip
<1> QED BY <1>4, <1>5, <1>6, <1>7, <1>8, <1>9, <1>10, <1>11 DEF OneByOne

\* A rollout ends after at most twelve steps and two for each host, whatever
\* is edited, deleted, answered or restarted meanwhile, unless it waits for a
\* PatchTask; and while it lives nobody starts it again.  This is what
\* OnlyPollsWait needs of the code besides that its steps are taken.
THEOREM RolloutsAdvance == Spec => [][RolloutAdvances]_vars
<1>1. TypeOK /\ IInv /\ [Next]_vars => [RolloutAdvances]_vars
    <2> SUFFICES ASSUME TypeOK, IInv, [Next]_vars, NEW t \in Tasks,
                        strategy[t].pc # "none", strategy'[t] # strategy[t]
                 PROVE  StepsLeft(t)' < StepsLeft(t)
        BY DEF RolloutAdvances
    <2>1. t \notin tw.cur
        BY DEF IInv, WorkerInv, Fresh
    <2> QED BY <2>1, StrategyChanges, StrategyAdvances, NoStage
<1> QED BY <1>1, TypeCorrect, Invariance, PTL DEF Spec

----------------------------------------------------------------------------

\* Who changes what the TaskWorker holds.
LEMMA WorkerChanges ==
    ASSUME [Next]_vars
    PROVE  tw' \in {tw, IdleTW} \/ TaskWorker
<1> USE DEF dbVars, depVars, taskVars, procVars, agentVars
<1>1. CASE Requests
    BY <1>1 DEF Requests, CreateDeployment, UpdateDeployment, DeleteDeployment,
       ScheduleTimePasses, CreateHost, UpdateHost, DeleteHost
<1>2. CASE DeploymentWorker
    BY <1>2 DEF DeploymentWorker, DWFire, DWCreateTask, DWGetDeployment, DWPutPending
<1>3. ASSUME NEW t \in Tasks, OneByOne(t) PROVE tw' = tw
    BY <1>3 DEF OneByOne, StrategyTargetHosts, StrategyDeploymentRunning,
       StrategyTaskRunning, StrategyResult, StrategyNextHost, StrategyWaitOver,
       StrategyLoopOver, StrategySkip, Get, PutTask, PutDeployment
<1>4. ASSUME NEW t \in Tasks, NEW h \in Hosts,
             Patch(t, h) \/ Outcome(t, h)
      PROVE  tw' = tw
    BY <1>4 DEF Patch, PatchUnreachable, PatchAccepted, PatchRefused, PatchAnswerLost,
       PatchCheck, Outcome, AgentReport, CreateTaskLog
<1>5. CASE Crashes
    BY <1>5 DEF Crashes, DWCrash, TWCrash, StrategyCrash, PatchCrash, NodeRestart
<1>6. CASE UNCHANGED vars
    BY <1>6 DEF vars
<1> QED BY <1>1, <1>2, <1>3, <1>4, <1>5, <1>6 DEF Next

\* A fire never adds to its list and takes each task off it once.
LEMMA TaskWorkerAdvances ==
    ASSUME TypeOK, TaskWorker, tw.pc # "idle"
    PROVE  FireLeft' < FireLeft
<1>0. tw \in TWType /\ tw.todo \in SUBSET Tasks
    BY Shapes DEF TWType
<1>1. Cardinality(tw.todo) \in Nat
    BY <1>0, FiniteTasks
<1>2. ASSUME NEW t \in tw.todo
      PROVE  Cardinality(tw.todo \ {t}) = Cardinality(tw.todo) - 1
    BY <1>0, FiniteTasks, FS_RemoveElement
<1>3. ASSUME NEW S \in SUBSET Tasks, tw' = TWContinue(S)
      PROVE  FireLeft' <= 1 + 4 * Cardinality(S)
    <2>1. Cardinality(S) \in Nat
        BY FiniteTasks
    <2>2. tw'.todo = S /\ tw'.pc = IF S = {} THEN "idle" ELSE "next"
        BY <1>3 DEF TWContinue, IdleTW
    <2> QED BY <2>1, <2>2 DEF FireLeft
<1>4. CASE TWGetDeployment
    <2>1. PICK t \in tw.todo :
            \/ tw' = [tw EXCEPT !.pc = "get", !.cur = {t}, !.todo = @ \ {t},
                                !.oneByOne = form[tdep[t]].oneByOne]
            \/ tw' = TWContinue(tw.todo \ {t})
        BY <1>4 DEF TWGetDeployment
    <2>2. FireLeft = 1 + 4 * Cardinality(tw.todo)
        BY <1>4 DEF TWGetDeployment, FireLeft
    <2>3. Cardinality(tw.todo \ {t}) = Cardinality(tw.todo) - 1
        BY <1>2
    <2>4. CASE tw' = [tw EXCEPT !.pc = "get", !.cur = {t}, !.todo = @ \ {t},
                                !.oneByOne = form[tdep[t]].oneByOne]
        <3>1. tw'.pc = "get" /\ tw'.todo = tw.todo \ {t}
            BY <1>0, <2>4 DEF TWType
        <3>2. FireLeft' = 4 + 4 * Cardinality(tw.todo \ {t})
            BY <3>1 DEF FireLeft
        <3> QED BY <1>1, <2>2, <2>3, <3>2
    <2>5. CASE tw' = TWContinue(tw.todo \ {t})
        <3>1. FireLeft' <= 1 + 4 * Cardinality(tw.todo \ {t})
            BY <1>0, <1>3, <2>5
        <3>2. FireLeft' \in Nat
            <4>1. tw'.todo = tw.todo \ {t} /\ tw'.pc \in {"idle", "next"}
                BY <2>5 DEF TWContinue, IdleTW
            <4>2. Cardinality(tw'.todo) \in Nat
                BY <1>1, <2>3, <4>1, <1>0, FiniteTasks
            <4> QED BY <4>1, <4>2 DEF FireLeft
        <3> QED BY <1>1, <2>2, <2>3, <3>1, <3>2
    <2> QED BY <2>1, <2>4, <2>5
<1>5. CASE TWGetTask \/ TWPutRunning
    <2>1. \/ tw' = IdleTW
          \/ tw.pc = "get" /\ tw' \in {[tw EXCEPT !.pc = "put"], [tw EXCEPT !.pc = "spawn"]}
          \/ tw.pc = "put" /\ tw' = [tw EXCEPT !.pc = "spawn"]
        BY <1>5 DEF TWGetTask, TWPutRunning
    <2>2. tw.pc \in {"get", "put"}
        BY <1>5 DEF TWGetTask, TWPutRunning
    <2>3. CASE tw' = IdleTW
        BY <1>1, <2>2, <2>3 DEF FireLeft, IdleTW
    <2>4. CASE tw' # IdleTW
        <3>1. /\ tw'.todo = tw.todo
              /\ \/ tw.pc = "get" /\ tw'.pc \in {"put", "spawn"}
                 \/ tw.pc = "put" /\ tw'.pc = "spawn"
            BY <1>0, <2>1, <2>4 DEF TWType
        <3> QED BY <1>1, <3>1 DEF FireLeft
    <2> QED BY <2>3, <2>4
<1>6. CASE TWSpawn
    <2>1. tw.pc = "spawn" /\ tw' = TWContinue(tw.todo)
        BY <1>6 DEF TWSpawn
    <2>2. tw'.todo = tw.todo /\ tw'.pc \in {"idle", "next"}
        BY <2>1 DEF TWContinue, IdleTW
    <2> QED BY <1>1, <2>1, <2>2 DEF FireLeft
<1> QED BY <1>4, <1>5, <1>6 DEF TaskWorker, TWFire

\* A fire of the TaskWorker makes four steps at most for each task it found
\* pending, whatever is inserted, deleted or restarted meanwhile: the next
\* fire, which PendingStarts waits for, is never held up by more than that.
THEOREM FiresAdvance == Spec => [][FireAdvances]_vars
<1>1. TypeOK /\ [Next]_vars => [FireAdvances]_vars
    <2> SUFFICES ASSUME TypeOK, [Next]_vars, tw.pc # "idle", tw' # tw
                 PROVE  FireLeft' < FireLeft
        BY DEF FireAdvances
    <2>1. CASE TaskWorker
        BY <2>1, TaskWorkerAdvances
    <2>2. CASE tw' = IdleTW
        <3>1. Cardinality(tw.todo) \in Nat /\ tw.pc \in {"next", "get", "put", "spawn"}
            BY Shapes, FiniteTasks DEF TWType
        <3>2. FireLeft' = 0
            BY <2>2 DEF FireLeft, IdleTW
        <3>3. FireLeft \in Nat /\ FireLeft > 0
            BY <3>1 DEF FireLeft
        <3> QED BY <3>2, <3>3
    <2> QED BY <2>1, <2>2, WorkerChanges
<1> QED BY <1>1, TypeCorrect, PTL DEF Spec

\* A fire of the DeploymentWorker: the statements left for one deployment.
\* (Its list is compared, not counted: nothing bounds the deployments.)
SelectionStage == [idle |-> 0, next |-> 0, put |-> 1, get |-> 2]

SelectionAdvances ==
    dw.pc # "idle" =>
        \/ dw' = dw \/ dw'.pc = "idle"
        \/ dw'.todo \subseteq dw.todo /\ dw'.todo # dw.todo
        \/ dw'.todo = dw.todo /\ SelectionStage[dw'.pc] < SelectionStage[dw.pc]

\* Nothing but its own steps and restarts changes the DeploymentWorker.
LEMMA SelectionChanges ==
    ASSUME [Next]_vars
    PROVE  dw' \in {dw, IdleDW} \/ DeploymentWorker
<1> USE DEF dbVars, depVars, taskVars, procVars, agentVars
<1>1. CASE Requests
    BY <1>1 DEF Requests, CreateDeployment, UpdateDeployment, DeleteDeployment,
       ScheduleTimePasses, CreateHost, UpdateHost, DeleteHost
<1>2. CASE TaskWorker
    BY <1>2 DEF TaskWorker, TWFire, TWGetDeployment, TWGetTask, TWPutRunning, TWSpawn
<1>3. ASSUME NEW t \in Tasks, OneByOne(t) PROVE dw' = dw
    BY <1>3 DEF OneByOne, StrategyTargetHosts, StrategyDeploymentRunning,
       StrategyTaskRunning, StrategyResult, StrategyNextHost, StrategyWaitOver,
       StrategyLoopOver, StrategySkip, Get, PutTask, PutDeployment
<1>4. ASSUME NEW t \in Tasks, NEW h \in Hosts,
             Patch(t, h) \/ Outcome(t, h)
      PROVE  dw' = dw
    BY <1>4 DEF Patch, PatchUnreachable, PatchAccepted, PatchRefused, PatchAnswerLost,
       PatchCheck, Outcome, AgentReport, CreateTaskLog
<1>5. CASE Crashes
    BY <1>5 DEF Crashes, DWCrash, TWCrash, StrategyCrash, PatchCrash, NodeRestart
<1>6. CASE UNCHANGED vars
    BY <1>6 DEF vars
<1> QED BY <1>1, <1>2, <1>3, <1>4, <1>5, <1>6 DEF Next

\* A fire of the DeploymentWorker takes each deployment off its list once,
\* with two statements left for it, and never adds to the list, whatever is
\* inserted, edited or deleted meanwhile: the next fire, which DueGetsTask
\* waits for, is never held up by more than that.
THEOREM SelectionsAdvance == Spec => [][SelectionAdvances]_vars
<1>0. /\ SelectionStage["next"] = 0 /\ SelectionStage["put"] = 1
      /\ SelectionStage["get"] = 2
    BY DEF SelectionStage
<1>1. ASSUME TypeOK, [Next]_vars, dw.pc # "idle" PROVE SelectionAdvances
    <2>0. dw \in DWType
        BY <1>1 DEF TypeOK, DWType
    <2>1. CASE dw' \in {dw, IdleDW}
        BY <2>1 DEF SelectionAdvances, IdleDW
    <2>2. CASE DWFire
        BY <1>1, <2>2 DEF DWFire
    <2>3. CASE DWCreateTask
        <3>1. PICK item \in dw.todo :
                \/ dw' = [dw EXCEPT !.pc = "get", !.todo = @ \ {item},
                                    !.cur = {item.dep}]
                \/ dw' = IdleDW
            BY <2>3 DEF DWCreateTask
        <3>2. CASE dw' = IdleDW
            BY <2>1, <3>2
        <3>3. CASE dw' # IdleDW
            <4>1. dw'.todo = dw.todo \ {item}
                BY <2>0, <3>1, <3>3 DEF DWType
            <4> QED BY <4>1 DEF SelectionAdvances
        <3> QED BY <3>2, <3>3
    <2>4. CASE DWGetDeployment
        <3>1. dw.pc = "get"
            BY <2>4 DEF DWGetDeployment
        <3>2. dw' = DWContinue \/ \E s : dw' = [dw EXCEPT !.pc = "put", !.seen = s]
            BY <2>4 DEF DWGetDeployment
        <3>3. dw'.todo = dw.todo /\ dw'.pc \in {"idle", "next", "put"}
            BY <2>0, <3>2 DEF DWContinue, IdleDW, DWType
        <3>4. dw'.pc = "idle" \/ SelectionStage[dw'.pc] < SelectionStage[dw.pc]
            BY <1>0, <3>1, <3>3
        <3> QED BY <3>3, <3>4 DEF SelectionAdvances
    <2>5. CASE DWPutPending
        <3>1. dw.pc = "put"
            BY <2>5 DEF DWPutPending
        <3>2. dw' = DWContinue \/ dw' = IdleDW
            BY <2>5 DEF DWPutPending
        <3>3. dw'.pc = "idle" \/ (dw'.pc = "next" /\ dw'.todo = dw.todo)
            <4>1. IdleDW.pc = "idle"
                BY DEF IdleDW
            <4>2. DWContinue.pc \in {"idle", "next"} /\ DWContinue.todo = dw.todo
                BY DEF DWContinue, IdleDW
            <4> QED BY <3>2, <4>1, <4>2
        <3>4. dw'.pc = "idle" \/ SelectionStage[dw'.pc] < SelectionStage[dw.pc]
            BY <1>0, <3>1, <3>3
        <3> QED BY <3>3, <3>4 DEF SelectionAdvances
    <2> QED BY <1>1, <2>1, <2>2, <2>3, <2>4, <2>5, SelectionChanges DEF DeploymentWorker
<1>2. TypeOK /\ [Next]_vars => [SelectionAdvances]_vars
    BY <1>1 DEF SelectionAdvances
<1> QED BY <1>2, TypeCorrect, PTL DEF Spec

----------------------------------------------------------------------------

\* A rollout that has ended, or that a crash cut off between the mark of its
\* task and the spawn of its strategy, is never taken up again, and commands
\* no further host: nothing looks for tasks that are "running" without a
\* process (task_worker.ex reads pending tasks only).
THEOREM OverForGood == Spec => [][NeverResumed]_vars
<1>1. ASSUME TypeOK, IInv, [Next]_vars, NEW t \in Tasks, Over(t)
      PROVE  Over(t)' /\ posts'[t] = posts[t]
    <2>0. strategy[t].pc = "none" /\ \A h \in Hosts : patch[t][h] = "none"
        BY <1>1 DEF Over, IInv, StrategyInv
    <2>1. ~OneByOne(t)
        BY <2>0 DEF OneByOne, StrategyTargetHosts, StrategyDeploymentRunning,
           StrategyTaskRunning, StrategyResult, StrategyNextHost, StrategyWaitOver,
           StrategyLoopOver, StrategySkip, Get, PutTask, PutDeployment
    <2>2. strategy'[t].pc = "none"
        BY <1>1, <2>0, <2>1, StrategyChanges DEF Over, NoStrategy
    <2>3. tstatus'[t] \notin {"none", "pending"}
        BY <1>1, Rows DEF Over, TaskRow
    <2>4. t \notin tw'.todo \cup tw'.cur
        <3>0. tw \in TWType
            BY <1>1, Shapes
        <3>1. CASE tw' \in {tw, IdleTW}
            BY <1>1, <3>1 DEF Over, IdleTW
        <3>2. CASE TWFire
            <4>1. tw'.todo = PendingTasks /\ tw'.cur = tw.cur
                BY <3>0, <3>2 DEF TWFire, TWType
            <4> QED BY <1>1, <4>1 DEF Over, PendingTasks
        <3>3. CASE TWGetDeployment
            <4>1. PICK u \in tw.todo :
                    \/ tw' = [tw EXCEPT !.pc = "get", !.cur = {u}, !.todo = @ \ {u},
                                        !.oneByOne = form[tdep[u]].oneByOne]
                    \/ tw' = TWContinue(tw.todo \ {u})
                BY <3>3 DEF TWGetDeployment
            <4>2. tw'.todo \subseteq tw.todo /\ tw'.cur \in {{}, {u}}
                BY <3>0, <4>1 DEF TWContinue, IdleTW, TWType
            <4> QED BY <1>1, <4>2 DEF Over
        <3>4. CASE TWGetTask \/ TWPutRunning
            <4>1. \/ tw' = IdleTW
                  \/ \E pc \in {"put", "spawn"} : tw' = [tw EXCEPT !.pc = pc]
                BY <3>4 DEF TWGetTask, TWPutRunning
            <4>2. tw'.todo \subseteq tw.todo /\ tw'.cur \subseteq tw.cur
                BY <3>0, <4>1 DEF IdleTW, TWType
            <4> QED BY <1>1, <4>2 DEF Over
        <3>5. CASE TWSpawn
            BY <1>1, <3>5 DEF TWSpawn, TWContinue, IdleTW, Over
        <3> QED BY <1>1, <3>1, <3>2, <3>3, <3>4, <3>5, WorkerChanges DEF TaskWorker
    <2>5. posts'[t] = posts[t]
        <3>1. ASSUME NEW u \in Tasks, NEW h \in Hosts, Patch(u, h)
              PROVE  posts'[t] = posts[t]
            <4>1. /\ patch[u][h] # "none"
                  /\ posts' = posts \/ posts' = [posts EXCEPT ![u][h] = @ + 1]
                BY <3>1 DEF Patch, PatchUnreachable, PatchAccepted, PatchRefused,
                   PatchAnswerLost, PatchCheck, agentVars
            <4>2. u # t
                BY <2>0, <4>1
            <4> QED BY <1>1, <4>1, <4>2, Shapes
        <3>2. ASSUME NEW u \in Tasks, NEW h \in Hosts, Outcome(u, h)
              PROVE  posts' = posts
            BY <3>2 DEF Outcome, AgentReport, CreateTaskLog, agentVars
        <3>3. UNCHANGED vars => posts' = posts
            BY DEF vars, agentVars
        <3> QED BY <1>1, <3>1, <3>2, <3>3, OthersDoNotPost DEF Next
    <2> QED BY <2>2, <2>3, <2>4, <2>5 DEF Over
<1>2. TypeOK /\ IInv /\ [Next]_vars => [NeverResumed]_vars
    BY <1>1 DEF NeverResumed
<1> QED BY <1>2, TypeCorrect, Invariance, PTL DEF Spec

=============================================================================
