------------------------------ MODULE Rollout ------------------------------
(***************************************************************************)
(* The patch rollout of the Scuti server: the deployments, hosts, tasks    *)
(* and tasks_log tables, the web requests that edit them, the two workers  *)
(* that turn a due deployment into a running task (DeploymentWorker,       *)
(* TaskWorker), the process that walks the target hosts of a task one by   *)
(* one (OneByOneStrategy), the process that posts the patch command to one *)
(* agent and waits for its outcome (PatchTask), and the agents as the      *)
(* server sees them.                                                       *)
(*                                                                         *)
(* Rows survive a crash, processes do not.  A step is one database         *)
(* statement or one HTTP exchange of one process; an Ecto update is two    *)
(* steps, the read of the row and the write of the columns that differ     *)
(* from what was read, which raises Ecto.StaleEntryError when the row was  *)
(* deleted in between.                                                     *)
(***************************************************************************)
EXTENDS Integers, FiniteSets

CONSTANTS
    Deployments,    \* ids of the deployments that may be created
    Hosts,          \* ids of the hosts that may be created
    Tags,           \* what a filter can tell two hosts apart by
    Forms,          \* the validated bodies of create and update requests
    MaxTasks,       \* bound: rows ever inserted into tasks
    MaxCrashes,     \* bound: restarts of the node or of one process
    MaxFaults,      \* bound: lost answers and refused commands
    MaxEdits        \* bound: update requests for deployments and hosts

Tasks == 1..MaxTasks

NoTag == "none"
Erased == "deleted"

FormType == [once: BOOLEAN, oneByOne: BOOLEAN, filter: SUBSET Tags,
             oversize: BOOLEAN]

ASSUME FormsAssumption == Forms \subseteq FormType /\ Forms # {}
ASSUME IdsAssumption == Deployments # {} /\ IsFiniteSet(Hosts)
ASSUME TagsAssumption == {NoTag, Erased} \cap Tags = {}
ASSUME BoundsAssumption ==
    /\ MaxTasks \in Nat /\ MaxCrashes \in Nat /\ MaxFaults \in Nat
    /\ MaxEdits \in Nat

VARIABLES
    dstatus,    \* deployments.last_status, "none" before and "deleted" after
    form,       \* the columns of a deployment that a request sets
    due,        \* the deployments with schedule_time < now
    tag,        \* hosts: the labels of a host, as far as filters look
    tstatus,    \* tasks.status, "none" before and "deleted" after
    tdep,       \* tasks.deployment_id
    total,      \* total_hosts of tasks.result
    log,        \* tasks_log: the (task, host) pairs with an outcome
    dw,         \* the DeploymentWorker process
    tw,         \* the TaskWorker process
    strategy,   \* the OneByOneStrategy process of each task
    patch,      \* the PatchTask process of each task and host
    posts,      \* history: patch commands posted per task and host
    commands,   \* the commands an agent has accepted and not finished
    crashes, faults, edits

depVars    == <<dstatus, form, due>>
taskVars   == <<tstatus, tdep, total>>
dbVars     == <<depVars, tag, taskVars, log>>
procVars   == <<dw, tw, strategy, patch>>
agentVars  == <<posts, commands>>
boundVars  == <<crashes, faults, edits>>
vars       == <<dbVars, procVars, agentVars, boundVars>>

----------------------------------------------------------------------------
\* Tables

TaskStatus == {"pending", "running", "skipped"}
DeploymentStatus == {"unknown", "pending", "running", "skipped"}

DeploymentLive(d) == dstatus[d] \in DeploymentStatus
TaskLive(t) == tstatus[t] \in TaskStatus
HostLive(h) == tag[h] \in Tags

TasksOf(d) == {t \in Tasks : TaskLive(t) /\ tdep[t] = d}

\* Fault: a deployment whose task exists is still selected.
PendingOnceWide == {d \in Deployments :
                      /\ dstatus[d] \in {"unknown", "pending"}
                      /\ form[d].once /\ d \in due}

\* Fault: schedule_time compared the wrong way round.
PendingOnceEarly == {d \in Deployments :
                       dstatus[d] = "unknown" /\ form[d].once /\ d \notin due}

\* get_pending_once_deployments
PendingOnce == {d \in Deployments :
                  dstatus[d] = "unknown" /\ form[d].once /\ d \in due}

\* Fault: the wrong status in the query.
PendingTasksWrong == {t \in Tasks : tstatus[t] = "skipped"}

\* get_pending_tasks
PendingTasks == {t \in Tasks : tstatus[t] = "pending"}

\* get_deployment_target_hosts: the online/offline status plays no part.
TargetHosts(d) == {h \in Hosts : tag[h] \in form[d].filter}

\* The ids are a serial: the next row takes the least unused one.
NextTask(t) == tstatus[t] = "none" /\ \A u \in Tasks : u < t => tstatus[u] # "none"

----------------------------------------------------------------------------
\* Processes

IdleDW == [pc |-> "idle", todo |-> {}, cur |-> {}, seen |-> "none"]
IdleTW == [pc |-> "idle", todo |-> {}, cur |-> {}, oneByOne |-> FALSE]
NoStrategy == [pc |-> "none", hosts |-> {}, found |-> 0, at |-> {},
               seen |-> "none"]
NewStrategy == [NoStrategy EXCEPT !.pc = "hosts"]

\* Statements of the strategy process that reach the database.
StrategyDbSteps == {"hosts", "getDep", "putDep", "getTask", "putTask",
                    "getResult", "putResult", "getTaskSkip", "putTaskSkip",
                    "getDepSkip", "putDepSkip"}

Init ==
    /\ dstatus = [d \in Deployments |-> "none"]
    /\ form \in [Deployments -> {CHOOSE f \in Forms : TRUE}]
    /\ due = {}
    /\ tag = [h \in Hosts |-> NoTag]
    /\ tstatus = [t \in Tasks |-> "none"]
    /\ tdep \in [Tasks -> {CHOOSE d \in Deployments : TRUE}]
    /\ total = [t \in Tasks |-> 0]
    /\ log = {}
    /\ dw = IdleDW
    /\ tw = IdleTW
    /\ strategy = [t \in Tasks |-> NoStrategy]
    /\ patch = [t \in Tasks |-> [h \in Hosts |-> "none"]]
    /\ posts = [t \in Tasks |-> [h \in Hosts |-> 0]]
    /\ commands = {}
    /\ crashes = 0 /\ faults = 0 /\ edits = 0

----------------------------------------------------------------------------
\* Web requests

\* DeploymentController.create: last_status starts as "unknown".
CreateDeployment(d) ==
    /\ dstatus[d] = "none"
    /\ \E f \in Forms : form' = [form EXCEPT ![d] = f]
    /\ dstatus' = [dstatus EXCEPT ![d] = "unknown"]
    /\ UNCHANGED <<due, tag, taskVars, log, procVars, agentVars, boundVars>>

\* DeploymentController.update: every column but the status; the request may
\* carry a new schedule_time, which is in the future unless time passes it.
UpdateDeployment(d) ==
    /\ edits < MaxEdits
    /\ DeploymentLive(d)
    /\ \E f \in Forms : form' = [form EXCEPT ![d] = f]
    /\ due' \in {due, due \ {d}}
    /\ edits' = edits + 1
    /\ UNCHANGED <<dstatus, tag, taskVars, log, procVars, agentVars,
                   crashes, faults>>

\* DeploymentController.delete: tasks and tasks_log go with the deployment
\* (on_delete: :delete_all).
DeleteDeployment(d) ==
    /\ DeploymentLive(d)
    /\ dstatus' = [dstatus EXCEPT ![d] = Erased]
    /\ tstatus' = [t \in Tasks |->
                     IF t \in TasksOf(d) THEN Erased ELSE tstatus[t]]
    /\ log' = {e \in log : e[1] \notin TasksOf(d)}
    /\ UNCHANGED <<form, due, tag, tdep, total, procVars, agentVars, boundVars>>

\* schedule_time < now becomes true.
ScheduleTimePasses(d) ==
    /\ DeploymentLive(d) /\ d \notin due
    /\ due' = due \cup {d}
    /\ UNCHANGED <<dstatus, form, tag, taskVars, log, procVars, agentVars,
                   boundVars>>

\* HostController.create
CreateHost(h) ==
    /\ tag[h] = NoTag
    /\ \E g \in Tags : tag' = [tag EXCEPT ![h] = g]
    /\ UNCHANGED <<depVars, taskVars, log, procVars, agentVars, boundVars>>

\* HostController.update
UpdateHost(h) ==
    /\ edits < MaxEdits
    /\ HostLive(h)
    /\ \E g \in Tags \ {tag[h]} : tag' = [tag EXCEPT ![h] = g]
    /\ edits' = edits + 1
    /\ UNCHANGED <<depVars, taskVars, log, procVars, agentVars, crashes, faults>>

\* HostController.delete: the task logs of the host go with it.
DeleteHost(h) ==
    /\ HostLive(h)
    /\ tag' = [tag EXCEPT ![h] = Erased]
    /\ log' = {e \in log : e[2] # h}
    /\ UNCHANGED <<depVars, taskVars, procVars, agentVars, boundVars>>

----------------------------------------------------------------------------
\* DeploymentWorker, one handle_info(:fire) at a time

\* A fire that finds no deployment changes nothing and is left out.
DWFire ==
    /\ dw.pc = "idle" /\ PendingOnce # {}
    /\ dw' = [dw EXCEPT
         !.pc = "next",
         !.todo = {[dep |-> d, oversize |-> form[d].oversize] : d \in PendingOnce}]
    /\ UNCHANGED <<dbVars, tw, strategy, patch, agentVars, boundVars>>

\* After one deployment of the list: the next one, or the end of the fire.
DWContinue == [IdleDW EXCEPT !.pc = IF dw.todo = {} THEN "idle" ELSE "next",
                             !.todo = dw.todo]

\* TaskModule.create_task.  The insert raises when the deployment is gone
\* (foreign key) or its scripts overflow the varchar(255) payload column:
\* the worker dies and its supervisor starts a new one.
DWCreateTask ==
    /\ dw.pc = "next"
    /\ \E item \in dw.todo :
         IF DeploymentLive(item.dep) /\ ~item.oversize
         THEN /\ \E t \in Tasks :
                   /\ NextTask(t)
                   /\ tstatus' = [tstatus EXCEPT ![t] = "pending"]
                   /\ tdep' = [tdep EXCEPT ![t] = item.dep]
                   /\ total' = [total EXCEPT ![t] = 0]
              /\ dw' = [dw EXCEPT !.pc = "get", !.todo = @ \ {item},
                                  !.cur = {item.dep}]
         ELSE /\ dw' = IdleDW
              /\ UNCHANGED taskVars
    /\ UNCHANGED <<depVars, tag, log, tw, strategy, patch, agentVars, boundVars>>

\* update_deployment_status reads the row; a missing row is only logged.
DWGetDeployment ==
    /\ dw.pc = "get"
    /\ \E d \in dw.cur :
         dw' = IF DeploymentLive(d)
               THEN [dw EXCEPT !.pc = "put", !.seen = dstatus[d]]
               ELSE DWContinue
    /\ UNCHANGED <<dbVars, tw, strategy, patch, agentVars, boundVars>>

\* Fault: a status the schema does not know.
DWPutStarted ==
    /\ dw.pc = "put"
    /\ dstatus' = [d \in Deployments |->
                     IF d \in dw.cur /\ DeploymentLive(d) THEN "started" ELSE dstatus[d]]
    /\ dw' = DWContinue
    /\ UNCHANGED <<form, due, tag, taskVars, log, tw, strategy, patch,
                   agentVars, boundVars>>

\* ... and writes "pending"; StaleEntryError kills the worker.
DWPutPending ==
    /\ dw.pc = "put"
    /\ \E d \in dw.cur :
         IF DeploymentLive(d)
         THEN /\ dstatus' = IF dw.seen = "pending" THEN dstatus
                            ELSE [dstatus EXCEPT ![d] = "pending"]
              /\ dw' = DWContinue
         ELSE dw' = IdleDW /\ UNCHANGED dstatus
    /\ UNCHANGED <<form, due, tag, taskVars, log, tw, strategy, patch,
                   agentVars, boundVars>>

----------------------------------------------------------------------------
\* TaskWorker, one handle_info(:fire) at a time

TWFire ==
    /\ tw.pc = "idle" /\ PendingTasks # {}
    /\ tw' = [tw EXCEPT !.pc = "next", !.todo = PendingTasks]
    /\ UNCHANGED <<dbVars, dw, strategy, patch, agentVars, boundVars>>

TWContinue(todo) ==
    [IdleTW EXCEPT !.pc = IF todo = {} THEN "idle" ELSE "next", !.todo = todo]

\* get_deployment_by_id; when it returns nil, delete_task.  Tasks listed in
\* one second come in any order.
TWGetDeployment ==
    /\ tw.pc = "next"
    /\ \E t \in tw.todo :
         IF DeploymentLive(tdep[t])
         THEN /\ tw' = [tw EXCEPT !.pc = "get", !.cur = {t}, !.todo = @ \ {t},
                                  !.oneByOne = form[tdep[t]].oneByOne]
              /\ UNCHANGED tstatus
         ELSE /\ tw' = TWContinue(tw.todo \ {t})
              /\ tstatus' = [tstatus EXCEPT ![t] = IF TaskLive(t) THEN Erased ELSE @]
    /\ UNCHANGED <<depVars, tag, tdep, total, log, dw, strategy, patch,
                   agentVars, boundVars>>

\* update_task_status reads the row; its {:error, _} is not looked at.
TWGetTask ==
    /\ tw.pc = "get"
    /\ \E t \in tw.cur :
         tw' = [tw EXCEPT !.pc = IF TaskLive(t) THEN "put" ELSE "spawn"]
    /\ UNCHANGED <<dbVars, dw, strategy, patch, agentVars, boundVars>>

\* Fault: the task is handed over without being marked.
TWSkipMark ==
    /\ tw.pc = "put"
    /\ tw' = [tw EXCEPT !.pc = "spawn"]
    /\ UNCHANGED <<dbVars, dw, strategy, patch, agentVars, boundVars>>

\* ... and writes "running"; StaleEntryError kills the worker.
TWPutRunning ==
    /\ tw.pc = "put"
    /\ \E t \in tw.cur :
         IF TaskLive(t)
         THEN /\ tstatus' = [tstatus EXCEPT ![t] = "running"]
              /\ tw' = [tw EXCEPT !.pc = "spawn"]
         ELSE tw' = IdleTW /\ UNCHANGED tstatus
    /\ UNCHANGED <<depVars, tag, tdep, total, log, dw, strategy, patch,
                   agentVars, boundVars>>

\* Only "one_by_one" has a process; the other strategies have no caller.
TWSpawn ==
    /\ tw.pc = "spawn"
    /\ \E t \in tw.cur :
         strategy' = IF tw.oneByOne THEN [strategy EXCEPT ![t] = NewStrategy]
                     ELSE strategy
    /\ tw' = TWContinue(tw.todo)
    /\ UNCHANGED <<dbVars, dw, patch, agentVars, boundVars>>

----------------------------------------------------------------------------
\* OneByOneStrategy.handle, one process per task; the deployment it was
\* given is the one the task belongs to.

Goto(t, pc) ==
    strategy' = [strategy EXCEPT ![t] = [@ EXCEPT !.pc = pc, !.seen = "none"]]
Exit(t) == strategy' = [strategy EXCEPT ![t] = NoStrategy]

\* get_deployment_target_hosts, its three queries taken as one.  For a deleted
\* deployment it returns nil; the updates that follow find no row (its tasks
\* went with it) and the loop over nil raises: the process ends, no effect.
StrategyTargetHosts(t) ==
    /\ strategy[t].pc = "hosts"
    /\ IF DeploymentLive(tdep[t])
       THEN LET targets == TargetHosts(tdep[t])
            IN strategy' = [strategy EXCEPT ![t] =
                 [@ EXCEPT !.pc = "getDep", !.hosts = targets,
                           !.found = Cardinality(targets)]]
       ELSE Exit(t)
    /\ UNCHANGED <<dbVars, dw, tw, patch, agentVars, boundVars>>

\* First half of an update: read the row; a missing one is only logged.
Get(t, pc, live, status, put, missing) ==
    /\ strategy[t].pc = pc
    /\ IF live
       THEN strategy' = [strategy EXCEPT ![t] =
                           [@ EXCEPT !.pc = put, !.seen = status]]
       ELSE missing
    /\ UNCHANGED <<dbVars, dw, tw, patch, agentVars, boundVars>>

\* Second half, on a row deleted since: it raises, unless there is nothing
\* to write (same status, same second of run_at).
PutStale(t, status, next) ==
    \/ Exit(t)
    \/ strategy[t].seen = status /\ next

PutDeployment(t, pc, status, next) ==
    /\ strategy[t].pc = pc
    /\ IF DeploymentLive(tdep[t])
       THEN /\ dstatus' = IF strategy[t].seen = status THEN dstatus
                          ELSE [dstatus EXCEPT ![tdep[t]] = status]
            /\ next
       ELSE PutStale(t, status, next) /\ UNCHANGED dstatus
    /\ UNCHANGED <<form, due, tag, taskVars, log, dw, tw, patch, agentVars,
                   boundVars>>

PutTask(t, pc, status, next) ==
    /\ strategy[t].pc = pc
    /\ IF TaskLive(t)
       THEN /\ tstatus' = IF strategy[t].seen = status THEN tstatus
                          ELSE [tstatus EXCEPT ![t] = status]
            /\ next
       ELSE PutStale(t, status, next) /\ UNCHANGED tstatus
    /\ UNCHANGED <<depVars, tag, tdep, total, log, dw, tw, patch, agentVars,
                   boundVars>>

StrategyDeploymentRunning(t) ==
    \/ Get(t, "getDep", DeploymentLive(tdep[t]), dstatus[tdep[t]], "putDep",
           Goto(t, "getTask"))
    \/ PutDeployment(t, "putDep", "running", Goto(t, "getTask"))

StrategyTaskRunning(t) ==
    \/ Get(t, "getTask", TaskLive(t), tstatus[t], "putTask",
           Goto(t, "getResult"))
    \/ PutTask(t, "putTask", "running", Goto(t, "getResult"))

\* get_task_result and update_task_result: total_hosts is the length of the
\* list, the other two counters are written back as they were read.
StrategyResult(t) ==
    \/ Get(t, "getResult", TaskLive(t), tstatus[t], "putResult",
           Goto(t, "loop"))
    \/ /\ strategy[t].pc = "putResult"
       /\ IF TaskLive(t)
          THEN total' = [total EXCEPT ![t] = strategy[t].found] /\ Goto(t, "loop")
          ELSE /\ \/ Exit(t)
                  \/ strategy[t].found = 0 /\ Goto(t, "loop")
               /\ UNCHANGED total
       /\ UNCHANGED <<depVars, tag, tstatus, tdep, log, dw, tw, patch,
                      agentVars, boundVars>>

\* Fault: the host stays in the list.
StrategySameHost(t) ==
    /\ strategy[t].pc = "loop"
    /\ \E h \in strategy[t].hosts :
         /\ patch' = [patch EXCEPT ![t][h] = "post"]
         /\ strategy' = [strategy EXCEPT ![t] = [@ EXCEPT !.pc = "wait", !.at = {h}]]
    /\ UNCHANGED <<dbVars, dw, tw, agentVars, boundVars>>

\* for host <- hosts: spawn a PatchTask and wait for it.
StrategyNextHost(t) ==
    /\ strategy[t].pc = "loop"
    /\ \E h \in strategy[t].hosts :
         /\ patch' = [patch EXCEPT ![t][h] = "post"]
         /\ strategy' = [strategy EXCEPT ![t] =
              [@ EXCEPT !.pc = "wait", !.hosts = strategy[t].hosts \ {h},
                        !.at = {h}]]
    /\ UNCHANGED <<dbVars, dw, tw, agentVars, boundVars>>

\* Fault: the loop does not wait.
StrategyNoWait(t) ==
    /\ strategy[t].pc = "wait"
    /\ strategy' = [strategy EXCEPT ![t] = [@ EXCEPT !.pc = "loop", !.at = {}]]
    /\ UNCHANGED <<dbVars, dw, tw, patch, agentVars, boundVars>>

\* Fault: the list is read again after every host.
StrategyReread(t) ==
    /\ strategy[t].pc = "wait"
    /\ \A h \in strategy[t].at : patch[t][h] = "none"
    /\ strategy' = [strategy EXCEPT ![t] =
         [@ EXCEPT !.pc = "loop", !.at = {},
                   !.hosts = {h \in TargetHosts(tdep[t]) : posts[t][h] = 0}]]
    /\ UNCHANGED <<dbVars, dw, tw, patch, agentVars, boundVars>>

\* WaitForProcess.is_alive? returns once the PatchTask is gone.
StrategyWaitOver(t) ==
    /\ strategy[t].pc = "wait"
    /\ \A h \in strategy[t].at : patch[t][h] = "none"
    /\ strategy' = [strategy EXCEPT ![t] = [@ EXCEPT !.pc = "loop", !.at = {}]]
    /\ UNCHANGED <<dbVars, dw, tw, patch, agentVars, boundVars>>

\* Fault: every finished loop is a skip.
StrategyAlwaysSkip(t) ==
    /\ strategy[t].pc = "loop" /\ strategy[t].hosts = {}
    /\ Goto(t, "getTaskSkip")
    /\ UNCHANGED <<dbVars, dw, tw, patch, agentVars, boundVars>>

\* After the loop: skip when length(hosts) == 0.
StrategyLoopOver(t) ==
    /\ strategy[t].pc = "loop" /\ strategy[t].hosts = {}
    /\ IF strategy[t].found = 0 THEN Goto(t, "getTaskSkip") ELSE Exit(t)
    /\ UNCHANGED <<dbVars, dw, tw, patch, agentVars, boundVars>>

\* Fault: the deployment is forgotten.
StrategySkipTask(t) ==
    \/ Get(t, "getTaskSkip", TaskLive(t), tstatus[t], "putTaskSkip", Exit(t))
    \/ PutTask(t, "putTaskSkip", "skipped", Exit(t))

StrategySkip(t) ==
    \/ Get(t, "getTaskSkip", TaskLive(t), tstatus[t], "putTaskSkip",
           Goto(t, "getDepSkip"))
    \/ PutTask(t, "putTaskSkip", "skipped", Goto(t, "getDepSkip"))
    \/ Get(t, "getDepSkip", DeploymentLive(tdep[t]), dstatus[tdep[t]],
           "putDepSkip", Exit(t))
    \/ PutDeployment(t, "putDepSkip", "skipped", Exit(t))

----------------------------------------------------------------------------
\* PatchTask, one process per task and host

PatchEnd(t, h) == patch' = [patch EXCEPT ![t][h] = "none"]

\* Req.post! raises: the agent was not reached, the process dies.
PatchUnreachable(t, h) ==
    /\ patch[t][h] = "post"
    /\ posts' = [posts EXCEPT ![t][h] = @ + 1]
    /\ PatchEnd(t, h)
    /\ UNCHANGED <<dbVars, dw, tw, strategy, commands, boundVars>>

\* The agent answers 202.
PatchAccepted(t, h) ==
    /\ patch[t][h] = "post"
    /\ posts' = [posts EXCEPT ![t][h] = @ + 1]
    /\ commands' = commands \cup {<<t, h>>}
    /\ patch' = [patch EXCEPT ![t][h] = "poll"]
    /\ UNCHANGED <<dbVars, dw, tw, strategy, boundVars>>

\* The agent answers anything else, which is only logged.  After 503, the
\* answer of its timeout, it may execute the command all the same (AgentQueue).
PatchRefused(t, h) ==
    /\ faults < MaxFaults
    /\ patch[t][h] = "post"
    /\ posts' = [posts EXCEPT ![t][h] = @ + 1]
    /\ commands' \in {commands, commands \cup {<<t, h>>}}
    /\ patch' = [patch EXCEPT ![t][h] = "poll"]
    /\ faults' = faults + 1
    /\ UNCHANGED <<dbVars, dw, tw, strategy, crashes, edits>>

\* The agent accepts but its answer is lost or late: Req.post! raises.
PatchAnswerLost(t, h) ==
    /\ faults < MaxFaults
    /\ patch[t][h] = "post"
    /\ posts' = [posts EXCEPT ![t][h] = @ + 1]
    /\ commands' = commands \cup {<<t, h>>}
    /\ PatchEnd(t, h)
    /\ faults' = faults + 1
    /\ UNCHANGED <<dbVars, dw, tw, strategy, crashes, edits>>

\* Fault: the test of the log is negated.
PatchCheckNegated(t, h) ==
    /\ patch[t][h] = "poll"
    /\ <<t, h>> \notin log
    /\ PatchEnd(t, h)
    /\ UNCHANGED <<dbVars, dw, tw, strategy, agentVars, boundVars>>

\* check finds a task log of either type; until then it sleeps and looks again.
PatchCheck(t, h) ==
    /\ patch[t][h] = "poll"
    /\ <<t, h>> \in log
    /\ PatchEnd(t, h)
    /\ UNCHANGED <<dbVars, dw, tw, strategy, agentVars, boundVars>>

----------------------------------------------------------------------------
\* Agents and outcomes

\* The agent is done with a command: it has executed it and reports, or a
\* restart has emptied its queue.  Nothing comes of the report: the action of
\* ScutiWeb that it reaches has an empty body.
AgentReport(t, h) ==
    /\ <<t, h>> \in commands
    /\ commands' = commands \ {<<t, h>>}
    /\ UNCHANGED <<dbVars, procVars, posts, boundVars>>

\* TaskModule.create_task_log, which needs both rows to exist.  Nothing under
\* lib calls it: whoever does (a console) is taken to record the outcome of a
\* host that was commanded, once its agent is done.
CreateTaskLog(t, h) ==
    /\ posts[t][h] > 0 /\ <<t, h>> \notin commands
    /\ TaskLive(t) /\ HostLive(h)
    /\ log' = log \cup {<<t, h>>}
    /\ UNCHANGED <<depVars, tag, taskVars, procVars, agentVars, boundVars>>

----------------------------------------------------------------------------
\* Crashes: a failed database call ends the process that made it, a restart
\* of the node ends them all.

DWCrash ==
    /\ crashes < MaxCrashes /\ dw.pc # "idle"
    /\ dw' = IdleDW
    /\ crashes' = crashes + 1
    /\ UNCHANGED <<dbVars, tw, strategy, patch, agentVars, faults, edits>>

TWCrash ==
    /\ crashes < MaxCrashes /\ tw.pc # "idle"
    /\ tw' = IdleTW
    /\ crashes' = crashes + 1
    /\ UNCHANGED <<dbVars, dw, strategy, patch, agentVars, faults, edits>>

StrategyCrash(t) ==
    /\ crashes < MaxCrashes /\ strategy[t].pc \in StrategyDbSteps
    /\ Exit(t)
    /\ crashes' = crashes + 1
    /\ UNCHANGED <<dbVars, dw, tw, patch, agentVars, faults, edits>>

PatchCrash(t, h) ==
    /\ crashes < MaxCrashes /\ patch[t][h] = "poll"
    /\ PatchEnd(t, h)
    /\ crashes' = crashes + 1
    /\ UNCHANGED <<dbVars, dw, tw, strategy, agentVars, faults, edits>>

NodeRestart ==
    /\ crashes < MaxCrashes
    /\ dw' = IdleDW
    /\ tw' = IdleTW
    /\ strategy' = [t \in Tasks |-> NoStrategy]
    /\ patch' = [t \in Tasks |-> [h \in Hosts |-> "none"]]
    /\ crashes' = crashes + 1
    /\ UNCHANGED <<dbVars, agentVars, faults, edits>>

----------------------------------------------------------------------------

Requests ==
    \/ \E d \in Deployments : \/ CreateDeployment(d) \/ UpdateDeployment(d)
                              \/ DeleteDeployment(d) \/ ScheduleTimePasses(d)
    \/ \E h \in Hosts : CreateHost(h) \/ UpdateHost(h) \/ DeleteHost(h)

DeploymentWorker == DWFire \/ DWCreateTask \/ DWGetDeployment \/ DWPutPending

TaskWorker == TWFire \/ TWGetDeployment \/ TWGetTask \/ TWPutRunning \/ TWSpawn

OneByOne(t) ==
    \/ StrategyTargetHosts(t) \/ StrategyDeploymentRunning(t)
    \/ StrategyTaskRunning(t) \/ StrategyResult(t) \/ StrategyNextHost(t)
    \/ StrategyWaitOver(t) \/ StrategyLoopOver(t) \/ StrategySkip(t)

Patch(t, h) ==
    \/ PatchUnreachable(t, h) \/ PatchAccepted(t, h) \/ PatchRefused(t, h)
    \/ PatchAnswerLost(t, h) \/ PatchCheck(t, h)

Outcome(t, h) == AgentReport(t, h) \/ CreateTaskLog(t, h)

Crashes ==
    \/ DWCrash \/ TWCrash \/ NodeRestart
    \/ \E t \in Tasks : StrategyCrash(t) \/ \E h \in Hosts : PatchCrash(t, h)

Next ==
    \/ Requests
    \/ DeploymentWorker
    \/ TaskWorker
    \/ \E t \in Tasks : OneByOne(t)
    \/ \E t \in Tasks, h \in Hosts :
         Patch(t, h) \/ Outcome(t, h)
    \/ Crashes

Spec == Init /\ [][Next]_vars

\* Timers are re-armed at the start of every fire and by every restart, each
\* spawned process is scheduled, time passes, and an agent gets done with what
\* it has.  Nobody has to record an outcome: no code does.
Fairness ==
    /\ \A d \in Deployments : WF_vars(ScheduleTimePasses(d))
    /\ WF_vars(DeploymentWorker)
    /\ WF_vars(TaskWorker)
    /\ \A t \in Tasks : WF_vars(OneByOne(t))
    /\ \A t \in Tasks, h \in Hosts : WF_vars(Patch(t, h)) /\ WF_vars(AgentReport(t, h))

FairSpec == Spec /\ Fairness

----------------------------------------------------------------------------
\* Properties

StrategyPc == StrategyDbSteps \cup {"none", "loop", "wait"}

\* Every variable ranges over the values its table or process can take
\* (migrations create_deployments, create_tasks; the workers' states).
TypeOK ==
    /\ dstatus \in [Deployments -> DeploymentStatus \cup {"none", Erased}]
    /\ form \in [Deployments -> Forms]
    /\ due \subseteq Deployments
    /\ tag \in [Hosts -> Tags \cup {NoTag, Erased}]
    /\ tstatus \in [Tasks -> TaskStatus \cup {"none", Erased}]
    /\ tdep \in [Tasks -> Deployments]
    /\ total \in [Tasks -> Nat]
    /\ log \subseteq Tasks \X Hosts
    /\ dw \in [pc : {"idle", "next", "get", "put"},
               todo : SUBSET [dep : Deployments, oversize : BOOLEAN],
               cur : SUBSET Deployments,
               seen : DeploymentStatus \cup {"none"}]
    /\ tw \in [pc : {"idle", "next", "get", "put", "spawn"},
               todo : SUBSET Tasks, cur : SUBSET Tasks, oneByOne : BOOLEAN]
    /\ strategy \in [Tasks -> [pc : StrategyPc, hosts : SUBSET Hosts,
                               found : Nat, at : SUBSET Hosts,
                               seen : DeploymentStatus \cup {"none"}]]
    /\ patch \in [Tasks -> [Hosts -> {"none", "post", "poll"}]]
    /\ posts \in [Tasks -> [Hosts -> Nat]]
    /\ commands \subseteq Tasks \X Hosts
    /\ crashes \in Nat /\ faults \in Nat /\ edits \in Nat

\* A task posts its command to a host at most once, whatever fires, raises,
\* is deleted or restarts in between (TaskWorker marks a task before it
\* spawns, OneByOneStrategy walks a list read once).
CommandedOnce == \A t \in Tasks, h \in Hosts : posts[t][h] <= 1

Commanded(t) == {h \in Hosts : posts[t][h] > 0}
Patching(t) == {h \in Hosts : <<t, h>> \in commands}

\* Two hosts of one task are being patched at the same time only if an answer
\* was lost or a PatchTask died early ("Block the process till the task
\* finishes", one_by_one_strategy.ex).
OverlapNeedsFault ==
    \A t \in Tasks : Cardinality(Patching(t)) <= 1 + faults + crashes

\* A "once" deployment has a second task only if a crash separated the insert
\* of the first from the write of "pending" (DeploymentWorker).
DuplicateNeedsCrash ==
    \A d \in Deployments : Cardinality(TasksOf(d)) <= 1 + crashes

\* total_hosts of a task in the database is never less than the number of
\* hosts it has commanded (the result is written before the loop).
TotalCoversCommands ==
    \A t \in Tasks : TaskLive(t) => Cardinality(Commanded(t)) <= total[t]

\* A skipped task has commanded no host and never will.
SkippedIsUntouched ==
    \A t \in Tasks : tstatus[t] = "skipped" =>
        /\ Commanded(t) = {}
        /\ strategy[t].hosts = {}
        /\ \A h \in Hosts : patch[t][h] = "none"

\* What deployments.last_status says is backed by the task table: pending by
\* a task, running by one that left pending, skipped by a skipped one.
StatusIsBacked ==
    \A d \in Deployments :
        LET some(S) == \E t \in TasksOf(d) : tstatus[t] \in S IN
        /\ dstatus[d] = "pending" => some(TaskStatus)
        /\ dstatus[d] = "running" => some({"running", "skipped"})
        /\ dstatus[d] = "skipped" => some({"skipped"})

\* The invariant behind CommandedOnce and RefinesCampaign.  Until the strategy
\* of a task is spawned nobody has acted for it; while it runs, the hosts it
\* still holds have not been commanded, and a PatchTask about to post is the
\* one it waits for.
Untouched(t) == \A h \in Hosts : posts[t][h] = 0 /\ patch[t][h] = "none"
Fresh(t) == strategy[t].pc = "none" /\ Untouched(t)

\* The steps of the strategy before its loop.
Preparing == {"hosts", "getDep", "putDep", "getTask", "putTask", "getResult",
              "putResult"}
SkipSteps == {"getTaskSkip", "putTaskSkip", "getDepSkip", "putDepSkip"}

WorkerInv ==
    /\ \A t \in Tasks : tstatus[t] \in {"none", "pending"} => Fresh(t)
    /\ \A t \in tw.todo : Fresh(t) /\ tstatus[t] \in {"pending", Erased}
    /\ \A t \in tw.cur :
         /\ Fresh(t) /\ t \notin tw.todo
         /\ tstatus[t] \in IF tw.pc = "spawn" THEN {"running", Erased}
                           ELSE {"pending", Erased}
    /\ \A t, u \in tw.cur : t = u
    /\ tw.pc \in {"idle", "next"} => tw.cur = {}

StrategyInv(t) ==
    LET s == strategy[t] IN
    /\ s.pc \in Preparing \cup {"loop", "wait"} => tstatus[t] \in {"running", Erased}
    /\ s.pc \in SkipSteps => tstatus[t] \in {"running", "skipped", Erased}
    /\ s.pc \in Preparing \cup SkipSteps => Untouched(t)
    /\ s.pc \in {"none", "hosts"} \cup SkipSteps => s.hosts = {}
    /\ s.found = 0 => s.hosts = {} /\ s.pc # "wait"
    /\ s.found = 0 /\ s.pc = "loop" => Untouched(t)
    /\ s.pc \in SkipSteps => s.found = 0
    /\ \A h \in s.hosts : posts[t][h] = 0 /\ patch[t][h] = "none"
    /\ \A h \in Hosts :
         /\ posts[t][h] <= 1
         /\ patch[t][h] # "none" => s.pc = "wait" /\ h \in s.at
         /\ patch[t][h] = "post" => posts[t][h] = 0
    /\ tstatus[t] = "skipped" =>
         Untouched(t) /\ s.pc \in {"none", "getDepSkip", "putDepSkip"}

IInv == WorkerInv /\ \A t \in Tasks : StrategyInv(t)

\* The task table and the posted commands behave as PatchCampaign says: a task
\* never goes back, starts before it commands, commands each host at most once
\* and is skipped only if it commanded nobody.
Campaign == INSTANCE PatchCampaign WITH state <- tstatus

RefinesCampaign == Campaign!Spec

\* What Rollout takes a POST for: one exchange that is over at once, and a
\* command that the agent has or has not got from then on.
Exchange == INSTANCE PatchExchange WITH
              Commands <- Tasks \X Hosts,
              over <- {c \in Tasks \X Hosts : posts[c[1]][c[2]] > 0},
              held <- commands

PostsAreExchanges == Exchange!Spec

\* The order of the states of a deployment (model/deployment.ex).
DeploymentRank(s) == CASE s = "none" -> 0 [] s = "unknown" -> 1
                       [] s = "pending" -> 2 [] s = "running" -> 3
                       [] s = "skipped" -> 4 [] s = Erased -> 5

DeploymentLifecycle ==
    [][\A d \in Deployments :
         DeploymentRank(dstatus[d]) <= DeploymentRank(dstatus'[d])]_vars

\* "Block the process till the task finishes": one host at a time.
SequentialUpdates == \A t \in Tasks : Cardinality(Patching(t)) <= 1

\* A due "once" deployment with scripts that fit gets its task, unless it is
\* edited or deleted, or one whose scripts do not fit is due beside it: that
\* one raises in every fire, which may never come to the others (the list of
\* get_pending_once_deployments has no order).
Awaited(d) == form[d].once /\ ~form[d].oversize /\ d \in due
Spoiled == \E d \in PendingOnce : form[d].oversize

DueGetsTask ==
    \A d \in Deployments :
        dstatus[d] = "unknown" /\ Awaited(d)
            ~> TasksOf(d) # {} \/ dstatus[d] = Erased \/ ~Awaited(d) \/ Spoiled

\* A pending task is picked up or deleted.
PendingStarts ==
    \A t \in Tasks : tstatus[t] = "pending" ~> tstatus[t] # "pending"

\* A host whose outcome the loop waits for and nobody has recorded, or whose
\* record went with its host or deployment.
Unrecorded(t) == \E h \in strategy[t].at : patch[t][h] = "poll" /\ <<t, h>> \notin log

\* A rollout ends, or comes to stand at a host whose outcome is not in
\* tasks_log: whatever raises, is deleted, lost or restarted, the poll of
\* PatchTask is the only step of it that may wait for ever, and it does so
\* only for want of a record.
OnlyPollsWait ==
    \A t \in Tasks : <>[](strategy[t].pc = "none" \/ Unrecorded(t))

\* "If there is no target hosts" the task and its deployment are skipped,
\* unless a crash ends the strategy.
EmptyRolloutSkips ==
    \A t \in Tasks :
        strategy[t].pc = "getDep" /\ strategy[t].found = 0
            ~> \/ tstatus[t] = "skipped" /\ dstatus[tdep[t]] = "skipped"
               \/ tstatus[t] = Erased
               \/ crashes > 0

=============================================================================
