--------------------------- MODULE RolloutSafety ---------------------------
(***************************************************************************)
(* The inductive invariant of Rollout, and what follows from it: a task    *)
(* commands a host at most once, the server implements PatchCampaign, and  *)
(* its posts are the exchanges of PatchExchange.                           *)
(***************************************************************************)
EXTENDS RolloutProofs

USE DEF NoTag, Erased

LEMMA InitInv == Init => IInv
BY DEF Init, IInv, WorkerInv, StrategyInv, Fresh, Untouched, IdleTW, NoStrategy,
       Preparing, SkipSteps

\* What IInv talks about.
LEMMA InvFrame ==
    ASSUME IInv, UNCHANGED <<tstatus, tw, strategy, patch, posts>> PROVE IInv'
BY DEF IInv, WorkerInv, StrategyInv, Fresh, Untouched

\* The five functions IInv talks about, with their ranges.
LEMMA Shapes ==
    ASSUME TypeOK
    PROVE  /\ tstatus \in [Tasks -> TEntry]
           /\ tw \in TWType
           /\ strategy \in [Tasks -> SType]
           /\ patch \in [Tasks -> [Hosts -> {"none", "post", "poll"}]]
           /\ posts \in [Tasks -> [Hosts -> Nat]]
BY DEF TypeOK, TEntry, TWType, SType

\* A step of the processes of one task t, whose strategy is alive, leaves the
\* rest of the invariant alone: t is in no list of the TaskWorker.
LEMMA Locality ==
    ASSUME TypeOK, IInv, NEW t \in Tasks, strategy[t].pc # "none", tw' = tw,
           \A u \in Tasks \ {t} : /\ tstatus'[u] = tstatus[u]
                                  /\ strategy'[u] = strategy[u]
                                  /\ patch'[u] = patch[u]
                                  /\ posts'[u] = posts[u],
           tstatus'[t] \in {"running", "skipped", Erased},
           StrategyInv(t)'
    PROVE  IInv'
<1>1. /\ tw.todo \subseteq Tasks \ {t}
      /\ tw.cur \subseteq Tasks \ {t}
    BY Shapes DEF IInv, WorkerInv, Fresh, TWType
<1>2. \A u \in Tasks \ {t} : Fresh(u) => Fresh(u)'
    BY DEF Fresh, Untouched
<1>3. WorkerInv'
    <2>1. ASSUME NEW u \in Tasks, tstatus'[u] \in {"none", "pending"} PROVE Fresh(u)'
        <3>1. u \in Tasks \ {t}
            BY <2>1
        <3>2. Fresh(u)
            BY <2>1, <3>1 DEF IInv, WorkerInv
        <3> QED BY <1>2, <3>1, <3>2
    <2>2. ASSUME NEW u \in tw.todo PROVE Fresh(u)' /\ tstatus'[u] \in {"pending", Erased}
        <3>1. u \in Tasks \ {t} /\ Fresh(u) /\ tstatus[u] \in {"pending", Erased}
            BY <1>1, <2>2 DEF IInv, WorkerInv
        <3> QED BY <1>2, <3>1
    <2>3. ASSUME NEW u \in tw.cur
          PROVE  /\ Fresh(u)' /\ u \notin tw.todo
                 /\ tstatus'[u] = tstatus[u]
        <3>1. u \in Tasks \ {t} /\ Fresh(u) /\ u \notin tw.todo
            BY <1>1, <2>3 DEF IInv, WorkerInv
        <3> QED BY <1>2, <3>1
    <2> QED BY <2>1, <2>2, <2>3 DEF IInv, WorkerInv
<1>4. ASSUME NEW u \in Tasks \ {t} PROVE StrategyInv(u)'
    BY <1>4 DEF IInv, StrategyInv, Untouched
<1> QED BY <1>3, <1>4 DEF IInv

\* Web requests: only the deletion of a deployment reaches the task table, and
\* it only erases.
LEMMA RequestsInv == TypeOK /\ IInv /\ Requests => IInv'
<1> SUFFICES ASSUME TypeOK, IInv, Requests PROVE IInv'
    OBVIOUS
<1> USE DEF depVars, taskVars, procVars, agentVars
<1>1. ASSUME NEW d \in Deployments, DeleteDeployment(d) PROVE IInv'
    <2>1. /\ UNCHANGED <<tw, strategy, patch, posts>>
          /\ \A t \in Tasks : tstatus'[t] \in {tstatus[t], Erased}
        BY <1>1 DEF DeleteDeployment
    <2>2. WorkerInv'
        <3>1. \A t \in Tasks : Fresh(t) <=> Fresh(t)'
            BY <2>1 DEF Fresh, Untouched
        <3>2. tw.todo \subseteq Tasks /\ tw.cur \subseteq Tasks
            BY Shapes DEF TWType
        <3> QED BY <2>1, <3>1, <3>2 DEF IInv, WorkerInv
    <2>3. ASSUME NEW t \in Tasks PROVE StrategyInv(t)'
        BY <2>1 DEF IInv, StrategyInv, Untouched
    <2> QED BY <2>2, <2>3 DEF IInv
<1>2. ASSUME NEW d \in Deployments,
             CreateDeployment(d) \/ UpdateDeployment(d) \/ ScheduleTimePasses(d)
      PROVE  IInv'
    BY <1>2, InvFrame DEF CreateDeployment, UpdateDeployment, ScheduleTimePasses
<1>3. ASSUME NEW h \in Hosts, CreateHost(h) \/ UpdateHost(h) \/ DeleteHost(h)
      PROVE  IInv'
    BY <1>3, InvFrame DEF CreateHost, UpdateHost, DeleteHost
<1> QED BY <1>1, <1>2, <1>3 DEF Requests

\* The DeploymentWorker adds a pending task, which nobody has acted for.
LEMMA DeploymentWorkerInv == TypeOK /\ IInv /\ DeploymentWorker => IInv'
<1> SUFFICES ASSUME TypeOK, IInv, DeploymentWorker PROVE IInv'
    OBVIOUS
<1> USE DEF dbVars, depVars, taskVars, agentVars
<1>1. CASE DWFire \/ DWGetDeployment \/ DWPutPending
    BY <1>1, InvFrame DEF DWFire, DWGetDeployment, DWPutPending
<1>2. CASE DWCreateTask
    <2>1. UNCHANGED <<tw, strategy, patch, posts>>
        BY <1>2 DEF DWCreateTask
    <2>2. CASE UNCHANGED tstatus
        BY <2>1, <2>2, InvFrame
    <2>3. ASSUME NEW t \in Tasks, tstatus[t] = "none",
                 tstatus' = [tstatus EXCEPT ![t] = "pending"]
          PROVE  IInv'
        <3>1. Fresh(t)
            BY <2>3 DEF IInv, WorkerInv
        <3>2. \A u \in Tasks : Fresh(u) <=> Fresh(u)'
            BY <2>1 DEF Fresh, Untouched
        <3>3. \A u \in Tasks : u # t => tstatus'[u] = tstatus[u]
            BY <2>3, Shapes
        <3>4. tstatus'[t] = "pending"
            BY <2>3, Shapes
        <3>5. t \notin tw.todo /\ t \notin tw.cur
            BY <2>3 DEF IInv, WorkerInv
        <3>6. tw.todo \subseteq Tasks /\ tw.cur \subseteq Tasks
            BY Shapes DEF TWType
        <3>7. WorkerInv'
            BY <2>1, <3>1, <3>2, <3>3, <3>5, <3>6 DEF IInv, WorkerInv
        <3>8. ASSUME NEW u \in Tasks PROVE StrategyInv(u)'
            <4>1. CASE u = t
                BY <2>1, <3>1, <3>4, <4>1 DEF IInv, StrategyInv, Fresh, Untouched,
                   Preparing, SkipSteps
            <4>2. CASE u # t
                BY <2>1, <3>3, <4>2 DEF IInv, StrategyInv, Untouched
            <4> QED BY <4>1, <4>2
        <3> QED BY <3>7, <3>8 DEF IInv
    <2>4. \/ UNCHANGED tstatus
          \/ \E t \in Tasks : /\ tstatus[t] = "none"
                              /\ tstatus' = [tstatus EXCEPT ![t] = "pending"]
        BY <1>2 DEF DWCreateTask, NextTask
    <2> QED BY <2>2, <2>3, <2>4
<1> QED BY <1>1, <1>2 DEF DeploymentWorker

\* The TaskWorker holds only fresh tasks: it marks one, then spawns for it.
LEMMA TaskWorkerInv == TypeOK /\ IInv /\ TaskWorker => IInv'
<1> SUFFICES ASSUME TypeOK, IInv, TaskWorker PROVE IInv'
    OBVIOUS
<1> USE DEF dbVars, depVars, taskVars, agentVars
<1>0. /\ tw \in TWType /\ tw.todo \subseteq Tasks /\ tw.cur \subseteq Tasks
      /\ tstatus \in [Tasks -> TEntry] /\ strategy \in [Tasks -> SType]
    BY Shapes DEF TWType
\* A step that spawns nothing keeps every fresh task fresh.
<1>f. ASSUME UNCHANGED <<strategy, patch, posts>>
      PROVE  \A t \in Tasks : Fresh(t) <=> Fresh(t)'
    BY <1>f DEF Fresh, Untouched
\* ... and keeps StrategyInv if it changes only the status of fresh tasks.
<1>s. ASSUME UNCHANGED <<strategy, patch, posts>>,
             \A t \in Tasks : tstatus'[t] = tstatus[t] \/ Fresh(t)
      PROVE  \A t \in Tasks : StrategyInv(t)'
    <2> SUFFICES ASSUME NEW t \in Tasks PROVE StrategyInv(t)'
        OBVIOUS
    <2>1. CASE tstatus'[t] = tstatus[t]
        BY <1>s, <2>1 DEF IInv, StrategyInv, Untouched
    <2>2. CASE Fresh(t)
        BY <1>s, <2>2 DEF IInv, StrategyInv, Fresh, Untouched, Preparing, SkipSteps
    <2> QED BY <1>s, <2>1, <2>2
<1>1. CASE TWFire
    <2>1. /\ UNCHANGED <<tstatus, strategy, patch, posts>>
          /\ tw'.pc = "next" /\ tw'.cur = {} /\ tw'.todo = PendingTasks
        BY <1>0, <1>1 DEF TWFire, TWType, IInv, WorkerInv
    <2>2. WorkerInv'
        BY <1>f, <2>1 DEF IInv, WorkerInv, PendingTasks
    <2>3. \A t \in Tasks : StrategyInv(t)'
        BY <1>s, <2>1
    <2> QED BY <2>2, <2>3 DEF IInv
<1>2. CASE TWGetDeployment
    <2>0. PICK t \in tw.todo :
           IF DeploymentLive(tdep[t])
           THEN /\ tw' = [tw EXCEPT !.pc = "get", !.cur = {t}, !.todo = @ \ {t},
                                    !.oneByOne = form[tdep[t]].oneByOne]
                /\ UNCHANGED tstatus
           ELSE /\ tw' = TWContinue(tw.todo \ {t})
                /\ tstatus' = [tstatus EXCEPT ![t] = IF TaskLive(t) THEN Erased ELSE @]
        BY <1>2 DEF TWGetDeployment
    <2>1. /\ UNCHANGED <<strategy, patch, posts>>
          /\ t \in Tasks /\ Fresh(t) /\ tstatus[t] \in {"pending", Erased}
        BY <1>0, <1>2 DEF TWGetDeployment, IInv, WorkerInv
    <2>2. CASE DeploymentLive(tdep[t])
        <3>1. /\ UNCHANGED tstatus
              /\ tw'.pc = "get" /\ tw'.cur = {t} /\ tw'.todo = tw.todo \ {t}
            BY <1>0, <2>0, <2>2 DEF TWType
        <3>2. WorkerInv'
            BY <1>0, <1>f, <2>1, <3>1 DEF IInv, WorkerInv
        <3>3. \A u \in Tasks : StrategyInv(u)'
            BY <1>s, <2>1, <3>1
        <3> QED BY <3>2, <3>3 DEF IInv
    <2>3. CASE ~DeploymentLive(tdep[t])
        <3>1. /\ tw'.pc \in {"idle", "next"} /\ tw'.cur = {}
              /\ tw'.todo = tw.todo \ {t}
            BY <2>0, <2>3 DEF TWContinue, IdleTW
        <3>2. /\ tstatus'[t] \in {tstatus[t], Erased}
              /\ \A u \in Tasks : u # t => tstatus'[u] = tstatus[u]
            BY <1>0, <2>0, <2>1, <2>3
        <3>3. WorkerInv'
            BY <1>0, <1>f, <2>1, <3>1, <3>2 DEF IInv, WorkerInv
        <3>4. \A u \in Tasks : StrategyInv(u)'
            BY <1>s, <2>1, <3>2
        <3> QED BY <3>3, <3>4 DEF IInv
    <2> QED BY <2>2, <2>3
<1>3. CASE TWGetTask
    <2>0. PICK t \in tw.cur :
            tw' = [tw EXCEPT !.pc = IF TaskLive(t) THEN "put" ELSE "spawn"]
        BY <1>3 DEF TWGetTask
    <2>1. /\ UNCHANGED <<tstatus, strategy, patch, posts>>
          /\ tw'.cur = tw.cur /\ tw'.todo = tw.todo
          /\ tw'.pc = IF TaskLive(t) THEN "put" ELSE "spawn"
        BY <1>0, <1>3, <2>0 DEF TWGetTask, TWType
    <2>2. /\ tw.cur = {t} /\ t \in Tasks
          /\ tstatus[t] \in {"pending", Erased}
        BY <1>0, <1>3 DEF TWGetTask, IInv, WorkerInv
    <2>3. tstatus[t] \in IF tw'.pc = "spawn" THEN {"running", Erased}
                         ELSE {"pending", Erased}
        BY <2>1, <2>2 DEF TaskLive, TaskStatus
    <2>4. WorkerInv'
        BY <1>0, <1>f, <2>1, <2>2, <2>3 DEF IInv, WorkerInv
    <2>5. \A u \in Tasks : StrategyInv(u)'
        BY <1>s, <2>1
    <2> QED BY <2>4, <2>5 DEF IInv
<1>4. CASE TWPutRunning
    <2>0. PICK t \in tw.cur :
         IF TaskLive(t)
         THEN /\ tstatus' = [tstatus EXCEPT ![t] = "running"]
              /\ tw' = [tw EXCEPT !.pc = "spawn"]
         ELSE tw' = IdleTW /\ UNCHANGED tstatus
        BY <1>4 DEF TWPutRunning
    <2>1. /\ UNCHANGED <<strategy, patch, posts>>
          /\ tw.cur = {t} /\ t \in Tasks /\ Fresh(t) /\ t \notin tw.todo
        BY <1>0, <1>4 DEF TWPutRunning, IInv, WorkerInv
    <2>2. CASE TaskLive(t)
        <3>1. /\ tw'.pc = "spawn" /\ tw'.cur = tw.cur /\ tw'.todo = tw.todo
              /\ tstatus'[t] = "running"
              /\ \A u \in Tasks : u # t => tstatus'[u] = tstatus[u]
            BY <1>0, <2>0, <2>1, <2>2 DEF TWType
        <3>2. WorkerInv'
            BY <1>0, <1>f, <2>1, <3>1 DEF IInv, WorkerInv
        <3>3. \A u \in Tasks : StrategyInv(u)'
            BY <1>s, <2>1, <3>1
        <3> QED BY <3>2, <3>3 DEF IInv
    <2>3. CASE ~TaskLive(t)
        <3>1. /\ UNCHANGED tstatus
              /\ tw'.pc = "idle" /\ tw'.cur = {} /\ tw'.todo = {}
            BY <2>0, <2>3 DEF IdleTW
        <3>2. WorkerInv'
            BY <1>f, <2>1, <3>1 DEF IInv, WorkerInv
        <3>3. \A u \in Tasks : StrategyInv(u)'
            BY <1>s, <2>1, <3>1
        <3> QED BY <3>2, <3>3 DEF IInv
    <2> QED BY <2>2, <2>3
<1>5. CASE TWSpawn
    <2>0. PICK t \in tw.cur :
            strategy' = IF tw.oneByOne THEN [strategy EXCEPT ![t] = NewStrategy]
                        ELSE strategy
        BY <1>5 DEF TWSpawn
    <2>1. /\ UNCHANGED <<tstatus, patch, posts>>
          /\ tw'.pc \in {"idle", "next"} /\ tw'.cur = {} /\ tw'.todo = tw.todo
          /\ t \in Tasks /\ Fresh(t) /\ t \notin tw.todo
          /\ tstatus[t] \in {"running", Erased}
        BY <1>0, <1>5 DEF TWSpawn, TWContinue, IdleTW, IInv, WorkerInv
    <2>2. \A u \in Tasks : u # t => strategy'[u] = strategy[u]
        BY <1>0, <2>0, <2>1
    <2>3. strategy'[t] \in {strategy[t], NewStrategy}
        BY <1>0, <2>0, <2>1
    <2>4. \A u \in Tasks : u # t /\ Fresh(u) => Fresh(u)'
        BY <2>1, <2>2 DEF Fresh, Untouched
    <2>5. WorkerInv'
        BY <1>0, <2>1, <2>4 DEF IInv, WorkerInv
    <2>6. ASSUME NEW u \in Tasks PROVE StrategyInv(u)'
        <3>1. CASE u # t \/ strategy'[u] = strategy[u]
            BY <2>1, <2>2, <2>6, <3>1 DEF IInv, StrategyInv, Untouched
        <3>2. CASE u = t /\ strategy'[u] = NewStrategy
            BY <2>1, <3>2 DEF StrategyInv, Fresh, Untouched, NewStrategy, NoStrategy,
               Preparing, SkipSteps
        <3> QED BY <2>3, <3>1, <3>2
    <2> QED BY <2>5, <2>6 DEF IInv
<1> QED BY <1>1, <1>2, <1>3, <1>4, <1>5 DEF TaskWorker

\* A strategy that replaces its record, and nothing else of the invariant.
LEMMA Replace ==
    ASSUME TypeOK, IInv, NEW t \in Tasks, strategy[t].pc # "none", NEW r,
           strategy' = [strategy EXCEPT ![t] = r],
           UNCHANGED <<tstatus, tw, patch, posts>>
    PROVE  /\ strategy'[t] = r
           /\ StrategyInv(t)' => IInv'
<1>1. /\ strategy'[t] = r
      /\ \A u \in Tasks \ {t} : strategy'[u] = strategy[u]
    BY Shapes
<1>2. tstatus[t] \in {"running", "skipped", Erased}
    BY Shapes DEF IInv, WorkerInv, Fresh, TEntry, TaskStatus
<1> QED BY <1>1, <1>2, Locality

\* A strategy may end whenever it waits for nobody.
LEMMA ExitInv ==
    ASSUME TypeOK, IInv, NEW t \in Tasks, strategy[t].pc \notin {"none", "wait"},
           Exit(t), UNCHANGED <<tstatus, tw, patch, posts>>
    PROVE  IInv'
<1>1. strategy'[t] = NoStrategy /\ (StrategyInv(t)' => IInv')
    BY Replace DEF Exit
<1>2. StrategyInv(t)'
    BY <1>1 DEF IInv, StrategyInv, Untouched, NoStrategy, Preparing, SkipSteps
<1> QED BY <1>1, <1>2

\* The moves between two steps of a strategy that keep its list of hosts.
Moves(t, pc) ==
    \/ strategy[t].pc \in Preparing /\ pc \in (Preparing \ {"hosts"}) \cup {"loop"}
    \/ strategy[t].pc = "loop" /\ strategy[t].found = 0 /\ pc = "getTaskSkip"
    \/ /\ strategy[t].pc \in SkipSteps /\ pc \in SkipSteps
       /\ tstatus[t] = "skipped" => pc \in {"getDepSkip", "putDepSkip"}

LEMMA MoveInv ==
    ASSUME TypeOK, IInv, NEW t \in Tasks, NEW pc, NEW seen, Moves(t, pc),
           strategy' = [strategy EXCEPT ![t] = [@ EXCEPT !.pc = pc, !.seen = seen]],
           UNCHANGED <<tstatus, tw, patch, posts>>
    PROVE  IInv'
<1> DEFINE r == [strategy[t] EXCEPT !.pc = pc, !.seen = seen]
<1>0. strategy[t].pc # "none"
    BY DEF Moves, Preparing, SkipSteps
<1>1. strategy'[t] = r /\ (StrategyInv(t)' => IInv')
    BY <1>0, Replace
<1>2. r.pc = pc /\ r.hosts = strategy[t].hosts /\ r.found = strategy[t].found
    BY Shapes DEF SType
<1>3. StrategyInv(t)'
    <2>1. CASE strategy[t].pc \in Preparing
        BY <1>1, <1>2, <2>1 DEF Moves, IInv, StrategyInv, Untouched, Preparing, SkipSteps
    <2>2. CASE strategy[t].pc = "loop"
        BY <1>1, <1>2, <2>2 DEF Moves, IInv, StrategyInv, Untouched, Preparing, SkipSteps
    <2>3. CASE strategy[t].pc \in SkipSteps
        BY <1>1, <1>2, <2>3 DEF Moves, IInv, StrategyInv, Untouched, Preparing, SkipSteps
    <2> QED BY <2>1, <2>2, <2>3 DEF Moves
<1> QED BY <1>1, <1>3

LEMMA GotoInv ==
    ASSUME TypeOK, IInv, NEW t \in Tasks, NEW pc, Moves(t, pc), Goto(t, pc),
           UNCHANGED <<tstatus, tw, patch, posts>>
    PROVE  IInv'
BY MoveInv DEF Goto

\* Both halves of an update, whose row may or may not be there.
LEMMA GetInv ==
    ASSUME TypeOK, IInv, NEW t \in Tasks, NEW pc, NEW live, NEW status, NEW put,
           NEW missing, Get(t, pc, live, status, put, missing), Moves(t, put),
           missing => IInv'
    PROVE  IInv'
<1>1. UNCHANGED <<tstatus, tw, patch, posts>>
    BY DEF Get, dbVars, taskVars, agentVars
<1>2. \/ strategy' = [strategy EXCEPT ![t] = [@ EXCEPT !.pc = put, !.seen = status]]
      \/ missing
    BY DEF Get
<1> QED BY <1>1, <1>2, MoveInv

LEMMA PutDeploymentInv ==
    ASSUME TypeOK, IInv, NEW t \in Tasks, NEW pc, NEW status, NEW next,
           strategy[t].pc \notin {"none", "wait"},
           PutDeployment(t, pc, status, next),
           next /\ UNCHANGED <<tstatus, tw, patch, posts>> => IInv'
    PROVE  IInv'
<1>1. UNCHANGED <<tstatus, tw, patch, posts>>
    BY DEF PutDeployment, taskVars, agentVars
<1>2. Exit(t) \/ next
    BY DEF PutDeployment, PutStale
<1> QED BY <1>1, <1>2, ExitInv

\* The last update of a task whose rollout found no host.
LEMMA PutSkippedInv ==
    ASSUME TypeOK, IInv, NEW t \in Tasks,
           PutTask(t, "putTaskSkip", "skipped", Goto(t, "getDepSkip"))
    PROVE  IInv'
<1>1. /\ strategy[t].pc = "putTaskSkip"
      /\ UNCHANGED <<tw, patch, posts>>
    BY DEF PutTask, agentVars
<1>2. CASE UNCHANGED tstatus
    <2>1. Exit(t) \/ Goto(t, "getDepSkip")
        BY DEF PutTask, PutStale
    <2>2. Moves(t, "getDepSkip")
        BY <1>1 DEF Moves, SkipSteps
    <2> QED BY <1>1, <1>2, <2>1, <2>2, ExitInv, GotoInv
<1>3. CASE tstatus' = [tstatus EXCEPT ![t] = "skipped"] /\ Goto(t, "getDepSkip")
    <2>1. /\ tstatus'[t] = "skipped"
          /\ \A u \in Tasks \ {t} : tstatus'[u] = tstatus[u]
        BY <1>3, Shapes
    <2>2. /\ strategy'[t] = [strategy[t] EXCEPT !.pc = "getDepSkip", !.seen = "none"]
          /\ \A u \in Tasks \ {t} : strategy'[u] = strategy[u]
        BY <1>3, Shapes DEF Goto
    <2>3. /\ strategy'[t].pc = "getDepSkip"
          /\ strategy'[t].hosts = strategy[t].hosts
          /\ strategy'[t].found = strategy[t].found
        BY <2>2, Shapes DEF SType
    <2>4. StrategyInv(t)'
        BY <1>1, <2>1, <2>3 DEF IInv, StrategyInv, Untouched, Preparing, SkipSteps
    <2> QED BY <1>1, <2>1, <2>2, <2>4, Locality
<1>4. \/ UNCHANGED tstatus
      \/ tstatus' = [tstatus EXCEPT ![t] = "skipped"] /\ Goto(t, "getDepSkip")
    BY DEF PutTask
<1> QED BY <1>2, <1>3, <1>4

LEMMA OneByOneInv == ASSUME TypeOK, IInv, NEW t \in Tasks, OneByOne(t) PROVE IInv'
<1> USE DEF dbVars, taskVars, agentVars
<1>m. ASSUME NEW pc \in (Preparing \ {"hosts"}) \cup {"loop"},
             strategy[t].pc \in Preparing
      PROVE  Moves(t, pc)
    BY <1>m DEF Moves
<1>1. CASE StrategyTargetHosts(t)
    <2>1. strategy[t].pc = "hosts" /\ UNCHANGED <<tstatus, tw, patch, posts>>
        BY <1>1 DEF StrategyTargetHosts
    <2>2. CASE DeploymentLive(tdep[t])
        <3> DEFINE targets == TargetHosts(tdep[t])
                   r == [strategy[t] EXCEPT !.pc = "getDep", !.hosts = targets,
                                            !.found = Cardinality(targets)]
        <3>1. strategy' = [strategy EXCEPT ![t] = r]
            BY <1>1, <2>2 DEF StrategyTargetHosts
        <3>2. strategy'[t] = r /\ (StrategyInv(t)' => IInv')
            BY <2>1, <3>1, Replace
        <3>3. r.pc = "getDep" /\ r.hosts = targets /\ r.found = Cardinality(targets)
            BY Shapes DEF SType
        <3>4. tdep[t] \in Deployments
            BY DEF TypeOK
        <3>5. targets \subseteq Hosts /\ (Cardinality(targets) = 0 => targets = {})
            BY <3>4, TargetsFinite
        <3>6. strategy'[t].pc = "getDep" /\ strategy'[t].hosts \subseteq Hosts
              /\ (strategy'[t].found = 0 => strategy'[t].hosts = {})
            BY <3>2, <3>3, <3>5
        <3>7. StrategyInv(t)'
            BY <2>1, <3>6 DEF IInv, StrategyInv, Untouched, Preparing, SkipSteps
        <3> QED BY <3>2, <3>7
    <2>3. CASE ~DeploymentLive(tdep[t])
        BY <1>1, <2>1, <2>3, ExitInv DEF StrategyTargetHosts
    <2> QED BY <2>2, <2>3
<1>2. CASE StrategyDeploymentRunning(t)
    <2>1. ASSUME strategy[t].pc \in Preparing, Goto(t, "getTask"),
                 UNCHANGED <<tstatus, tw, patch, posts>>
          PROVE  IInv'
        BY <1>m, <2>1, GotoInv DEF Preparing
    <2>2. CASE Get(t, "getDep", DeploymentLive(tdep[t]), dstatus[tdep[t]], "putDep",
                   Goto(t, "getTask"))
        <3>1. strategy[t].pc = "getDep" /\ UNCHANGED <<tstatus, tw, patch, posts>>
            BY <2>2 DEF Get
        <3>2. Moves(t, "putDep")
            BY <1>m, <3>1 DEF Preparing
        <3>3. Goto(t, "getTask") => IInv'
            BY <2>1, <3>1 DEF Preparing
        <3> QED BY <2>2, <3>2, <3>3, GetInv
    <2>3. CASE PutDeployment(t, "putDep", "running", Goto(t, "getTask"))
        <3>1. strategy[t].pc = "putDep"
            BY <2>3 DEF PutDeployment
        <3> QED BY <2>1, <2>3, <3>1, PutDeploymentInv DEF Preparing
    <2> QED BY <1>2, <2>2, <2>3 DEF StrategyDeploymentRunning
<1>3. CASE StrategyTaskRunning(t)
    <2>1. ASSUME strategy[t].pc \in Preparing, Goto(t, "getResult"),
                 UNCHANGED <<tstatus, tw, patch, posts>>
          PROVE  IInv'
        BY <1>m, <2>1, GotoInv DEF Preparing
    <2>2. CASE Get(t, "getTask", TaskLive(t), tstatus[t], "putTask",
                   Goto(t, "getResult"))
        <3>1. strategy[t].pc = "getTask" /\ UNCHANGED <<tstatus, tw, patch, posts>>
            BY <2>2 DEF Get
        <3>2. Moves(t, "putTask")
            BY <1>m, <3>1 DEF Preparing
        <3>3. Goto(t, "getResult") => IInv'
            BY <2>1, <3>1 DEF Preparing
        <3> QED BY <2>2, <3>2, <3>3, GetInv
    <2>3. CASE PutTask(t, "putTask", "running", Goto(t, "getResult"))
        <3>1. strategy[t].pc = "putTask" /\ UNCHANGED <<tw, patch, posts>>
            BY <2>3 DEF PutTask
        <3>2. TaskLive(t) => tstatus[t] = "running"
            BY <3>1 DEF IInv, StrategyInv, Preparing, TaskLive, TaskStatus
        <3>3. UNCHANGED tstatus
            BY <2>3, <3>2, Shapes DEF PutTask
        <3>4. Exit(t) \/ Goto(t, "getResult")
            BY <2>3 DEF PutTask, PutStale
        <3> QED BY <2>1, <3>1, <3>3, <3>4, ExitInv DEF Preparing
    <2> QED BY <1>3, <2>2, <2>3 DEF StrategyTaskRunning
<1>4. CASE StrategyResult(t)
    <2>1. ASSUME strategy[t].pc \in Preparing, Goto(t, "loop"),
                 UNCHANGED <<tstatus, tw, patch, posts>>
          PROVE  IInv'
        BY <1>m, <2>1, GotoInv
    <2>2. CASE Get(t, "getResult", TaskLive(t), tstatus[t], "putResult",
                   Goto(t, "loop"))
        <3>1. strategy[t].pc = "getResult" /\ UNCHANGED <<tstatus, tw, patch, posts>>
            BY <2>2 DEF Get
        <3>2. Moves(t, "putResult")
            BY <1>m, <3>1 DEF Preparing
        <3>3. Goto(t, "loop") => IInv'
            BY <2>1, <3>1 DEF Preparing
        <3> QED BY <2>2, <3>2, <3>3, GetInv
    <2>3. CASE ~Get(t, "getResult", TaskLive(t), tstatus[t], "putResult",
                    Goto(t, "loop"))
        <3>1. /\ strategy[t].pc = "putResult" /\ UNCHANGED <<tstatus, tw, patch, posts>>
              /\ Exit(t) \/ Goto(t, "loop")
            BY <1>4, <2>3 DEF StrategyResult
        <3> QED BY <2>1, <3>1, ExitInv DEF Preparing
    <2> QED BY <2>2, <2>3
<1>5. CASE StrategyNextHost(t)
    <2>0. PICK h \in strategy[t].hosts :
           /\ patch' = [patch EXCEPT ![t][h] = "post"]
           /\ strategy' = [strategy EXCEPT ![t] =
                [@ EXCEPT !.pc = "wait", !.hosts = strategy[t].hosts \ {h},
                          !.at = {h}]]
        BY <1>5 DEF StrategyNextHost
    <2>1. strategy[t].pc = "loop" /\ UNCHANGED <<tstatus, tw, posts>> /\ h \in Hosts
        BY <1>5, Shapes DEF StrategyNextHost, SType
    <2>2. /\ strategy'[t].pc = "wait" /\ strategy'[t].at = {h}
          /\ strategy'[t].hosts = strategy[t].hosts \ {h}
          /\ strategy'[t].found = strategy[t].found
          /\ \A u \in Tasks \ {t} : strategy'[u] = strategy[u]
        BY <2>0, Shapes DEF SType
    <2>3. /\ patch'[t][h] = "post"
          /\ \A g \in Hosts \ {h} : patch'[t][g] = patch[t][g]
          /\ \A u \in Tasks \ {t} : patch'[u] = patch[u]
        BY <2>0, <2>1, Shapes
    <2>4. /\ tstatus[t] \in {"running", Erased} /\ strategy[t].found # 0
          /\ \A g \in strategy[t].hosts : posts[t][g] = 0 /\ patch[t][g] = "none"
          /\ \A g \in Hosts : posts[t][g] <= 1 /\ patch[t][g] = "none"
          /\ strategy[t].hosts \subseteq Hosts
        BY <2>0, <2>1, Shapes DEF IInv, StrategyInv, SType
    <2>5. StrategyInv(t)'
        BY <2>1, <2>2, <2>3, <2>4 DEF StrategyInv, Untouched, Preparing, SkipSteps
    <2> QED BY <2>1, <2>2, <2>3, <2>4, <2>5, Locality
<1>6. CASE StrategyWaitOver(t)
    <2> DEFINE r == [strategy[t] EXCEPT !.pc = "loop", !.at = {}]
    <2>1. /\ strategy[t].pc = "wait" /\ UNCHANGED <<tstatus, tw, patch, posts>>
          /\ \A h \in strategy[t].at : patch[t][h] = "none"
          /\ strategy' = [strategy EXCEPT ![t] = r]
        BY <1>6 DEF StrategyWaitOver
    <2>2. strategy'[t] = r /\ (StrategyInv(t)' => IInv')
        BY <2>1, Replace
    <2>3. /\ strategy'[t].pc = "loop" /\ strategy'[t].hosts = strategy[t].hosts
          /\ strategy'[t].found = strategy[t].found
        BY <2>2, Shapes DEF SType
    <2>4. StrategyInv(t)'
        BY <2>1, <2>3 DEF IInv, StrategyInv, Untouched, Preparing, SkipSteps
    <2> QED BY <2>2, <2>4
<1>7. CASE StrategyLoopOver(t)
    <2>1. strategy[t].pc = "loop" /\ UNCHANGED <<tstatus, tw, patch, posts>>
        BY <1>7 DEF StrategyLoopOver
    <2>2. CASE strategy[t].found = 0
        BY <1>7, <2>1, <2>2, GotoInv DEF StrategyLoopOver, Moves
    <2>3. CASE strategy[t].found # 0
        BY <1>7, <2>1, <2>3, ExitInv DEF StrategyLoopOver
    <2> QED BY <2>2, <2>3
<1>8. CASE StrategySkip(t)
    <2>m. ASSUME NEW pc \in {"getDepSkip", "putDepSkip"}, strategy[t].pc \in SkipSteps
          PROVE  Moves(t, pc)
        BY <2>m DEF Moves, SkipSteps
    <2>1. CASE Get(t, "getTaskSkip", TaskLive(t), tstatus[t], "putTaskSkip",
                   Goto(t, "getDepSkip"))
        <3>1. strategy[t].pc = "getTaskSkip" /\ UNCHANGED <<tstatus, tw, patch, posts>>
            BY <2>1 DEF Get
        <3>2. Moves(t, "putTaskSkip")
            BY <3>1 DEF Moves, SkipSteps, IInv, StrategyInv
        <3>3. Goto(t, "getDepSkip") => IInv'
            BY <2>m, <3>1, GotoInv DEF SkipSteps
        <3> QED BY <2>1, <3>2, <3>3, GetInv
    <2>2. CASE PutTask(t, "putTaskSkip", "skipped", Goto(t, "getDepSkip"))
        BY <2>2, PutSkippedInv
    <2>3. CASE Get(t, "getDepSkip", DeploymentLive(tdep[t]), dstatus[tdep[t]],
                   "putDepSkip", Exit(t))
        <3>1. strategy[t].pc = "getDepSkip" /\ UNCHANGED <<tstatus, tw, patch, posts>>
            BY <2>3 DEF Get
        <3>2. Moves(t, "putDepSkip")
            BY <2>m, <3>1 DEF SkipSteps
        <3>3. Exit(t) => IInv'
            BY <3>1, ExitInv
        <3> QED BY <2>3, <3>2, <3>3, GetInv
    <2>4. CASE PutDeployment(t, "putDepSkip", "skipped", Exit(t))
        <3>1. strategy[t].pc = "putDepSkip"
            BY <2>4 DEF PutDeployment
        <3>2. Exit(t) /\ UNCHANGED <<tstatus, tw, patch, posts>> => IInv'
            BY <3>1, ExitInv
        <3> QED BY <2>4, <3>1, <3>2, PutDeploymentInv
    <2> QED BY <1>8, <2>1, <2>2, <2>3, <2>4 DEF StrategySkip
<1> QED BY <1>1, <1>2, <1>3, <1>4, <1>5, <1>6, <1>7, <1>8 DEF OneByOne

\* A step of a PatchTask changes what it has posted and where it is; the
\* strategy of its task waits for it.
LEMMA PatchInv ==
    ASSUME TypeOK, IInv, NEW t \in Tasks, NEW h \in Hosts, Patch(t, h) PROVE IInv'
<1> USE DEF dbVars, taskVars, agentVars, PatchEnd
<1>1. UNCHANGED <<tstatus, tw, strategy>> /\ patch[t][h] # "none"
    BY DEF Patch, PatchUnreachable, PatchAccepted, PatchRefused, PatchAnswerLost,
           PatchCheck
<1>2. /\ strategy[t].pc = "wait" /\ h \in strategy[t].at
      /\ tstatus[t] \in {"running", Erased} /\ strategy[t].found # 0
      /\ \A g \in strategy[t].hosts : g \in Hosts /\ posts[t][g] = 0
                                      /\ patch[t][g] = "none"
      /\ \A g \in Hosts : posts[t][g] <= 1
                          /\ (patch[t][g] # "none" => g \in strategy[t].at)
                          /\ (patch[t][g] = "post" => posts[t][g] = 0)
    BY <1>1, Shapes DEF IInv, StrategyInv, SType
\* What the five actions have in common.
<1>3. \E new \in {"none", "poll"} :
        /\ patch' = [patch EXCEPT ![t][h] = new]
        /\ \/ posts' = posts
           \/ patch[t][h] = "post" /\ posts' = [posts EXCEPT ![t][h] = @ + 1]
    BY DEF Patch, PatchUnreachable, PatchAccepted, PatchRefused, PatchAnswerLost,
           PatchCheck
<1>4. PICK new \in {"none", "poll"} :
        /\ patch' = [patch EXCEPT ![t][h] = new]
        /\ \/ posts' = posts
           \/ patch[t][h] = "post" /\ posts' = [posts EXCEPT ![t][h] = @ + 1]
    BY <1>3
<1>5. /\ patch'[t][h] = new
      /\ \A g \in Hosts \ {h} : patch'[t][g] = patch[t][g]
      /\ \A u \in Tasks \ {t} : patch'[u] = patch[u]
    BY <1>4, Shapes
<1>6. /\ posts'[t][h] <= 1
      /\ \A g \in Hosts \ {h} : posts'[t][g] = posts[t][g]
      /\ \A u \in Tasks \ {t} : posts'[u] = posts[u]
    <2>1. CASE posts' = posts
        BY <1>2, <2>1
    <2>2. CASE patch[t][h] = "post" /\ posts' = [posts EXCEPT ![t][h] = @ + 1]
        BY <1>2, <2>2, Shapes
    <2> QED BY <1>4, <2>1, <2>2
<1>7. h \notin strategy[t].hosts
    BY <1>1, <1>2
<1>8. StrategyInv(t)'
    BY <1>1, <1>2, <1>5, <1>6, <1>7 DEF StrategyInv, Untouched, Preparing, SkipSteps
<1> QED BY <1>1, <1>2, <1>5, <1>6, <1>8, Locality

LEMMA AgentInv ==
    ASSUME IInv, NEW t \in Tasks, NEW h \in Hosts, Outcome(t, h)
    PROVE  IInv'
BY InvFrame DEF Outcome, AgentReport, CreateTaskLog, dbVars, taskVars, procVars,
   agentVars

\* A crash only takes processes away.
LEMMA CrashesInv == TypeOK /\ IInv /\ Crashes => IInv'
<1> SUFFICES ASSUME TypeOK, IInv, Crashes PROVE IInv'
    OBVIOUS
<1> USE DEF dbVars, taskVars, agentVars
<1>1. CASE DWCrash
    BY <1>1, InvFrame DEF DWCrash
<1>2. ASSUME tw' \in {tw, IdleTW}, UNCHANGED <<tstatus, posts>>,
             \/ UNCHANGED <<strategy, patch>>
             \/ /\ strategy' = [t \in Tasks |-> NoStrategy]
                /\ patch' = [t \in Tasks |-> [h \in Hosts |-> "none"]]
      PROVE  IInv'
    <2>1. \A t \in Tasks : Fresh(t) => Fresh(t)'
        BY <1>2 DEF Fresh, Untouched, NoStrategy
    <2>2. WorkerInv'
        BY <1>2, <2>1, Shapes DEF IInv, WorkerInv, IdleTW, TWType
    <2>3. ASSUME NEW t \in Tasks PROVE StrategyInv(t)'
        <3>1. CASE UNCHANGED <<strategy, patch>>
            BY <1>2, <3>1 DEF IInv, StrategyInv, Untouched
        <3>2. CASE /\ strategy' = [u \in Tasks |-> NoStrategy]
                   /\ patch' = [u \in Tasks |-> [h \in Hosts |-> "none"]]
            <4>1. /\ strategy'[t] = NoStrategy
                  /\ \A h \in Hosts : patch'[t][h] = "none"
                BY <3>2
            <4> QED BY <1>2, <4>1 DEF IInv, StrategyInv, Untouched, NoStrategy,
                       Preparing, SkipSteps
        <3> QED BY <1>2, <3>1, <3>2
    <2> QED BY <2>2, <2>3 DEF IInv
<1>3. CASE TWCrash
    BY <1>2, <1>3 DEF TWCrash
<1>4. CASE NodeRestart
    BY <1>2, <1>4 DEF NodeRestart
<1>5. ASSUME NEW t \in Tasks, StrategyCrash(t) PROVE IInv'
    <2>1. strategy[t].pc \notin {"none", "wait"}
        BY <1>5 DEF StrategyCrash, StrategyDbSteps
    <2> QED BY <1>5, <2>1, ExitInv DEF StrategyCrash
<1>6. ASSUME NEW t \in Tasks, NEW h \in Hosts, PatchCrash(t, h) PROVE IInv'
    <2>1. /\ UNCHANGED <<tstatus, tw, strategy, posts>> /\ patch[t][h] = "poll"
          /\ patch' = [patch EXCEPT ![t][h] = "none"]
        BY <1>6 DEF PatchCrash, PatchEnd
    <2>2. /\ patch'[t][h] = "none"
          /\ \A g \in Hosts \ {h} : patch'[t][g] = patch[t][g]
          /\ \A u \in Tasks \ {t} : patch'[u] = patch[u]
        BY <2>1, Shapes
    <2>3. strategy[t].pc = "wait" /\ tstatus[t] \in {"running", Erased}
        BY <2>1 DEF IInv, StrategyInv
    <2>4. \A g \in strategy[t].hosts : g \in Hosts
        BY Shapes DEF SType
    <2>5. StrategyInv(t)'
        BY <2>1, <2>2, <2>3, <2>4 DEF IInv, StrategyInv, Untouched, Preparing,
           SkipSteps
    <2> QED BY <2>1, <2>2, <2>3, <2>5, Locality
<1> QED BY <1>1, <1>3, <1>4, <1>5, <1>6 DEF Crashes

----------------------------------------------------------------------------

\* The processes agree with the tables: whoever may still act for a task has
\* not acted twice, and nobody acts for a task that has not been marked
\* (task_worker.ex, one_by_one_strategy.ex, patch_task.ex).
THEOREM Invariance == Spec => []IInv
<1>1. TypeOK /\ IInv /\ [Next]_vars => IInv'
    <2> SUFFICES ASSUME TypeOK, IInv, [Next]_vars PROVE IInv'
        OBVIOUS
    <2>1. CASE UNCHANGED vars
        BY <2>1, InvFrame DEF vars, dbVars, taskVars, procVars, agentVars
    <2>2. CASE Next
        BY <2>2, RequestsInv, DeploymentWorkerInv, TaskWorkerInv, OneByOneInv,
           PatchInv, AgentInv, CrashesInv DEF Next
    <2> QED BY <2>1, <2>2
<1> QED BY <1>1, InitInv, TypeCorrect, PTL DEF Spec

\* However the workers, the requests and the crashes interleave, a task posts
\* its patch command to a host at most once.
THEOREM AtMostOneCommand == Spec => []CommandedOnce
<1>1. IInv => CommandedOnce
    BY DEF IInv, StrategyInv, CommandedOnce
<1> QED BY <1>1, Invariance, PTL

\* A task whose status is "skipped" has commanded nobody, and no process that
\* could command somebody is left.
THEOREM SkippedForGood == Spec => []SkippedIsUntouched
<1>1. ASSUME IInv, NEW t \in Tasks, tstatus[t] = "skipped"
      PROVE  /\ Commanded(t) = {} /\ strategy[t].hosts = {}
             /\ \A h \in Hosts : patch[t][h] = "none"
    <2>1. Untouched(t) /\ strategy[t].pc \in {"none", "getDepSkip", "putDepSkip"}
        BY <1>1 DEF IInv, StrategyInv
    <2>2. strategy[t].hosts = {}
        BY <1>1, <2>1 DEF IInv, StrategyInv, SkipSteps
    <2>3. \A h \in Hosts : posts[t][h] = 0
        BY <2>1 DEF Untouched
    <2> QED BY <2>1, <2>2, <2>3 DEF Untouched, Commanded
<1>2. IInv => SkippedIsUntouched
    BY <1>1 DEF SkippedIsUntouched
<1> QED BY <1>2, Invariance, PTL
----------------------------------------------------------------------------
\* Seen through tasks.status and the commands posted, every step is a step of
\* PatchCampaign or none at all.

LEMMA InitSimulates == Init => Campaign!Init
BY DEF Init, Campaign!Init

\* Steps that touch neither the status of a task nor what was posted.
LEMMA Stutters == UNCHANGED <<tstatus, posts>> => UNCHANGED Campaign!campaignVars
BY DEF Campaign!campaignVars

\* A step that changes the status of one task only.
LEMMA OneStatus ==
    ASSUME TypeOK, NEW t \in Tasks, NEW status,
           tstatus' = [tstatus EXCEPT ![t] = status], posts' = posts
    PROVE  /\ tstatus[t] = "none" /\ status = "pending" => Campaign!Open(t)
           /\ tstatus[t] = "pending" /\ status = "running" => Campaign!Start(t)
           /\ tstatus[t] = "running" /\ status = "skipped" /\ Untouched(t)
                => Campaign!Skip(t)
           /\ TaskLive(t) /\ status = Erased => Campaign!Drop({t})
<1>1. tstatus \in [Tasks -> TEntry]
    BY Shapes
<1>2. ASSUME TaskLive(t), status = Erased PROVE Campaign!Drop({t})
    <2>1. tstatus' = [u \in Tasks |-> IF u \in {t} THEN "deleted" ELSE tstatus[u]]
        BY <1>1, <1>2
    <2>2. tstatus[t] \in {"pending", "running", "skipped"}
        BY <1>2 DEF TaskLive, TaskStatus
    <2> QED BY <2>1, <2>2 DEF Campaign!Drop
<1> QED BY <1>2 DEF Campaign!Open, Campaign!Start, Campaign!Skip, Untouched

LEMMA RequestsSimulate ==
    TypeOK /\ Requests => Campaign!Next \/ UNCHANGED <<tstatus, posts>>
<1> SUFFICES ASSUME TypeOK, Requests
             PROVE  Campaign!Next \/ UNCHANGED <<tstatus, posts>>
    OBVIOUS
<1> USE DEF depVars, taskVars, procVars, agentVars
<1>1. ASSUME NEW d \in Deployments, DeleteDeployment(d) PROVE Campaign!Next
    <2>1. TasksOf(d) \in SUBSET Tasks
        BY DEF TasksOf
    <2>2. \A t \in TasksOf(d) : tstatus[t] \in {"pending", "running", "skipped"}
        BY DEF TasksOf, TaskLive, TaskStatus
    <2>3. Campaign!Drop(TasksOf(d))
        BY <1>1, <2>2 DEF Campaign!Drop, DeleteDeployment
    <2> QED BY <2>1, <2>3 DEF Campaign!Next
<1>2. ASSUME NEW d \in Deployments,
             CreateDeployment(d) \/ UpdateDeployment(d) \/ ScheduleTimePasses(d)
      PROVE  UNCHANGED <<tstatus, posts>>
    BY <1>2 DEF CreateDeployment, UpdateDeployment, ScheduleTimePasses
<1>3. ASSUME NEW h \in Hosts, CreateHost(h) \/ UpdateHost(h) \/ DeleteHost(h)
      PROVE  UNCHANGED <<tstatus, posts>>
    BY <1>3 DEF CreateHost, UpdateHost, DeleteHost
<1> QED BY <1>1, <1>2, <1>3 DEF Requests

LEMMA WorkersSimulate ==
    TypeOK /\ IInv /\ (DeploymentWorker \/ TaskWorker)
        => Campaign!Next \/ UNCHANGED <<tstatus, posts>>
<1> SUFFICES ASSUME TypeOK, IInv, DeploymentWorker \/ TaskWorker
             PROVE  Campaign!Next \/ UNCHANGED <<tstatus, posts>>
    OBVIOUS
<1> USE DEF dbVars, depVars, taskVars, agentVars
<1>1. CASE DWCreateTask
    <2>1. UNCHANGED posts
        BY <1>1 DEF DWCreateTask
    <2>2. \/ UNCHANGED tstatus
          \/ \E t \in Tasks : /\ tstatus[t] = "none"
                              /\ tstatus' = [tstatus EXCEPT ![t] = "pending"]
        BY <1>1 DEF DWCreateTask, NextTask
    <2> QED BY <2>1, <2>2, OneStatus DEF Campaign!Next
<1>2. CASE TWGetDeployment
    <2>1. UNCHANGED posts
        BY <1>2 DEF TWGetDeployment
    <2>2. PICK t \in tw.todo :
            \/ UNCHANGED tstatus
            \/ tstatus' = [tstatus EXCEPT ![t] = IF TaskLive(t) THEN Erased ELSE @]
        BY <1>2 DEF TWGetDeployment
    <2>3. t \in Tasks
        BY Shapes DEF TWType
    <2>4. \/ UNCHANGED tstatus
          \/ TaskLive(t) /\ tstatus' = [tstatus EXCEPT ![t] = Erased]
        BY <2>2, <2>3, Shapes
    <2>5. TaskLive(t) /\ tstatus' = [tstatus EXCEPT ![t] = Erased] => Campaign!Drop({t})
        BY <2>1, <2>3, OneStatus
    <2>6. Campaign!Drop({t}) => Campaign!Next
        BY <2>3 DEF Campaign!Next
    <2> QED BY <2>1, <2>4, <2>5, <2>6
<1>3. CASE TWPutRunning
    <2>1. UNCHANGED posts
        BY <1>3 DEF TWPutRunning
    <2>2. PICK t \in tw.cur :
            \/ UNCHANGED tstatus
            \/ TaskLive(t) /\ tstatus' = [tstatus EXCEPT ![t] = "running"]
        BY <1>3 DEF TWPutRunning
    <2>3. t \in Tasks /\ (TaskLive(t) => tstatus[t] = "pending")
        BY <1>3, Shapes DEF TWType, TWPutRunning, IInv, WorkerInv, TaskLive, TaskStatus
    <2> QED BY <2>1, <2>2, <2>3, OneStatus DEF Campaign!Next
<1>4. CASE DWFire \/ DWGetDeployment \/ DWPutPending \/ TWFire \/ TWGetTask \/ TWSpawn
    BY <1>4 DEF DWFire, DWGetDeployment, DWPutPending, TWFire, TWGetTask, TWSpawn
<1> QED BY <1>1, <1>2, <1>3, <1>4 DEF DeploymentWorker, TaskWorker

LEMMA StrategySimulates ==
    ASSUME TypeOK, IInv, NEW t \in Tasks, OneByOne(t)
    PROVE  Campaign!Next \/ UNCHANGED <<tstatus, posts>>
<1> USE DEF dbVars, depVars, taskVars, agentVars
<1>1. CASE StrategyTaskRunning(t)
    <2>1. TaskLive(t) /\ strategy[t].pc = "putTask" => tstatus[t] = "running"
        BY DEF IInv, StrategyInv, Preparing, TaskLive, TaskStatus
    <2> QED BY <1>1, <2>1, Shapes DEF StrategyTaskRunning, Get, PutTask
<1>2. CASE StrategySkip(t)
    <2>1. CASE PutTask(t, "putTaskSkip", "skipped", Goto(t, "getDepSkip"))
        <3>1. /\ TaskLive(t) => tstatus[t] = "running"
              /\ Untouched(t)
            BY <2>1 DEF PutTask, IInv, StrategyInv, SkipSteps, TaskLive, TaskStatus
        <3>2. /\ UNCHANGED posts
              /\ \/ UNCHANGED tstatus
                 \/ TaskLive(t) /\ tstatus' = [tstatus EXCEPT ![t] = "skipped"]
            BY <2>1 DEF PutTask
        <3> QED BY <3>1, <3>2, OneStatus DEF Campaign!Next
    <2>2. CASE ~PutTask(t, "putTaskSkip", "skipped", Goto(t, "getDepSkip"))
        BY <1>2, <2>2 DEF StrategySkip, Get, PutDeployment
    <2> QED BY <2>1, <2>2
<1>3. CASE StrategyDeploymentRunning(t)
    BY <1>3 DEF StrategyDeploymentRunning, Get, PutDeployment
<1>4. CASE StrategyResult(t)
    BY <1>4 DEF StrategyResult, Get
<1>5. CASE StrategyTargetHosts(t) \/ StrategyNextHost(t) \/ StrategyWaitOver(t)
           \/ StrategyLoopOver(t)
    BY <1>5 DEF StrategyTargetHosts, StrategyNextHost, StrategyWaitOver, StrategyLoopOver
<1> QED BY <1>1, <1>2, <1>3, <1>4, <1>5 DEF OneByOne

LEMMA PatchSimulates ==
    ASSUME TypeOK, IInv, NEW t \in Tasks, NEW h \in Hosts, Patch(t, h)
    PROVE  Campaign!Next \/ UNCHANGED <<tstatus, posts>>
<1>1. CASE PatchCheck(t, h)
    BY <1>1 DEF PatchCheck, dbVars, taskVars, agentVars
<1>2. CASE ~PatchCheck(t, h)
    <2>1. /\ patch[t][h] = "post" /\ UNCHANGED tstatus
          /\ posts' = [posts EXCEPT ![t][h] = @ + 1]
        BY <1>2 DEF Patch, PatchUnreachable, PatchAccepted, PatchRefused,
           PatchAnswerLost, dbVars, taskVars
    <2>2. posts[t][h] = 0 /\ tstatus[t] \in {"running", Erased}
        BY <2>1 DEF IInv, StrategyInv
    <2>3. posts' = [posts EXCEPT ![t][h] = 1]
        BY <2>1, <2>2, Shapes
    <2>4. Campaign!Command(t, h)
        BY <2>1, <2>2, <2>3 DEF Campaign!Command
    <2> QED BY <2>4 DEF Campaign!Next
<1> QED BY <1>1, <1>2

\* Every behaviour of the server is, for the task table and the agents, a
\* behaviour of PatchCampaign: no task goes back or is started twice, no
\* command precedes the start, no host is commanded twice, no task that has
\* commanded somebody is skipped.
THEOREM Refinement == Spec => RefinesCampaign
<1>1. TypeOK /\ IInv /\ [Next]_vars => [Campaign!Next]_Campaign!campaignVars
    <2> SUFFICES ASSUME TypeOK, IInv, [Next]_vars
                 PROVE  Campaign!Next \/ UNCHANGED <<tstatus, posts>>
        BY Stutters
    <2>1. CASE UNCHANGED vars
        BY <2>1 DEF vars, dbVars, taskVars, agentVars
    <2>2. ASSUME NEW t \in Tasks, NEW h \in Hosts, Outcome(t, h)
          PROVE  UNCHANGED <<tstatus, posts>>
        BY <2>2 DEF Outcome, AgentReport, CreateTaskLog, dbVars, taskVars, agentVars
    <2>3. CASE Crashes
        BY <2>3 DEF Crashes, DWCrash, TWCrash, StrategyCrash, PatchCrash, NodeRestart,
           dbVars, taskVars, agentVars
    <2>4. CASE Next
        BY <2>2, <2>3, <2>4, RequestsSimulate, WorkersSimulate, StrategySimulates,
           PatchSimulates DEF Next
    <2> QED BY <2>1, <2>4
<1> QED BY <1>1, InitSimulates, TypeCorrect, Invariance, PTL
        DEF Spec, RefinesCampaign, Campaign!Spec

----------------------------------------------------------------------------
\* Seen through the posts and the commands that agents hold, every step is a
\* step of PatchExchange or none at all.

\* The commands whose exchange is over.
Posted == {c \in Tasks \X Hosts : posts[c[1]][c[2]] > 0}

\* The end of the exchange of one command.
LEMMA PostIsExchange ==
    ASSUME TypeOK, IInv, NEW t \in Tasks, NEW h \in Hosts, patch[t][h] = "post",
           posts' = [posts EXCEPT ![t][h] = @ + 1],
           commands' \in {commands, commands \cup {<<t, h>>}}
    PROVE  Exchange!Exchange(<<t, h>>)
<1>1. posts[t][h] = 0 /\ posts \in [Tasks -> [Hosts -> Nat]]
    BY Shapes DEF IInv, StrategyInv
<1>2. posts'[t][h] > 0
    BY <1>1
<1>3. ASSUME NEW u \in Tasks, NEW g \in Hosts, <<u, g>> # <<t, h>>
      PROVE  posts'[u][g] = posts[u][g]
    <2>1. CASE u = t
        BY <1>1, <1>3, <2>1
    <2>2. CASE u # t
        BY <1>1, <2>2
    <2> QED BY <2>1, <2>2
<1>4. <<t, h>> \notin Posted
    BY <1>1 DEF Posted
<1>5. Posted' = Posted \cup {<<t, h>>}
    <2>1. ASSUME NEW c \in Tasks \X Hosts
          PROVE  c \in Posted' <=> c \in Posted \/ c = <<t, h>>
        <3>1. c[1] \in Tasks /\ c[2] \in Hosts /\ c = <<c[1], c[2]>>
            OBVIOUS
        <3> QED BY <1>2, <1>3, <3>1 DEF Posted
    <2> QED BY <2>1 DEF Posted
<1> QED BY <1>4, <1>5 DEF Posted, Exchange!Exchange

LEMMA PatchExchanges ==
    ASSUME TypeOK, IInv, NEW t \in Tasks, NEW h \in Hosts, Patch(t, h)
    PROVE  Exchange!Next \/ UNCHANGED <<posts, commands>>
<1>1. CASE PatchCheck(t, h)
    BY <1>1 DEF PatchCheck, agentVars
<1>2. CASE ~PatchCheck(t, h)
    <2>1. /\ patch[t][h] = "post"
          /\ posts' = [posts EXCEPT ![t][h] = @ + 1]
          /\ commands' \in {commands, commands \cup {<<t, h>>}}
        BY <1>2 DEF Patch, PatchUnreachable, PatchAccepted, PatchRefused, PatchAnswerLost
    <2>2. Exchange!Exchange(<<t, h>>)
        BY <2>1, PostIsExchange
    <2> QED BY <2>2 DEF Exchange!Next
<1> QED BY <1>1, <1>2

\* Nobody else posts, and only the agents let go of a command.
LEMMA OthersDoNotPost ==
    ASSUME \/ Requests \/ DeploymentWorker \/ TaskWorker \/ Crashes
           \/ \E t \in Tasks : OneByOne(t)
    PROVE  UNCHANGED <<posts, commands>>
<1> USE DEF agentVars
<1>1. CASE Requests
    BY <1>1 DEF Requests, CreateDeployment, UpdateDeployment, DeleteDeployment,
       ScheduleTimePasses, CreateHost, UpdateHost, DeleteHost
<1>2. CASE DeploymentWorker \/ TaskWorker
    BY <1>2 DEF DeploymentWorker, DWFire, DWCreateTask, DWGetDeployment, DWPutPending,
       TaskWorker, TWFire, TWGetDeployment, TWGetTask, TWPutRunning, TWSpawn
<1>3. CASE Crashes
    BY <1>3 DEF Crashes, DWCrash, TWCrash, StrategyCrash, PatchCrash, NodeRestart
<1>4. ASSUME NEW t \in Tasks, OneByOne(t) PROVE UNCHANGED <<posts, commands>>
    BY <1>4 DEF OneByOne, StrategyTargetHosts, StrategyDeploymentRunning,
       StrategyTaskRunning, StrategyResult, StrategyNextHost, StrategyWaitOver,
       StrategyLoopOver, StrategySkip, Get, PutTask, PutDeployment
<1> QED BY <1>1, <1>2, <1>3, <1>4

\* To the server a post is an exchange: each happens once, the agent has the
\* command by the end of it or never, and lets go of it once.  AgentQueue
\* keeps the same contract (AgentQueueProofs).
THEOREM PostsExchange == Spec => PostsAreExchanges
<1>1. Init => Exchange!Init
    BY DEF Init, Exchange!Init
<1>2. TypeOK /\ IInv /\ [Next]_vars => [Exchange!Next]_Exchange!exchangeVars
    <2> SUFFICES ASSUME TypeOK, IInv, [Next]_vars
                 PROVE  Exchange!Next \/ UNCHANGED <<posts, commands>>
        BY DEF Exchange!exchangeVars
    <2>1. CASE UNCHANGED vars
        BY <2>1 DEF vars, agentVars
    <2>2. ASSUME NEW t \in Tasks, NEW h \in Hosts, Outcome(t, h)
          PROVE  Exchange!Next \/ UNCHANGED <<posts, commands>>
        <3>1. CASE AgentReport(t, h)
            <4>1. /\ <<t, h>> \in commands /\ commands' = commands \ {<<t, h>>}
                  /\ UNCHANGED posts
                BY <3>1 DEF AgentReport
            <4>2. Exchange!Finish(<<t, h>>)
                BY <4>1 DEF Exchange!Finish
            <4> QED BY <4>2 DEF Exchange!Next
        <3>2. CASE CreateTaskLog(t, h)
            BY <3>2 DEF CreateTaskLog, agentVars
        <3> QED BY <2>2, <3>1, <3>2 DEF Outcome
    <2>3. CASE Next
        BY <2>2, <2>3, PatchExchanges, OthersDoNotPost DEF Next
    <2> QED BY <2>1, <2>3
<1> QED BY <1>1, <1>2, TypeCorrect, Invariance, PTL
        DEF Spec, PostsAreExchanges, Exchange!Spec

=============================================================================
