# Verification of Scuti

TLA+ models of Scuti, the server that patches groups of hosts (`src/lib`, an
Elixir/Phoenix application over PostgreSQL), of its web client
(`src/priv/static/theme/app/backend.js`) and of its agents (`src/agent`, Go).
TLC checks the models on small instances; TLAPS proves the main results for
every instance.

## The system

An operator describes *deployments* (what to run, on which hosts, when) through
the web API.  Three workers on timers and one process per running task carry
them out:

```
 web API ── deployments, hosts ──┐
                                 v
 DeploymentWorker --insert--> tasks --> TaskWorker --spawn--> OneByOneStrategy
        (60 s)                             (60 s)                  | one host at a time
                                                                   v
 agent <---------------- POST /api/v1/listen ----------------- PatchTask
   |                                                               ^ polls
   +-- report --> (report action, empty)          tasks_log -------+
```

| part | state | operations | what is hard |
|---|---|---|---|
| Deployments, hosts (tables, API) | rows; `last_status`, `schedule_time`, labels | create, update, delete | edits and deletions under a running rollout; deletions cascade |
| DeploymentWorker | its mailbox, the list of one fire | select due, insert task, mark pending | two transactions; one bad row ends the fire; restart in between |
| TaskWorker | the list of one fire | select pending, mark running, spawn | restart between mark and spawn; rows deleted under it |
| OneByOneStrategy | hosts still to do | mark running, write result, loop, skip | three writers of one status; stale list; waits without bound |
| PatchTask | posted or polling | post, poll | lost answers, refusals, logs that never come |
| tasks, tasks_log | status, result, outcome per host | created and updated by the above; `create_task_log` has no caller | counters, outcomes that come late or never |
| HostWorker, heartbeats | `hosts.status`, `reported_at` | mark offline, mark online | select-then-update race |
| Agent | a channel of 500 commands, one worker | listen, patch, report, heartbeat | full channel and timeouts, lost reports, restarts |
| Teams, memberships | `user_teams` | synchronise members | concurrent synchronisations, one of several steps failing, deletions in between |
| Users, sessions | `users`, `users_session`, the cookie | log in, log out, create, update, delete | check, then write; requests of two browsers interleave |
| Installation, settings | `configs`, the first user | install, update | check, then write; results that nobody looks at |
| Web client | the page, the requests on the wire | load, edit, submit, delete, reload | answers in any order, lost answers, stale forms |
| Locks | `locks`, one named mutex | lock, unlock, release old ones | no caller in the program |
| Permissions | none | who may see or change what | derived from memberships that change |
| Views, templates, health, telemetry, mailer | none | rendering | nothing to model |

What makes each part correct: a task commands each of its hosts at most once and
one after the other; the statuses of a deployment and of its tasks agree and
only move forward; a due deployment gets exactly one task, which is picked up
and ends; an agent executes what it accepted, once and in order; a team has the
members it was last given; emails, the installation and the sessions of a user
stay single although no index makes them so; a page shows the rows of the page
it names and a form saves what is in it, once, to the row it names.

## Modules

| module | what it is |
|---|---|
| `Rollout` | the pipeline from a due deployment to a reported patch: tables, requests, DeploymentWorker, TaskWorker, OneByOneStrategy, PatchTask, agents as the server sees them, crashes |
| `PatchCampaign` | the abstract specification: what the pipeline promises of tasks and commands |
| `PatchExchange` | the abstract specification both sides implement: what server and agents agree on when a command is posted |
| `AgentQueue` | one agent: the handlers of `/api/v1/listen`, the channel, the request timeout, the worker, restarts |
| `CommandLog` | the abstract specification: what an agent promises of the commands it is sent |
| `MCRollout`, `MCAgentQueue` | small instances for TLC; `MCRollout*.cfg` and `MCAgentQueue*.cfg` are the runs |
| `RolloutProofs` | type correctness of `Rollout` |
| `RolloutSafety` | its inductive invariant and what that implies; `Rollout` implements `PatchCampaign` and `PatchExchange` |
| `RolloutCounts` | what its tables say about each other, what duplicates and overlaps cost, and why rollouts and fires end |
| `AgentQueueProofs` | types and safety of `AgentQueue`, which implements `CommandLog` and `PatchExchange` |
| `TeamMembers` | the requests that set the members of a team, next to deletions of users and of the team |
| `TeamMembersProofs` | its types and safety, and what an error leaves to the retry |
| `Accounts` | installation, log-in, log-out, and the requests that create, change and delete users |
| `AccountsProofs` | its types and safety |
| `Screens` | the screens of the web client as a table: one record per function of `scuti_app` |
| `WebPage` | one page in a browser: its methods and callbacks, the requests on the wire, the rows behind it |
| `WebPageProofs`, `WebPageSafety` | its types; its safety |
| `MCTeamMembers`, `MCAccounts`, `MCWebPage` | small instances for TLC |

The two levels meet at the agent, in `PatchExchange`.  To the server a post is one
exchange, after which an agent has the command or has it not; inside the agent it is a
handler that may go on after its request was answered.  `Rollout` implements
`PatchExchange` with its posts and `commands`, `AgentQueue` with the requests that were
answered and what is still on its way to the worker or in its hands (`Held`): a command
comes to an agent in its own exchange or never.  Which of the two an answer means is
what `AgentQueue` shows: after a 202 the agent has the command (`AcceptedIsHeld`), after a
400 it has not (`RefusedNeverEnters`), after a 503 it may have it (the handler that waits at
`messages <-` is not stopped by the timeout), and so `PatchAccepted` and `PatchRefused` have
it.  `AgentQueue` in turn relies on `Rollout!CommandedOnce`: a command is posted at most
once.

The other three stand beside the rollout.  `WebPage` speaks to the controllers that
`Rollout`, `TeamMembers` and `Accounts` describe from the inside: one of its
requests is served in one step there, and its statements are the steps here.

### How `Rollout` corresponds to the code

A step is one database statement or one HTTP exchange of one process, because
nothing in the code holds a transaction over two of them.

* **Tables.** `dstatus` is `deployments.last_status`, `form` the columns a request
  sets, `due` says that `schedule_time < now`.  `tstatus`, `tdep` and `total` are
  columns of `tasks`; of the result only `total_hosts` is kept, the two other
  counters are always written back as read.  `log` is the set of pairs in
  `tasks_log` (success and failure are not told apart by the poll).  `tag` stands
  for whatever in a host's name, hostname, labels and group a filter can tell
  apart; a filter is the set of tags it matches.  `"none"` is a row that does not
  exist yet, `"deleted"` one that no longer does; ids are never reused.
* **Updates.** Ecto reads the row and then writes the columns that differ from
  what was read.  `Get`/`PutDeployment`/`PutTask`, `DWGetDeployment`/`DWPutPending` and
  `TWGetTask`/`TWPutRunning` are these halves: a missing row is only logged, a row
  deleted in between raises `Ecto.StaleEntryError` and ends the process, and nothing
  is written when nothing differs.  A request's own read and write are one step:
  it writes no column that another process writes, so nothing can come between
  that matters, and a row deleted in between only turns the answer into an error.
* **Processes.** `dw` and `tw` are the two GenServers (`todo` is the rest of the list
  of the current fire), `strategy[t]` and `patch[t][h]` the spawned processes.  A fire
  that finds nothing is left out: it changes nothing.
* **Payload.** The scripts become part of `tasks.payload`, a `varchar(255)`: `oversize`
  says that they overflow it, in which case the insert raises.  (A `:string`
  column of a migration is a `varchar(255)`; the scripts alone have the same limit
  each, so the sum of three that fit may not.)
* **Agents.** A posted command has one of four outcomes: not reached, accepted,
  answered with an error (logged, then polled for all the same; the agent may
  have it or not), accepted with the answer lost.  `commands` are those in an
  agent's hands and not finished.
* **Outcomes.** An agent that is done with a command reports (`AgentReport`), and nothing
  comes of it: the server's report action is an empty function (`agent_controller.ex:33`).
  A restart that empties an agent's queue looks the same from here.  The one function
  that writes `tasks_log`, `TaskModule.create_task_log`, has no caller under `lib`.
  `CreateTaskLog` stands for whoever calls it, a console say, and assumes that an outcome
  is recorded only for a host that was commanded and whose agent is done.  It may happen
  at any time after that, or never: no fairness makes it happen, so every property
  holds of the program as it stands, where it never does, as well.  There a
  rollout that a host has answered stands at that host for ever; nor has `tasks.status` a value
  for a task that is finished (`task.ex:18`).
* **Crashes.** A failed database call ends the process that made it and a restart of
  the node ends them all (`crashes`); rows survive, processes do not, and nothing
  takes up a task that is already `running`.
* **Abstracted.** Times other than "due", the order of rows in a list, secrets and
  signatures, names, pagination, access checks.  The target query reads three
  tables in three statements and is one step here.

Definitions marked `Fault` are not part of the model: each is a plausible mistake
in the definition that follows it, which the properties must notice.

### How `AgentQueue` corresponds to the code

* **Handlers.** Each request has a goroutine, `handler[c]`: it parses and checks the
  token (`parse`), reaches `messages <-` (`send`), perhaps waits there (`blocked`), is
  past it (`sent`) and ends.  `Genuine` are the commands whose token was made with the
  secret of the host; the handler answers 400 to any other body.
* **Channel.** `channel` is the buffer of `make(chan string, 500)` and `blocked` the
  runtime's queue of senders, served in order; a receive that makes room moves the
  first of them in the same step.
* **Timeout.** `StopWaiting` is the timeout middleware (50 s by default) answering 503, or
  the server giving up, which with the 15 s of its client comes first.  Neither stops
  the handler: the command is queued later, and the answer of the handler is
  thrown away (`FirstAnswer`).
* **Worker.** `UpdateWorker` takes, runs apt-get, reports; the result of the report is
  dropped.  `outcome` is a history variable, as is `before`, the commands the server
  knew to be accepted when it posted another.
* **Restart.** The channel is in memory.  apt-get ends with the agent, because the
  service file of `bin/install_agent_debian` leaves the default of systemd, which
  stops the whole control group.

### How `TeamMembers` corresponds to the code

* **State.** `rows[u]` counts the rows of `user_teams` for one team: its unique index
  does not exist, because `unique: true` is no option of a migration's `add`.  A list of a
  request is a bag of users too (`MaxTimes` says how often it may name one).  `name` is
  whose name the team has.
* **Requests.** Each admin has one at a time.  `update_team` stores the name,
  `get_team_users` reads, the two lookups and `--` compare, then members are removed or
  added one statement each.  `remove_user_from_team` returns `{count, nil}`, which
  matches no clause: the first removal is done and the request raises.  So is an
  update of a team that is gone.
* **Deletions** of users and of the team come between any two statements; the
  foreign keys take the rows along, and an insert that has lost its user or team raises.
* **Retries.** Who got an error sends the same list again (`Retry`, fair in `FairSpec`).
* `overlaps`, `twice`, `undisturbed` are history variables.

### How `Accounts` corresponds to the code

* **State.** `installed` counts the rows of `configs` named `is_installed`, `users` are rows
  with email and role, `sessions[u]` the rows of `users_session`, `cookie[c]` what a
  browser sends.  No column is unique (see above).  `Init` is the application before
  the installation, or with two users logged in from two browsers.
* **Requests.** A browser has one at a time; its `pc` is the next statement.
  `AuthSession` and `AuthUser` are `is_authenticated` and what the middleware then looks up
  (a super for `/users`); `IsEmailUsed` and `InsertUser`/`ReadUser`/`WriteUser` are check and
  write; `WriteUser` writes the columns that differ from what `ReadUser` read.  A log-in
  finds *a* user with the email, deletes the sessions, sets `last_seen` and
  inserts its own; a log-out deletes them all.
* **Crash** ends one request between two statements.
* `excuses` (requests that overlapped, a super demoted, an administrator refused, a
  crash), `contested` (users who logged in twice at a time) and `quiet` (browsers whose
  log-in or log-out nobody came near) are history variables: the properties say what
  holds without them.
* **Left out.** Names (but for whether the model of the user takes one), passwords,
  API keys (in `WebPage`), the other settings, the time a session expires: it is stored
  (`auth_service.ex:92`) and nothing reads it.

### How `Screens` and `WebPage` correspond to the code

`backend.js` is nineteen functions that copy each other's methods.  `Screens` has one
record for each, with what differs (its element, its kind, whether it reloads and locks
its button, what it loads when mounted), and `ScreensOf` says which of them a page
mounts.  `WebPage` has the methods once, with the page as a variable.

* **Requests** are `wire`: each is sent, served by the server at some moment (`phase`
  `"done"`), and settled by its callback or failed, in any order.  `Request.newest` and
  `raced` record which of those that write to one place is the last.
* **Reload.** `location.reload()` two seconds after a success; what is still on the wire is an
  orphan: the server may serve it, no callback runs.
* **Lists** are pages of `Limit` rows, newest first; `totalPages`, the offset and the two
  page buttons are as in the code.  Rows are inserted in different seconds: the order
  of rows of the same second is the database's.
* **Edit forms.** A click on a row changes the action and the hidden uuid at once and the
  fields when the details arrive; the select of a group takes the first team until
  the details say otherwise.  What a row holds is left out: a form knows the row
  whose details are in it.
* **Server.** A request is served in one step; other users delete rows meanwhile.
* **Left out.** `viewDeploymentAction` and `editDeploymentAction`, which
  `deployments.html.heex:328` and `:331` call and `backend.js` does not have; messages;
  the checks of fields by the browser.

### Properties

Of `Rollout`:

* `TypeOK`: each variable ranges over what its table or process can hold.
* `CommandedOnce`: no host is commanded twice by one task.
* `OverlapNeedsFault`: two hosts of one task are patched at the same time only after
  a lost answer or a crash.
* `DuplicateNeedsCrash`: a deployment has a second task only after a crash.
* `TotalCoversCommands`: `total_hosts` is never less than what the task commanded.
* `SkippedIsUntouched`: a skipped task commanded nobody and has nobody left to.
* `StatusIsBacked`: `pending`, `running`, `skipped` of a deployment have a task behind them.
* `RefinesCampaign`, `PostsAreExchanges`: the refinements.  By the second a command
  is in one exchange only, comes to an agent in it or never, and leaves it once.
* `DueGetsTask`: a due deployment gets its task, unless it is edited or deleted, or an
  oversize one is due beside it: that one raises in every fire, and nothing in the code
  says that a fire comes to the other first.
* `PendingStarts`: a pending task is picked up, whatever else is in the list.
* `OnlyPollsWait`: in the end a rollout is over, or stands at a host whose outcome is not
  in `tasks_log`.  Deletions, edits, crashes, lost answers and refusals are no exceptions:
  the poll is the only step that may wait for ever, and a record is all it waits for.
* `EmptyRolloutSkips`: a rollout without hosts ends in `skipped`, unless a crash cuts it off.

Of `AgentQueue`:

* `TypeOK`: types, and the channel within its capacity.
* `AcceptedIsHeld`: an acknowledged command is never forgotten but by a restart.
* `RefusedNeverEnters`: a refused command is never executed (proved; no run of its own).
* `AcknowledgedFirst`: a command posted after another was acknowledged is executed
  after it.
* `ImplementsLog`: one at a time, in the order of entry, each once.
* `ServesExchange`: what the agent does to a command is what `PatchExchange` allows.
* `EnteredEnds`, `RequestAnswered`: progress.

Of `TeamMembers`:

* `AnsweredIsSynced`: a request that ran by itself and was answered left exactly its
  members and its name.
* `DoubledNeedsOverlap`: nobody is a member twice, unless two requests overlapped or a
  list named a user twice.
* `RowsHaveOwners`: no membership outlives its user or its team.
* `RetriesSucceed`: each error brings a list one removal closer; who tries again is
  answered in the end.

Of `Accounts`:

* `EmailsUnique`, `InstalledOnce`: as the checks want it, unless requests overlapped.
* `SomebodyManages`: there is a super, unless the installation failed half-way, a super
  was demoted, or requests overlapped (two supers may delete each other).
* `OneSession`, `LastWordCounts`: sessions of a user, and what a log-in or a log-out leaves.
* `GoneAreOut`: nobody who was deleted is logged in.
* `RolesAreGiven`: a profile that is saved does not bring an old role back.

Of `WebPage`:

* `RowsMatchPage`: once the list requests are settled, the rows are those of the page
  number above them, unless the last one failed or was overtaken.
* `PagesShowEveryRow`: the pages show every row, once.
* `TwiceNeedsLoss`: what was entered once is inserted once, unless an answer got lost.
* `KeyShownIsValid`: the key shown is the valid one, unless two key requests overlapped.
* `MisfiledNeedsHaste`: the fields of one row are saved to another only if the form was
  submitted before its details were in it.
* `MovedNeedsLateChoices`: a group moves to the first team without being asked to only if
  its details were there before the teams.
* `DeletedLeaves`: a deleted row leaves the page for good.
* `FormsComeBack`: no form stays busy for ever.

Each module also has its type invariant; those of `TeamMembers` and `Accounts` are proved
and not listed in a run.

### Runs

| run | instance | result |
|---|---|---|
| `rollout_hosts` | 1 deployment, 2 hosts, 2 tasks, 1 crash, 1 fault | safety and both refinements hold |
| `rollout_pair` | 2 deployments (either may be oversize), 3 tasks, no hosts, 1 crash, fairness | one task more per crash at most; due → task → started, unless an oversize deployment is in the way |
| `rollout_live` | 1 deployment, 2 hosts, 2 tags, 1 task, 2 edits, 1 crash, 1 fault, fairness | the list that was read is the one that is counted; started → ended, or at a host without an outcome; an empty rollout is skipped |
| `agent_queue` | 3 genuine commands and a forged one, a channel of 1, 1 restart | safety and both refinements hold |
| `agent_live` | 3 genuine commands, a channel of 1, 1 restart, fairness | every request is answered, every queued command ends |
| `team_members` | 2 admins, 2 users, lists that name a user up to twice, 2 submissions and their retries, fairness | safety and `RetriesSucceed` hold |
| `accounts` | 2 browsers, 3 emails, 3 users, 3 requests, 1 crash | safety holds |
| `web_pages` | 4 pages without dialogs, lists of 1 row per page, 2 rows, 1 rotation, 2 requests on the wire, fairness | safety, `DeletedLeaves` and `FormsComeBack` hold |
| `web_dialogs` | 2 pages with an edit dialog (select of one, of several), 2 rows, 2 requests on the wire | what a save writes, and where |
| `bug_lifecycle` | no crash, no fault, 1 host | a running deployment goes back to `pending` |
| `bug_sequential` | 1 lost answer, 2 hosts | two hosts of a sequential rollout patched at once |
| `bug_install` | 1 request | the installation is done and there is no administrator |

The three `bug_` runs end in a counterexample; `findings` in `PROJECT.json` quotes
the line of the repository each one contradicts.  More that the code accepts and
does not do, or does not finish, came up while modelling and needs no run:

* A deployment with a rollout strategy other than `one_by_one` gets a task that is marked
  `running` and that nobody acts for (`task_worker.ex:50`); one with the schedule type
  `recursive` is selected by no query (`deployment_context.ex:271`).
* After a restart between the insert of a task and the update of its deployment, a
  "once" deployment gets a second task (the excuse in `DuplicateNeedsCrash`).
* A rollout that has commanded a host waits for a row of `tasks_log` that no code under
  `lib` writes: it stands at its first host that answers, and its other hosts are
  never patched (`agent_controller.ex:33`, `patch_task.ex:56`; `OnlyPollsWait`).
* One deployment whose payload overflows its column raises in every fire of the
  DeploymentWorker, which may never get to the others (`deployment_worker.ex:38`; the
  excuse in `DueGetsTask`).
* The agent runs `apt-get upgrade` whatever patch type and scripts a command carries
  (`update_worker.go:27`).
* An application name of two characters passes the installation like an
  administrator's; its row of `configs` is then missing and an update of the settings
  raises on `nil`.
* An update of a user or team that is deleted meanwhile returns `{:not_found, _}`, for
  which the controllers have no clause: it raises.
* Hosts are created offline and the heartbeat action is empty, so HostWorker never
  finds a host to mark; `lock_module.ex:30` keeps its mutex on an error and
  `task_module.ex:124` decides on counters read earlier, but neither has a caller.

**Bounds.** `MaxTasks`, `MaxCrashes`, `MaxFaults` and `MaxEdits` limit how often rows are
inserted, processes die, answers go missing and requests edit.  Two tasks are
needed to see a duplicate, two hosts to see an order and an overlap, two
deployments to see one spoil the fire of the other; one crash reaches every
point between two statements.  `rollout_pair` has a third task for the duplicate that
its crash may cost, and no edits, which its size does not allow: `rollout_live` edits,
and `DuplicatesCostCrashes` is proved for any number.  With a channel of one and
three genuine commands two handlers wait for room before the worker has taken anything, and the worker
holds one while another is in the channel and a third waits.  In `team_members` two
submissions overlap or follow each other, a list can ask for two removals, hence
two retries, and for a doubled member; in `accounts` two requests overlap and a third
comes before, between or after them, and three emails leave one free next to the
two of the users there are.  `web_pages` has two pages of one row and two
requests that may overtake each other; `web_dialogs` two rows to confuse.  The pages left
out have the same records as one that is in: log-in as the installation, users as
groups without choices, a group's hosts as deployments.  Symmetry is used for hosts, for
genuine commands, for browsers and emails, in runs without liveness only.  Deadlock
is not checked: between two timers, or when every request is answered, the system
is at rest, and a bound that is used up stops it.

**Fairness.** `FairSpec` assumes that time passes (a schedule time is reached), that the
two GenServers keep working (each fire re-arms its timer first, and a restarted
worker arms it in `init`), that a spawned process that can go on does (the BEAM
schedules all of them), and that an agent gets done with what it accepted.  Crashes,
lost answers, refusals, records of outcomes and requests are never forced.  `EmptyRolloutSkips` excepts a crash,
after which nobody takes the task up again.  Under `AgentQueue!FairSpec` goroutines that can run do, apt-get
ends, and so does the exchange of a report.  The last is an assumption on the
network: the agent's HTTP client has no timeout, and a connection that stays open
without an answer would hold the worker.  The timeout of a request is never forced.
`TeamMembers!FairSpec` lets a request go on (a process of its own serves it) and assumes
that who got an error tries again, which is what `RetriesSucceed` is about.
`WebPage!FairSpec` assumes that a submission is answered or fails in the end, as a
browser does with a request, and that the timer of a reload fires; reads, clicks and
losses are never forced.

## Proofs

Every theorem below is for all values of the constants that satisfy the `ASSUME`s
of its module: ids, emails, pages and row limits as one likes, bounds that are
numbers, `Hosts` finite, `Capacity` and `Limit` above zero.  Each follows the same
argument: a type invariant first, then a strengthening of the property that every
action keeps, one lemma per process or kind of request.

**`Rollout`.**

* `RolloutProofs!TypeCorrect` (`[]TypeOK`).
* `RolloutSafety!Invariance` (`[]IInv`), and from it `AtMostOneCommand`
  (`[]CommandedOnce`), `SkippedForGood` (`[]SkippedIsUntouched`), `Refinement`
  (`RefinesCampaign`) and `PostsExchange` (`PostsAreExchanges`).
* `RolloutCounts!StatusStaysBacked` (`[]StatusIsBacked`), `DuplicatesCostCrashes`
  (`[]DuplicateNeedsCrash`), `TotalsCover` (`[]TotalCoversCommands`), `OverlapsCostFaults`
  (`[]OverlapNeedsFault`).
* `RolloutCounts!RolloutsAdvance`, `FiresAdvance`, `SelectionsAdvance`, `OverForGood`: action
  properties behind the liveness of the pipeline.

`CommandedOnce` is not inductive: it says nothing about who may still act.  `IInv`
adds that.  *WorkerInv*: as long as a task is pending, or in the hands of the
TaskWorker, it has no strategy and nothing was posted for it, and the worker
holds it once; so a task is spawned for at most once.  *StrategyInv*: the hosts a
strategy still holds have not been commanded; a PatchTask exists only while its
strategy waits for it, and one that is about to post has not posted; the skip is
reached only with an empty list, before which nothing was posted.  A crash only
removes processes, which no conjunct forbids.  `Locality` says that a step of the
processes of one task concerns the invariant of that task only; `GetInv`,
`PutDeploymentInv`, `MoveInv` and `ExitInv` deal with the halves of the updates once
for all their uses.

`RolloutCounts` starts from what a step can do to one row (`TaskRow`,
`DeploymentRow`), which frees the rest from the actions.  *BackedInv*: a task row
goes only after its deployment, a deployment in the DeploymentWorker's hands has a
task, and a strategy on its way to write "skipped" has marked its task so; without
the last conjunct the status could be ahead of its task.  *CountInv*: a deployment
that may still be given a task has at most one for each crash so far, where "may
still" (`Offered`) covers the stale list of a fire as well as the query of the next
one.  *TotalInv*: the hosts commanded, about to be or still to come are at most
`found`, the size of the list when it was read, and from the loop on the row holds
`found`.  *OverlapInv*: a host that is patched without a PatchTask polling for it
(`Stray`) cost a fault or a crash; at most one other is polled for, because the
strategy waits.

`PostsExchange` rests on `CommandedOnce`'s invariant: a PatchTask that is about to post
has not posted, so each post is the first exchange of its pair; `AgentReport`
is a `Finish`, and everything else, the restart of the server included, a stutter.
(`Restart` is the agent's: `Serves` needs it.)

*RolloutsAdvance*: each step of a strategy lowers `StepsLeft` (its stage and twice the
hosts left, at most 12 and twice the number of hosts), and nobody else moves it but a
crash, which ends it.  *FiresAdvance* counts the four steps per task of a TaskWorker's
fire; *SelectionsAdvance* compares the lists of a DeploymentWorker's fire (deployments
need not be finite in number).  *OverForGood*: a task that is not pending, has no
strategy and is not in the TaskWorker's hands stays so, and posts nothing more.  These
are what `OnlyPollsWait`, `PendingStarts` and `DueGetsTask` need besides fairness: no
process can go round in circles, or be put back, for ever.

**`AgentQueue`** (`AgentQueueProofs`).

* `TypeCorrect`, `Invariance` (`[]IInv`), and from it `AcceptedHeld`, `RefusedOut`
  (`[]RefusedNeverEnters`) and `InOrder` (`[]AcknowledgedFirst`); `Refinement`
  (`ImplementsLog`); `Serves` (`ServesExchange`).
* `NoSilentEnd`: a handler does not end before its request is answered.
  `NobodyOvertakes`: what is before a command in the queue only gets less, by one
  whenever the worker takes, until it is taken itself or the agent restarts.

Neither order nor at-most-once is inductive by itself.  *QueueInv* says that the
channel and the senders in front of it form one queue without repetition, which
senders are in it (those that are `blocked`), and that a sender waits only if the
channel is full, so that nobody can overtake it; *RequestInv* that a handler before
`messages <-` has left no trace; *OrderInv* that the queue keeps acknowledged commands
in order.  `Serves` adds *AnswerInv* (no answer before the request, none missing after the
handler): the answer ends the exchange, and from then on the command is `Held` exactly
as long as it can still be executed.  Four lemmas about sequences come first: a queue
that gets or gives away a message, two queues joined, and that `AppendAndTail` of the
two parts is append and tail of the whole.

**`TeamMembers`** (`TeamMembersProofs`).

* `TeamTypes`; `OwnersStay` (`[]RowsHaveOwners`); `AnswersAreSynced`
  (`[]AnsweredIsSynced`); `DoublesNeedOverlap` (`[]DoubledNeedsOverlap`).
* `RetriesAdvance`: a request that runs by itself fails only because the team is gone or
  after it has emptied the surplus rows of a user, and no user gets surplus rows while
  the same list is sent again: the variant behind `RetriesSucceed`.

*Alone*: while nobody else has a request open, the rows are what the request has
read plus what it has added, so that at each statement rows and plan together are
the list.  *Orderly*: while requests come one after another, what one has read
covers the rows (deletions only shrink them) and what it adds is missing.  *Steady*: a
request by itself that is past `update_team` has its team, and plans to remove only what
is too many.

**`Accounts`** (`AccountsProofs`).

* `AccountTypes`; `GoneStayOut` (`[]GoneAreOut`); `RolesStay` (`RolesAreGiven`);
  `EmailsStayUnique`, `InstalledOnlyOnce`, `SomebodyStays`, `SessionsStaySingle`,
  `LastWordStays` for the property each names.

*Grounded* holds whatever overlaps: users are there only after an installation and a
session only with its user.  *InTurn*: as long as requests that write users come one
after another, what a request has checked (`WorkOK`: the email is free or the
target's, nothing is installed) is still so when it writes.  *Manned*: there is a
super, or an installation is about to insert one.  *Signed*: a user who logs in from
one browser at a time has no session between delete and insert.  *Quieted*: nobody
signs in or out beside a request that is still quiet, so its last statement decides.

**`WebPage`** (`WebPageProofs`, `WebPageSafety`).

* `PageTypes`; `ListsMatch` (`[]RowsMatchPage`); `RowsKeepTheirFields`
  (`[]MisfiledNeedsHaste`); `ChoicesAreKept` (`[]MovedNeedsLateChoices`);
  `KeyShownIsTheKey` (`[]KeyShownIsValid`); `TwiceCostsAnAnswer` (`[]TwiceNeedsLoss`);
  `PagesAreComplete` (`[]PagesShowEveryRow`).
* `DeletedStayAway`: a row that is gone from the table, the page and the answers under way
  never comes back, and a reload makes a deleted row so.  `BusyFormsAreWaitedFor`: a form that
  reloads is busy only while a submission that can be answered or fail is on the wire, or
  the reload is due.  They are what `DeletedLeaves` and `FormsComeBack` rest on.

What a page shows follows from the newest request that writes to one place: it is
for the page number above the list (*ListOK*), for the row whose uuid the form has
(*FormOK*), and the only one that brings a key (*KeyOK*).  Once it is settled the place
holds its answer, unless it was overtaken or failed.  What is inserted follows from the
lock of the button (*OnceOK*): of a form no answer to which got lost, one insertion is
on its way while it is busy, a row was made of it only if the answer is still to
come, and an insertion that fails unserved or is answered leaves nothing behind.  It
needs that no other screen is mounted on the form's element (*DialogFacts*, from
`Screens`).  The pages follow from the number of rows before each row and from
what division by the limit gives, for every limit and number of rows.

**Only model-checked:** liveness (`DueGetsTask`, `PendingStarts`, `OnlyPollsWait`,
`EmptyRolloutSkips`, `EnteredEnds`, `RequestAnswered`, `RetriesSucceed`, `DeletedLeaves`,
`FormsComeBack`): fairness and `ENABLED` are out of the prover's reach.  What each rests on
in every instance is proved: that the steps count down and are not undone
(`SelectionsAdvance`; `FiresAdvance`; `RolloutsAdvance`, `OverForGood`, `SkippedForGood`;
`NobodyOvertakes`; `NoSilentEnd`; `RetriesAdvance`; `DeletedStayAway`;
`BusyFormsAreWaitedFor`).  What remains for TLC is that the next step is always
enabled and its fairness enough.  Every invariant, refinement and action property of a
passing run is proved.

## Plan

Done, in this order: `Rollout` with `PatchCampaign`, `AgentQueue` with `CommandLog`, `PatchExchange` between them,
`TeamMembers`, `Accounts` (installation, sessions and users share their tables),
`Screens` and `WebPage`, each with runs, mutants and proofs.

What a change of the program would call for:

1. `HostLiveness`, when the heartbeat action gets a body: heartbeats against HostWorker's
   select-then-update; to prove, offline only if silent when selected.
2. `TaskReporting`, when the report action calls `create_task_log`: the counters and
   `sync_task_status` under concurrent reports; the report then takes the place of
   `CreateTaskLog`, and `OnlyPollsWait` can be stated as the end of every rollout.
3. The other strategies, when they get bodies.
4. `Locks`, when something takes a lock.

## Not modelled

* **HostWorker, heartbeats, join.** Hosts are created offline and the three actions of the
  agent API are empty, so HostWorker never finds a host and no agent changes a row.
* **Locks, `sync_task_status`, the metas of users, teams and hosts.** They have no caller.
* **Settings.** Their update writes three rows, each over its own key, and decides nothing on
  what it reads; only the form is modelled.
* **The text of a host filter.** Parsing names and labels is string work without state;
  `TargetHosts` takes the set of hosts it matches.
* **Permissions by membership and API keys of requests.** They are looked up in one step
  before a handler runs; what may change between that step and the next is
  modelled where it decides something (`Accounts`: roles).
* **Views, templates, health, readiness, telemetry, mail, release; hashing, slugs, checks of
  single fields.** Input and output or pure functions, without state or interaction.
* **The scripts of the theme** (`header-search.js`, `sider.js`, `horizontal-menu.js`,
  `base/index.js`) and `assets/js/app.js`: bought or generated; they toggle classes of
  elements and connect a live socket that no page uses.
