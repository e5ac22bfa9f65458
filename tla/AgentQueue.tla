----------------------------- MODULE AgentQueue -----------------------------
(***************************************************************************)
(* The agent of a host: the goroutine that handles each POST of a command  *)
(* to /api/v1/listen, the channel between the handlers and the worker, the *)
(* middleware that answers for a handler that takes too long, and the one  *)
(* worker, which runs apt-get for each command and reports.                *)
(*                                                                         *)
(* A Go channel is a buffer of Capacity messages and a queue of the        *)
(* senders that found it full; a receive takes the first message and, in   *)
(* the same step, moves the message of the first such sender into the      *)
(* buffer and lets it go on.                                               *)
(*                                                                         *)
(* A command is posted at most once (Rollout!CommandedOnce); two tasks may *)
(* command one host at the same time.                                      *)
(***************************************************************************)
EXTENDS Integers, Sequences, Functions

CONSTANTS
    Commands,       \* the commands the server may post to this agent
    Genuine,        \* those whose token was made with the secret of the host
    Capacity,       \* of the channel, 500 in the code
    MaxRestarts     \* bound: restarts of the agent

ASSUME CommandsAssumption == Genuine \subseteq Commands
ASSUME CapacityAssumption == Capacity \in Nat \ {0}
ASSUME RestartsAssumption == MaxRestarts \in Nat

VARIABLES
    handler,    \* where the goroutine of each command is
    answer,     \* what the server was answered
    channel,    \* the messages in the buffer of the channel
    blocked,    \* the handlers that wait for room in it, in order
    worker,     \* where UpdateWorker is
    cur,        \* its command, if it has one
    outcome,    \* history: what was done for each command
    before,     \* history: the commands acknowledged when one was posted
    restarts

requestVars == <<handler, answer, before>>
channelVars == <<channel, blocked>>
workerVars  == <<worker, cur, outcome>>
vars        == <<requestVars, channelVars, workerVars, restarts>>

Init ==
    /\ handler = [c \in Commands |-> "none"]
    /\ answer = [c \in Commands |-> "none"]
    /\ channel = <<>> /\ blocked = <<>>
    /\ worker = "idle" /\ cur = {}
    /\ outcome = [c \in Commands |-> "none"]
    /\ before = [c \in Commands |-> {}]
    /\ restarts = 0

----------------------------------------------------------------------------
\* Handlers

\* Only the first answer reaches the server.
FirstAnswer(c, a) == [answer EXCEPT ![c] = IF @ = "none" THEN a ELSE @]

Post(c) ==
    /\ handler[c] = "none"
    /\ handler' = [handler EXCEPT ![c] = "parse"]
    /\ before' = [before EXCEPT ![c] = {a \in Commands : answer[a] = "202"}]
    /\ UNCHANGED <<answer, channelVars, workerVars, restarts>>

\* The body is no command, or its token is wrong.
Reject(c) ==
    /\ handler[c] = "parse" /\ c \notin Genuine
    /\ handler' = [handler EXCEPT ![c] = "ended"]
    /\ answer' = FirstAnswer(c, "400")
    /\ UNCHANGED <<before, channelVars, workerVars, restarts>>

\* Fault: the command is acknowledged before it is in the channel.
ValidateAndAnswer(c) ==
    /\ handler[c] = "parse" /\ c \in Genuine
    /\ handler' = [handler EXCEPT ![c] = "send"]
    /\ answer' = FirstAnswer(c, "202")
    /\ UNCHANGED <<before, channelVars, workerVars, restarts>>

\* Fault: the token is not looked at.
ValidateAny(c) ==
    /\ handler[c] = "parse"
    /\ handler' = [handler EXCEPT ![c] = "send"]
    /\ UNCHANGED <<answer, before, channelVars, workerVars, restarts>>

Validate(c) ==
    /\ handler[c] = "parse" /\ c \in Genuine
    /\ handler' = [handler EXCEPT ![c] = "send"]
    /\ UNCHANGED <<answer, before, channelVars, workerVars, restarts>>

\* Fault: one message too many.
SendOneMore(c) ==
    /\ handler[c] = "send" /\ Len(channel) <= Capacity
    /\ channel' = Append(channel, c)
    /\ handler' = [handler EXCEPT ![c] = "sent"]
    /\ UNCHANGED <<answer, before, blocked, workerVars, restarts>>

\* messages <- string(data)
Send(c) ==
    /\ handler[c] = "send" /\ Len(channel) < Capacity
    /\ channel' = Append(channel, c)
    /\ handler' = [handler EXCEPT ![c] = "sent"]
    /\ UNCHANGED <<answer, before, blocked, workerVars, restarts>>

SendBlocks(c) ==
    /\ handler[c] = "send" /\ Len(channel) = Capacity
    /\ blocked' = Append(blocked, c)
    /\ handler' = [handler EXCEPT ![c] = "blocked"]
    /\ UNCHANGED <<answer, before, channel, workerVars, restarts>>

Accept(c) ==
    /\ handler[c] = "sent"
    /\ handler' = [handler EXCEPT ![c] = "ended"]
    /\ answer' = FirstAnswer(c, "202")
    /\ UNCHANGED <<before, channelVars, workerVars, restarts>>

\* The timeout middleware answers 503, or the server stops waiting; either way
\* the handler goes on.
Busy == {"parse", "send", "blocked", "sent"}

StopWaiting(c) ==
    /\ handler[c] \in Busy /\ answer[c] = "none"
    /\ \E a \in {"503", "lost"} : answer' = FirstAnswer(c, a)
    /\ UNCHANGED <<handler, before, channelVars, workerVars, restarts>>

----------------------------------------------------------------------------
\* UpdateWorker

\* Fault: the receive leaves the senders asleep.
TakeNoWake ==
    /\ worker = "idle" /\ channel # <<>>
    /\ worker' = "patch" /\ cur' = {Head(channel)}
    /\ channel' = Tail(channel)
    /\ UNCHANGED <<requestVars, blocked, outcome, restarts>>

\* Fault: the handler that came last is woken first.
TakeWakesLast ==
    /\ worker = "idle" /\ channel # <<>>
    /\ worker' = "patch" /\ cur' = {Head(channel)}
    /\ \/ /\ blocked = <<>>
          /\ channel' = Tail(channel)
          /\ UNCHANGED <<blocked, handler>>
       \/ /\ blocked # <<>>
          /\ LET last == blocked[Len(blocked)] IN
               /\ channel' = Append(Tail(channel), last)
               /\ blocked' = SubSeq(blocked, 1, Len(blocked) - 1)
               /\ handler' = [handler EXCEPT ![last] = "sent"]
    /\ UNCHANGED <<answer, before, outcome, restarts>>

\* for message := range messages
Take ==
    /\ worker = "idle" /\ channel # <<>>
    /\ worker' = "patch" /\ cur' = {Head(channel)}
    /\ \/ /\ blocked = <<>>
          /\ channel' = Tail(channel)
          /\ UNCHANGED <<blocked, handler>>
       \/ /\ blocked # <<>>
          /\ channel' = Append(Tail(channel), Head(blocked))
          /\ blocked' = Tail(blocked)
          /\ handler' = [handler EXCEPT ![Head(blocked)] = "sent"]
    /\ UNCHANGED <<answer, before, outcome, restarts>>

\* apt-get upgrade, whatever the patch type and the scripts.
Patch(c) ==
    /\ worker = "patch" /\ c \in cur
    /\ \E result \in {"os_upgrade", "failed"} :
         outcome' = [outcome EXCEPT ![c] = result]
    /\ worker' = "report"
    /\ UNCHANGED <<requestVars, channelVars, cur, restarts>>

\* Fault: the worker returns when the server cannot be reached.
ReportOrReturn ==
    /\ worker = "report"
    /\ \E next \in {"idle", "returned"} : worker' = next
    /\ cur' = {}
    /\ UNCHANGED <<requestVars, channelVars, outcome, restarts>>

\* The result of agent.Report is dropped.
Report ==
    /\ worker = "report"
    /\ worker' = "idle" /\ cur' = {}
    /\ UNCHANGED <<requestVars, channelVars, outcome, restarts>>

\* The messages in the channel and those that wait for room in it.
Queue == channel \o blocked

Unfinished == Range(Queue) \cup IF worker = "patch" THEN cur ELSE {}

\* The agent starts over with an empty channel; the service manager ends
\* apt-get with it.
Restart ==
    /\ restarts < MaxRestarts
    /\ restarts' = restarts + 1
    /\ handler' = [c \in Commands |-> IF handler[c] \in Busy THEN "ended" ELSE handler[c]]
    /\ answer' = [c \in Commands |-> IF handler[c] \in Busy /\ answer[c] = "none"
                                     THEN "lost" ELSE answer[c]]
    /\ outcome' = [c \in Commands |-> IF c \in Unfinished THEN "lost" ELSE outcome[c]]
    /\ channel' = <<>> /\ blocked' = <<>>
    /\ worker' = "idle" /\ cur' = {}
    /\ UNCHANGED before

----------------------------------------------------------------------------

Handle(c) == Reject(c) \/ Validate(c) \/ Send(c) \/ SendBlocks(c) \/ Accept(c)

UpdateWorker == Take \/ Report \/ \E c \in Commands : Patch(c)

Next ==
    \/ \E c \in Commands : Post(c) \/ Handle(c) \/ StopWaiting(c)
    \/ UpdateWorker
    \/ Restart

Spec == Init /\ [][Next]_vars

\* Goroutines that can run do, apt-get ends, and the exchange of a report ends
\* in an answer or an error.
FairSpec ==
    /\ Spec
    /\ \A c \in Commands : WF_vars(Handle(c))
    /\ WF_vars(UpdateWorker)

----------------------------------------------------------------------------
\* Properties

\* The types of the variables; the channel never exceeds its capacity.
TypeOK ==
    /\ handler \in [Commands -> {"none", "ended"} \cup Busy]
    /\ answer \in [Commands -> {"none", "202", "400", "503", "lost"}]
    /\ before \in [Commands -> SUBSET Commands]
    /\ channel \in Seq(Commands) /\ Len(channel) <= Capacity
    /\ blocked \in Seq(Commands)
    /\ worker \in {"idle", "patch", "report"}
    /\ cur \in SUBSET Commands
    /\ outcome \in [Commands -> {"none", "os_upgrade", "failed", "lost"}]
    /\ restarts \in 0..MaxRestarts

\* A command in one of the places between the channel and the end of apt-get.
Entered(c) == c \in Unfinished \/ outcome[c] # "none"

\* An acknowledged command is never forgotten: it waits, is being executed, was
\* executed, or was lost in a restart.
AcceptedIsHeld == \A c \in Commands : answer[c] = "202" => Entered(c)

\* A refused command never enters the channel.
RefusedNeverEnters == \A c \in Commands : answer[c] = "400" => ~Entered(c)

\* A command posted after another was acknowledged is executed after it, also
\* when one of the two had to wait for room or was answered 503.
Started(c) == c \in cur \/ outcome[c] \in {"os_upgrade", "failed"}

AcknowledgedFirst ==
    \A c \in Commands : Started(c) => \A a \in before[c] : outcome[a] # "none"

\* The agent implements CommandLog: one at a time, in order, each once.
Log == INSTANCE CommandLog WITH
         waiting <- Queue,
         running <- IF worker = "patch" THEN cur ELSE {},
         ended   <- {c \in Commands : outcome[c] # "none"}

ImplementsLog == Log!Spec

\* The agent as the server sees it.  A command whose exchange is over is in its
\* hands while the handler may still send it, and until it has been reported.
Held ==
    {c \in Commands :
       /\ answer[c] # "none"
       /\ \/ c \in Genuine /\ handler[c] \in {"parse", "send"}
          \/ c \in Range(Queue) \cup cur}

Exchange == INSTANCE PatchExchange WITH
              over <- {c \in Commands : answer[c] # "none"},
              held <- Held

ServesExchange == Exchange!Spec

\* The invariant behind the above.  A handler that has not reached the channel
\* has left no trace; one that waits for room is where its state says; the
\* queue holds a command once, before it was given to the worker, and after
\* all those that were acknowledged when it was posted.
Distinct(s) == \A i, j \in 1..Len(s) : s[i] = s[j] => i = j

QueueInv ==
    /\ blocked # <<>> => Len(channel) = Capacity
    /\ Distinct(Queue)
    /\ \A c \in Range(channel) : handler[c] \in {"sent", "ended"}
    /\ \A c \in Commands : handler[c] = "blocked" <=> c \in Range(blocked)
    /\ \A c \in Range(Queue) : outcome[c] = "none" /\ c \notin cur

WorkerInv ==
    /\ worker = "idle" => cur = {}
    /\ \A c, d \in cur : c = d
    /\ \A c \in cur : handler[c] \in {"sent", "ended"}
    /\ \A c \in cur : worker = "patch" <=> outcome[c] = "none"

RequestInv ==
    \A c \in Commands :
        /\ handler[c] \in {"none", "parse", "send"} =>
             outcome[c] = "none" /\ answer[c] \notin {"202", "400"}
        /\ handler[c] \in {"send", "blocked", "sent"} => c \in Genuine
        /\ handler[c] = "sent" => Entered(c)
        /\ Entered(c) => c \in Genuine
        /\ answer[c] = "400" => c \notin Genuine
        /\ answer[c] = "202" => Entered(c)

OrderInv ==
    /\ \A c \in Commands : \A a \in before[c] : answer[a] = "202"
    /\ \A i, j \in 1..Len(Queue) : Queue[j] \in before[Queue[i]] => j < i
    /\ AcknowledgedFirst

IInv == QueueInv /\ WorkerInv /\ RequestInv /\ OrderInv

\* Once in the channel, or waiting for room, a command is executed or lost in a
\* restart, also when the server was answered 503.
EnteredEnds ==
    \A c \in Commands : handler[c] \in {"blocked", "sent"} ~> outcome[c] # "none"

\* Every request is answered.
RequestAnswered == \A c \in Commands : handler[c] = "parse" ~> answer[c] # "none"

=============================================================================
