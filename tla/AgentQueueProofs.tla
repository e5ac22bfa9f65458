-------------------------- MODULE AgentQueueProofs --------------------------
(***************************************************************************)
(* What holds of the agent for every set of commands and every capacity:   *)
(* the types, the invariant of the queue, that the agent implements        *)
(* CommandLog, that it serves the exchange the server takes it for         *)
(* (PatchExchange), that no request ends without an answer, and that the   *)
(* queue only moves forward.                                               *)
(***************************************************************************)
EXTENDS AgentQueue, SequenceTheorems, TLAPS

(***************************************************************************)
(* Sequences without repetition, used as queues.                           *)
(***************************************************************************)

\* A queue that gets one more message.
LEMMA AppendQueue ==
    ASSUME NEW S, NEW s \in Seq(S), NEW e \in S
    PROVE  /\ Append(s, e) \in Seq(S)
           /\ Range(Append(s, e)) = Range(s) \cup {e}
           /\ Distinct(s) /\ e \notin Range(s) => Distinct(Append(s, e))
<1>1. /\ Append(s, e) \in Seq(S) /\ Len(Append(s, e)) = Len(s) + 1 /\ Len(s) \in Nat
      /\ \A i \in 1..Len(s) : Append(s, e)[i] = s[i]
      /\ Append(s, e)[Len(s) + 1] = e
    BY AppendProperties, LenProperties
<1>2. Range(s) = {s[i] : i \in 1..Len(s)}
    BY RangeEquality
<1>3. Range(Append(s, e)) = {Append(s, e)[i] : i \in 1..(Len(s) + 1)}
    BY <1>1, RangeEquality
<1>4. 1..(Len(s) + 1) = 1..Len(s) \cup {Len(s) + 1}
    BY <1>1
<1>5. Range(Append(s, e)) = Range(s) \cup {e}
    BY <1>1, <1>2, <1>3, <1>4
<1>6. ASSUME Distinct(s), e \notin Range(s) PROVE Distinct(Append(s, e))
    <2> SUFFICES ASSUME NEW i \in 1..(Len(s) + 1), NEW j \in 1..(Len(s) + 1),
                        Append(s, e)[i] = Append(s, e)[j]
                 PROVE  i = j
        BY <1>1 DEF Distinct
    <2>1. \A k \in 1..Len(s) : s[k] # e
        BY <1>2, <1>6
    <2> QED BY <1>1, <1>4, <1>6, <2>1 DEF Distinct
<1> QED BY <1>1, <1>5, <1>6

\* A queue that gives its first message away.
LEMMA TailQueue ==
    ASSUME NEW S, NEW s \in Seq(S), s # <<>>
    PROVE  /\ Head(s) \in S /\ Head(s) \in Range(s) /\ Head(s) = s[1]
           /\ Tail(s) \in Seq(S) /\ Len(Tail(s)) = Len(s) - 1
           /\ \A i \in 1..Len(Tail(s)) : Tail(s)[i] = s[i + 1]
           /\ Distinct(s) => /\ Range(Tail(s)) = Range(s) \ {Head(s)}
                             /\ Distinct(Tail(s))
<1>1. /\ Head(s) \in S /\ Tail(s) \in Seq(S) /\ Len(Tail(s)) = Len(s) - 1
      /\ \A i \in 1..Len(Tail(s)) : Tail(s)[i] = s[i + 1]
      /\ Len(s) \in Nat \ {0}
    BY HeadTailProperties, EmptySeq
<1>2. Head(s) = s[1]
    BY <1>1
<1>3. Range(s) = {s[i] : i \in 1..Len(s)}
    BY RangeEquality
<1>4. Range(Tail(s)) = {s[i + 1] : i \in 1..(Len(s) - 1)}
    <2>1. Range(Tail(s)) = {Tail(s)[i] : i \in 1..Len(Tail(s))}
        BY <1>1, RangeEquality
    <2> QED BY <1>1, <2>1
<1>5. Head(s) \in Range(s)
    BY <1>1, <1>2, <1>3
<1>6. ASSUME Distinct(s)
      PROVE  Range(Tail(s)) = Range(s) \ {Head(s)} /\ Distinct(Tail(s))
    <2>1. \A i \in 1..(Len(s) - 1) : i + 1 \in 1..Len(s) /\ s[i + 1] # s[1]
        BY <1>1, <1>6 DEF Distinct
    <2>2. \A i \in 1..Len(s) : i # 1 => i - 1 \in 1..(Len(s) - 1) /\ s[(i - 1) + 1] = s[i]
        BY <1>1
    <2>3. Range(Tail(s)) \subseteq Range(s) \ {Head(s)}
        BY <1>2, <1>3, <1>4, <2>1
    <2>4. ASSUME NEW e \in Range(s) \ {Head(s)} PROVE e \in Range(Tail(s))
        <3>1. PICK i \in 1..Len(s) : e = s[i] /\ i # 1
            BY <1>2, <1>3
        <3> QED BY <1>4, <2>2, <3>1
    <2>5. Distinct(Tail(s))
        BY <1>1, <1>6 DEF Distinct
    <2> QED BY <2>3, <2>4, <2>5
<1> QED BY <1>1, <1>2, <1>5, <1>6

\* The channel and those that wait for it, seen as one queue.
LEMMA JoinQueue ==
    ASSUME NEW S, NEW s \in Seq(S), NEW t \in Seq(S)
    PROVE  /\ s \o t \in Seq(S) /\ Range(s \o t) = Range(s) \cup Range(t)
           /\ Distinct(s \o t) =>
                Distinct(s) /\ Distinct(t) /\ Range(s) \cap Range(t) = {}
<1>1. /\ s \o t \in Seq(S) /\ Len(s \o t) = Len(s) + Len(t)
      /\ \A i \in 1..(Len(s) + Len(t)) :
           (s \o t)[i] = IF i <= Len(s) THEN s[i] ELSE t[i - Len(s)]
      /\ Len(s) \in Nat /\ Len(t) \in Nat
    BY ConcatProperties, LenProperties
<1>2. Range(s \o t) = Range(s) \cup Range(t)
    BY RangeConcatenation
<1>3. \A i \in 1..Len(s) : i \in 1..(Len(s) + Len(t)) /\ (s \o t)[i] = s[i]
    BY <1>1
<1>4. \A i \in 1..Len(t) : /\ Len(s) + i \in 1..(Len(s) + Len(t))
                           /\ (s \o t)[Len(s) + i] = t[i]
    BY <1>1
<1>5. ASSUME Distinct(s \o t)
      PROVE  Distinct(s) /\ Distinct(t) /\ Range(s) \cap Range(t) = {}
    <2>1. Distinct(s)
        BY <1>1, <1>3, <1>5 DEF Distinct
    <2>2. Distinct(t)
        <3> SUFFICES ASSUME NEW i \in 1..Len(t), NEW j \in 1..Len(t), t[i] = t[j]
                     PROVE  i = j
            BY DEF Distinct
        <3>1. (s \o t)[Len(s) + i] = (s \o t)[Len(s) + j]
            BY <1>4
        <3>2. Len(s) + i = Len(s) + j
            BY <1>1, <1>4, <1>5, <3>1 DEF Distinct
        <3> QED BY <1>1, <3>2
    <2>3. \A i \in 1..Len(s), j \in 1..Len(t) : s[i] # t[j]
        <3> SUFFICES ASSUME NEW i \in 1..Len(s), NEW j \in 1..Len(t), s[i] = t[j]
                     PROVE  FALSE
            OBVIOUS
        <3>1. i = Len(s) + j
            BY <1>1, <1>3, <1>4, <1>5 DEF Distinct
        <3> QED BY <1>1, <3>1
    <2>4. Range(s) = {s[i] : i \in 1..Len(s)} /\ Range(t) = {t[i] : i \in 1..Len(t)}
        BY RangeEquality
    <2> QED BY <2>1, <2>2, <2>3, <2>4
<1> QED BY <1>1, <1>2, <1>5

\* Only the messages of a queue count for its order.
LEMMA AppendAndTail ==
    ASSUME NEW S, NEW s \in Seq(S), NEW t \in Seq(S), NEW e \in S
    PROVE  /\ t = <<>> => Append(s, e) \o t = Append(s \o t, e) /\ s \o t = s
           /\ s \o Append(t, e) = Append(s \o t, e)
           /\ s # <<>> => /\ s \o t # <<>> /\ Head(s \o t) = Head(s)
                          /\ Tail(s) \o t = Tail(s \o t)
           /\ s # <<>> /\ t # <<>> =>
                Append(Tail(s), Head(t)) \o Tail(t) = Tail(s \o t)
<1>1. s \o Append(t, e) = Append(s \o t, e)
    <2>1. /\ Append(t, e) = t \o <<e>> /\ <<e>> \in Seq(S)
          /\ Append(s \o t, e) = (s \o t) \o <<e>>
        BY AppendIsConcat, ConcatProperties
    <2> QED BY <2>1, ConcatAssociative
<1>2. t = <<>> => Append(s, e) \o t = Append(s \o t, e) /\ s \o t = s
    BY ConcatEmptySeq, AppendProperties
<1>3. ASSUME s # <<>>
      PROVE  s \o t # <<>> /\ Head(s \o t) = Head(s) /\ Tail(s) \o t = Tail(s \o t)
    <2>1. /\ Len(s) \in Nat \ {0} /\ Len(t) \in Nat
          /\ Tail(s) \in Seq(S) /\ Len(Tail(s)) = Len(s) - 1
          /\ \A i \in 1..Len(Tail(s)) : Tail(s)[i] = s[i + 1]
        BY <1>3, EmptySeq, LenProperties, HeadTailProperties
    <2>2. /\ s \o t \in Seq(S) /\ Len(s \o t) = Len(s) + Len(t)
          /\ \A i \in 1..(Len(s) + Len(t)) :
               (s \o t)[i] = IF i <= Len(s) THEN s[i] ELSE t[i - Len(s)]
        BY ConcatProperties
    <2>3. s \o t # <<>> /\ Head(s \o t) = Head(s)
        BY <2>1, <2>2
    <2>4. /\ Tail(s \o t) \in Seq(S) /\ Len(Tail(s \o t)) = Len(s) + Len(t) - 1
          /\ \A i \in 1..(Len(s) + Len(t) - 1) : Tail(s \o t)[i] = (s \o t)[i + 1]
        BY <2>2, <2>3, HeadTailProperties
    <2>5. /\ Tail(s) \o t \in Seq(S) /\ Len(Tail(s) \o t) = Len(s) - 1 + Len(t)
          /\ \A i \in 1..(Len(s) - 1 + Len(t)) :
               (Tail(s) \o t)[i] = IF i <= Len(s) - 1 THEN Tail(s)[i]
                                   ELSE t[i - (Len(s) - 1)]
        BY <2>1, ConcatProperties
    <2>6. ASSUME NEW i \in 1..(Len(s) + Len(t) - 1)
          PROVE  (Tail(s) \o t)[i] = Tail(s \o t)[i]
        <3>1. CASE i <= Len(s) - 1
            BY <2>1, <2>2, <2>4, <2>5, <3>1
        <3>2. CASE i > Len(s) - 1
            <4>1. i + 1 - Len(s) = i - (Len(s) - 1) /\ ~(i + 1 <= Len(s))
                BY <2>1, <3>2
            <4> QED BY <2>1, <2>2, <2>4, <2>5, <3>2, <4>1
        <3> QED BY <2>1, <3>1, <3>2
    <2>7. Len(Tail(s) \o t) = Len(Tail(s \o t))
        BY <2>1, <2>4, <2>5
    <2> QED BY <2>3, <2>4, <2>5, <2>6, <2>7, SeqEqual
<1>4. ASSUME s # <<>>, t # <<>>
      PROVE  Append(Tail(s), Head(t)) \o Tail(t) = Tail(s \o t)
    <2>1. Tail(s) \in Seq(S) /\ Tail(t) \in Seq(S) /\ Head(t) \in S
        BY <1>4, HeadTailProperties
    <2>2. Append(Tail(s), Head(t)) = Tail(s) \o <<Head(t)>> /\ <<Head(t)>> \in Seq(S)
        BY <2>1, AppendIsConcat
    <2>3. <<Head(t)>> \o Tail(t) = t
        <3>1. Len(<<Head(t)>>) = 1 /\ <<Head(t)>>[1] = Head(t)
            OBVIOUS
        <3>2. /\ Len(t) \in Nat \ {0} /\ Len(Tail(t)) = Len(t) - 1 /\ Head(t) = t[1]
              /\ \A i \in 1..Len(Tail(t)) : Tail(t)[i] = t[i + 1]
            BY <1>4, TailQueue, EmptySeq
        <3>3. /\ <<Head(t)>> \o Tail(t) \in Seq(S)
              /\ Len(<<Head(t)>> \o Tail(t)) = Len(t)
              /\ \A i \in 1..Len(t) : (<<Head(t)>> \o Tail(t))[i] =
                   IF i <= 1 THEN <<Head(t)>>[i] ELSE Tail(t)[i - 1]
            BY <2>1, <2>2, <3>1, <3>2, ConcatProperties
        <3>4. \A i \in 1..Len(t) : (<<Head(t)>> \o Tail(t))[i] = t[i]
            BY <3>1, <3>2, <3>3
        <3> QED BY <3>3, <3>4, SeqEqual
    <2>4. Append(Tail(s), Head(t)) \o Tail(t) = Tail(s) \o (<<Head(t)>> \o Tail(t))
        BY <2>1, <2>2, ConcatAssociative
    <2> QED BY <1>3, <1>4, <2>3, <2>4
<1> QED BY <1>1, <1>2, <1>3, <1>4

(***************************************************************************)
(* Types.                                                                  *)
(***************************************************************************)

USE CommandsAssumption, CapacityAssumption, RestartsAssumption
USE DEF Busy, requestVars, channelVars, workerVars

LEMMA StepType == TypeOK /\ [Next]_vars => TypeOK'
<1> SUFFICES ASSUME TypeOK, [Next]_vars PROVE TypeOK'
    OBVIOUS
<1> USE DEF TypeOK
<1>1. ASSUME NEW c \in Commands, Post(c) PROVE TypeOK'
    BY <1>1 DEF Post
<1>2. ASSUME NEW c \in Commands, Reject(c) \/ Accept(c) \/ Validate(c) \/ StopWaiting(c)
      PROVE  TypeOK'
    BY <1>2 DEF Reject, Accept, Validate, StopWaiting, FirstAnswer
<1>3. ASSUME NEW c \in Commands, Send(c) PROVE TypeOK'
    <2>1. Append(channel, c) \in Seq(Commands) /\ Len(Append(channel, c)) = Len(channel) + 1
        BY AppendProperties
    <2>2. Len(channel) \in Nat
        BY LenProperties
    <2> QED BY <1>3, <2>1, <2>2 DEF Send
<1>4. ASSUME NEW c \in Commands, SendBlocks(c) PROVE TypeOK'
    <2>1. Append(blocked, c) \in Seq(Commands)
        BY AppendProperties
    <2> QED BY <1>4, <2>1 DEF SendBlocks
<1>5. CASE Take
    <2>1. /\ Head(channel) \in Commands /\ Tail(channel) \in Seq(Commands)
          /\ Len(Tail(channel)) = Len(channel) - 1 /\ Len(channel) \in Nat
        BY <1>5, TailQueue, LenProperties DEF Take
    <2>2. CASE blocked = <<>>
        <3>1. channel' = Tail(channel) /\ UNCHANGED <<blocked, handler>>
            BY <1>5, <2>2 DEF Take
        <3>2. channel' \in Seq(Commands) /\ Len(channel') <= Capacity
            BY <2>1, <3>1
        <3> QED BY <1>5, <2>1, <3>1, <3>2 DEF Take
    <2>3. CASE blocked # <<>>
        <3>1. Head(blocked) \in Commands /\ Tail(blocked) \in Seq(Commands)
            BY <2>3, TailQueue
        <3>2. /\ Append(Tail(channel), Head(blocked)) \in Seq(Commands)
              /\ Len(Append(Tail(channel), Head(blocked))) = Len(channel)
            BY <2>1, <3>1, AppendProperties
        <3>3. handler' \in [Commands -> {"none", "ended"} \cup Busy]
            BY <1>5, <2>3, <3>1 DEF Take
        <3> QED BY <1>5, <2>1, <2>3, <3>1, <3>2, <3>3 DEF Take
    <2> QED BY <2>2, <2>3
<1>6. ASSUME NEW c \in Commands, Patch(c) PROVE TypeOK'
    BY <1>6 DEF Patch
<1>7. CASE Report
    BY <1>7 DEF Report
<1>8. CASE Restart
    <2>1. <<>> \in Seq(Commands) /\ Len(<<>>) = 0
        BY EmptySeq
    <2>2. restarts' \in 0..MaxRestarts
        BY <1>8 DEF Restart
    <2> QED BY <1>8, <2>1, <2>2 DEF Restart
<1>9. CASE UNCHANGED vars
    BY <1>9 DEF vars
<1> QED BY <1>1, <1>2, <1>3, <1>4, <1>5, <1>6, <1>7, <1>8, <1>9 DEF Next, Handle, UpdateWorker

LEMMA InitType == Init => TypeOK
<1>1. <<>> \in Seq(Commands) /\ Len(<<>>) = 0
    BY EmptySeq
<1> QED BY <1>1 DEF Init, TypeOK

\* Every reachable state of the agent is well typed, and its channel never
\* exceeds its capacity.
THEOREM TypeCorrect == Spec => []TypeOK
BY InitType, StepType, PTL DEF Spec

(***************************************************************************)
(* The invariant, one lemma for each kind of step.                         *)
(***************************************************************************)

LEMMA QueueShape ==
    ASSUME TypeOK
    PROVE  /\ Queue \in Seq(Commands) /\ Len(Queue) \in Nat
           /\ Range(Queue) = Range(channel) \cup Range(blocked)
           /\ Range(Queue) \subseteq Commands
           /\ \A i \in 1..Len(Queue) : Queue[i] \in Range(Queue)
           /\ \A c \in Range(Queue) : \E i \in 1..Len(Queue) : c = Queue[i]
<1>1. channel \in Seq(Commands) /\ blocked \in Seq(Commands)
    BY DEF TypeOK
<1>2. Queue \in Seq(Commands) /\ Range(Queue) = Range(channel) \cup Range(blocked)
    BY <1>1, JoinQueue DEF Queue
<1>3. Range(Queue) = {Queue[i] : i \in 1..Len(Queue)} /\ Len(Queue) \in Nat
    BY <1>2, RangeEquality, LenProperties
<1>4. Range(Queue) \subseteq Commands
    BY <1>2, RangeOfSeq
<1> QED BY <1>2, <1>3, <1>4

LEMMA InitInv == Init => IInv
<1> SUFFICES ASSUME Init PROVE IInv
    OBVIOUS
<1>1. channel = <<>> /\ blocked = <<>> /\ Queue = <<>>
    BY ConcatEmptySeq, EmptySeq DEF Init, Queue
<1>2. Len(<<>>) = 0 /\ Range(<<>>) = {}
    <2>1. <<>> \in Seq(Commands) /\ Len(<<>>) = 0
        BY EmptySeq
    <2>2. Range(<<>>) = {<<>>[i] : i \in 1..0}
        BY <2>1, RangeEquality
    <2> QED BY <2>1, <2>2
<1>3. QueueInv
    BY <1>1, <1>2 DEF Init, QueueInv, Distinct
<1>4. WorkerInv
    BY DEF Init, WorkerInv
<1>5. RequestInv
    BY <1>1, <1>2 DEF Init, RequestInv, Entered, Unfinished
<1>6. OrderInv
    BY <1>1, <1>2 DEF Init, OrderInv, AcknowledgedFirst, Started
<1> QED BY <1>3, <1>4, <1>5, <1>6 DEF IInv

\* A handler that does not touch the channel.
LEMMA HandlerInv ==
    ASSUME TypeOK, IInv, NEW c \in Commands,
           Post(c) \/ Reject(c) \/ Validate(c) \/ Accept(c) \/ StopWaiting(c)
    PROVE  IInv'
<1>1. UNCHANGED <<channel, blocked, worker, cur, outcome>>
    BY DEF Post, Reject, Validate, Accept, StopWaiting
<1>2. /\ Queue' = Queue /\ Unfinished' = Unfinished
      /\ \A d : Entered(d)' = Entered(d) /\ Started(d)' = Started(d)
    BY <1>1 DEF Queue, Unfinished, Entered, Started
<1>3. Unfinished \subseteq Range(Queue) \cup cur
    BY DEF Unfinished
<1>4. /\ \A d \in Commands : handler'[d] # handler[d] => d = c
      /\ handler[c] = "blocked" <=> handler'[c] = "blocked"
      /\ handler[c] \in {"sent", "ended"} => handler'[c] \in {"sent", "ended"}
    BY DEF TypeOK, Post, Reject, Validate, Accept, StopWaiting
<1>5. QueueInv'
    <2>1. Range(Queue) \subseteq Commands /\ Range(channel) \subseteq Commands
        BY QueueShape
    <2> QED BY <1>1, <1>2, <1>4, <2>1 DEF IInv, QueueInv
<1>6. WorkerInv'
    BY <1>1, <1>4 DEF IInv, WorkerInv, TypeOK
<1>7. RequestInv'
    <2>1. CASE Post(c)
        BY <1>2, <1>1, <2>1 DEF IInv, RequestInv, TypeOK, Post
    <2>2. CASE Reject(c)
        BY <1>2, <1>1, <2>2 DEF IInv, RequestInv, TypeOK, Reject, FirstAnswer
    <2>3. CASE Validate(c)
        BY <1>2, <1>1, <2>3 DEF IInv, RequestInv, TypeOK, Validate
    <2>4. CASE Accept(c)
        BY <1>2, <1>1, <2>4 DEF IInv, RequestInv, TypeOK, Accept, FirstAnswer
    <2>5. CASE StopWaiting(c)
        BY <1>2, <1>1, <2>5 DEF IInv, RequestInv, TypeOK, StopWaiting, FirstAnswer
    <2> QED BY <2>1, <2>2, <2>3, <2>4, <2>5
<1>8. \A d \in Commands : answer[d] = "202" => answer'[d] = "202"
    BY DEF TypeOK, Post, Reject, Validate, Accept, StopWaiting, FirstAnswer
<1>9. OrderInv'
    <2>1. CASE before' = before
        BY <1>2, <1>8, <1>1, <2>1 DEF IInv, OrderInv, AcknowledgedFirst, TypeOK
    <2>2. CASE Post(c)
        <3>1. /\ before' = [before EXCEPT ![c] = {a \in Commands : answer[a] = "202"}]
              /\ answer' = answer /\ handler[c] = "none"
            BY <2>2 DEF Post
        <3>2. ~Started(c) /\ c \notin Range(Queue)
            BY <3>1, QueueShape
               DEF IInv, QueueInv, WorkerInv, RequestInv, Started, TypeOK
        <3>3. \A i \in 1..Len(Queue) : before'[Queue[i]] = before[Queue[i]]
            BY <3>1, <3>2, QueueShape DEF TypeOK
        <3>4. \A i, j \in 1..Len(Queue) : Queue[j] \in before'[Queue[i]] => j < i
            BY <3>3 DEF IInv, OrderInv
        <3>5. \A d \in Commands : \A a \in before'[d] : answer[a] = "202"
            BY <3>1 DEF IInv, OrderInv, TypeOK
        <3>6. AcknowledgedFirst'
            BY <1>1, <1>2, <3>1, <3>2 DEF IInv, OrderInv, AcknowledgedFirst, TypeOK
        <3> QED BY <1>2, <3>1, <3>4, <3>5, <3>6 DEF OrderInv
    <2> QED BY <2>1, <2>2 DEF Reject, Validate, Accept, StopWaiting
<1> QED BY <1>5, <1>6, <1>7, <1>9 DEF IInv

\* A command that enters the channel or begins to wait for room in it.
LEMMA SendInv ==
    ASSUME TypeOK, IInv, NEW c \in Commands, Send(c) \/ SendBlocks(c)
    PROVE  /\ IInv' /\ Queue' = Append(Queue, c)
           /\ c \notin Range(Queue) \cup cur /\ outcome[c] = "none"
<1>1. /\ channel \in Seq(Commands) /\ blocked \in Seq(Commands)
      /\ Len(channel) \in Nat
    BY LenProperties DEF TypeOK
<1>2. /\ handler[c] = "send" /\ UNCHANGED <<answer, before, worker, cur, outcome>>
      /\ handler' \in {[handler EXCEPT ![c] = "sent"], [handler EXCEPT ![c] = "blocked"]}
    BY DEF Send, SendBlocks
<1>3. c \notin Range(Queue) \cup cur /\ outcome[c] = "none"
    BY <1>2, QueueShape DEF IInv, QueueInv, WorkerInv, RequestInv
<1>4. Queue' = Append(Queue, c)
    <2>1. CASE Send(c)
        <3>1. blocked = <<>> /\ channel' = Append(channel, c) /\ blocked' = blocked
            BY <1>1, <2>1 DEF Send, IInv, QueueInv
        <3> QED BY <1>1, <3>1, AppendAndTail DEF Queue
    <2>2. CASE SendBlocks(c)
        BY <1>1, <2>2, AppendAndTail DEF Queue, SendBlocks
    <2> QED BY <2>1, <2>2
<1>5. /\ Queue' \in Seq(Commands) /\ Range(Queue') = Range(Queue) \cup {c}
      /\ Distinct(Queue')
      /\ Len(Queue') = Len(Queue) + 1 /\ Queue'[Len(Queue) + 1] = c
      /\ \A i \in 1..Len(Queue) : Queue'[i] = Queue[i]
    BY <1>3, <1>4, QueueShape, AppendQueue, AppendProperties DEF IInv, QueueInv
<1>6. /\ Unfinished' = Unfinished \cup {c}
      /\ \A d : Entered(d) => Entered(d)'
      /\ \A d : d # c => Entered(d)' = Entered(d)
      /\ \A d : Started(d)' = Started(d)
    BY <1>2, <1>5 DEF Unfinished, Entered, Started
<1>7. QueueInv'
    <2>1. \A d \in Range(Queue') : outcome'[d] = "none" /\ d \notin cur'
        BY <1>2, <1>3, <1>5 DEF IInv, QueueInv
    <2>2. c \notin Range(channel) /\ c \notin Range(blocked)
        BY <1>3, QueueShape
    <2>3. CASE Send(c)
        <3>1. /\ blocked = <<>> /\ blocked' = blocked
              /\ handler' = [handler EXCEPT ![c] = "sent"]
              /\ channel' = Append(channel, c)
            BY <1>1, <2>3 DEF Send, IInv, QueueInv
        <3>2. Range(channel') = Range(channel) \cup {c}
            BY <1>1, <3>1, AppendQueue
        <3>3. Range(channel) \subseteq Commands
            BY QueueShape
        <3>4. \A d \in Range(channel') : handler'[d] \in {"sent", "ended"}
            BY <3>1, <3>2, <3>3, <2>2 DEF IInv, QueueInv, TypeOK
        <3>5. \A d \in Commands : handler'[d] = "blocked" <=> d \in Range(blocked')
            BY <3>1, <2>2, <1>2 DEF IInv, QueueInv, TypeOK
        <3> QED BY <1>5, <2>1, <3>1, <3>4, <3>5 DEF QueueInv
    <2>4. CASE SendBlocks(c)
        <3>1. /\ blocked' = Append(blocked, c) /\ channel' = channel
              /\ handler' = [handler EXCEPT ![c] = "blocked"]
              /\ Len(channel) = Capacity
            BY <2>4 DEF SendBlocks
        <3>2. Range(blocked') = Range(blocked) \cup {c}
            BY <1>1, <3>1, AppendQueue
        <3>3. Range(channel) \subseteq Commands
            BY QueueShape
        <3>4. \A d \in Range(channel') : handler'[d] \in {"sent", "ended"}
            BY <3>1, <3>3, <2>2 DEF IInv, QueueInv, TypeOK
        <3>5. \A d \in Commands : handler'[d] = "blocked" <=> d \in Range(blocked')
            BY <3>1, <3>2, <1>2 DEF IInv, QueueInv, TypeOK
        <3> QED BY <1>5, <2>1, <3>1, <3>4, <3>5 DEF QueueInv
    <2> QED BY <2>3, <2>4
<1>8. WorkerInv'
    BY <1>2, <1>3 DEF IInv, WorkerInv, TypeOK
<1>9. RequestInv'
    <2>1. Entered(c)' /\ c \in Genuine
        BY <1>2, <1>6 DEF Entered, IInv, RequestInv
    <2>2. answer[c] \notin {"202", "400"}
        BY <1>2 DEF IInv, RequestInv
    <2>3. handler'[c] \in {"sent", "blocked"}
        BY <1>2 DEF TypeOK
    <2>4. \A d \in Commands : d # c => handler'[d] = handler[d]
        BY <1>2 DEF TypeOK
    <2> QED BY <1>2, <1>6, <2>1, <2>2, <2>3, <2>4 DEF IInv, RequestInv
<1>10. OrderInv'
    <2>1. \A d \in Commands : c \notin before[d]
        BY <1>2 DEF IInv, OrderInv, RequestInv
    <2>2. ASSUME NEW i \in 1..Len(Queue'), NEW j \in 1..Len(Queue'),
                 Queue'[j] \in before'[Queue'[i]]
          PROVE  j < i
        <3>0. Queue'[i] \in Commands /\ Len(Queue) \in Nat
            BY <1>5, QueueShape, ElementOfSeq
        <3>1. j # Len(Queue) + 1
            BY <1>2, <1>5, <2>1, <2>2, <3>0
        <3>2. CASE i = Len(Queue) + 1
            BY <1>5, <3>0, <3>1, <3>2
        <3>3. CASE i # Len(Queue) + 1
            <4>1. i \in 1..Len(Queue) /\ j \in 1..Len(Queue)
                BY <1>5, <3>0, <3>1, <3>3
            <4>2. Queue[j] \in before[Queue[i]]
                BY <1>2, <1>5, <2>2, <4>1
            <4> QED BY <4>1, <4>2 DEF IInv, OrderInv
        <3> QED BY <3>2, <3>3
    <2> QED BY <1>2, <1>6, <2>2 DEF IInv, OrderInv, AcknowledgedFirst
<1> QED BY <1>3, <1>4, <1>7, <1>8, <1>9, <1>10 DEF IInv

\* The worker takes the first command, and the first handler that waits for
\* room gets it.
LEMMA TakeInv ==
    ASSUME TypeOK, IInv, Take
    PROVE  /\ IInv' /\ Queue # <<>> /\ Queue' = Tail(Queue)
           /\ cur' = {Head(Queue)}
<1> DEFINE c == Head(channel)
<1>1. /\ channel \in Seq(Commands) /\ blocked \in Seq(Commands)
      /\ worker = "idle" /\ channel # <<>> /\ worker' = "patch" /\ cur' = {c}
      /\ UNCHANGED <<answer, before, outcome>>
    BY DEF TypeOK, Take
<1>2. cur = {}
    BY <1>1 DEF IInv, WorkerInv
<1>3. Queue # <<>> /\ Head(Queue) = c /\ Queue' = Tail(Queue)
    <2>1. Queue # <<>> /\ Head(Queue) = c /\ Tail(channel) \o blocked = Tail(Queue)
        BY <1>1, AppendAndTail DEF Queue
    <2>2. CASE blocked = <<>>
        BY <1>1, <2>1, <2>2 DEF Queue, Take
    <2>3. CASE blocked # <<>>
        <3>1. c \in Commands
            BY <1>1, HeadTailProperties
        <3>2. /\ channel' = Append(Tail(channel), Head(blocked))
              /\ blocked' = Tail(blocked)
            BY <2>3 DEF Take
        <3>3. Append(Tail(channel), Head(blocked)) \o Tail(blocked) = Tail(channel \o blocked)
            BY <1>1, <2>3, <3>1, AppendAndTail
        <3> QED BY <2>1, <3>2, <3>3 DEF Queue
    <2> QED BY <2>1, <2>2, <2>3
<1>4. /\ Queue \in Seq(Commands) /\ Len(Queue) \in Nat
      /\ c \in Range(Queue) /\ c = Queue[1] /\ c \in Commands
      /\ Range(Queue') = Range(Queue) \ {c}
      /\ Distinct(Queue') /\ Len(Queue') = Len(Queue) - 1
      /\ \A i \in 1..Len(Queue') : Queue'[i] = Queue[i + 1]
    BY <1>3, QueueShape, TailQueue DEF IInv, QueueInv
<1>5. outcome[c] = "none" /\ c \in Range(channel) /\ handler[c] \in {"sent", "ended"}
    BY <1>1, <1>4, TailQueue DEF IInv, QueueInv
<1>6. /\ Distinct(channel) /\ Distinct(blocked)
      /\ Range(channel) \cap Range(blocked) = {}
      /\ Range(channel) \subseteq Commands /\ Range(blocked) \subseteq Commands
    BY <1>1, JoinQueue, QueueShape DEF IInv, QueueInv, Queue
\* The handler that is woken, if any.
<1>7. PICK W \in SUBSET Range(blocked) :
        /\ Range(blocked') = Range(blocked) \ W
        /\ Range(channel') = (Range(channel) \ {c}) \cup W
        /\ handler' = [d \in Commands |-> IF d \in W THEN "sent" ELSE handler[d]]
        /\ blocked' # <<>> => Len(channel') = Capacity
    <2>1. /\ Tail(channel) \in Seq(Commands) /\ Len(Tail(channel)) = Len(channel) - 1
          /\ Range(Tail(channel)) = Range(channel) \ {c}
        BY <1>1, <1>6, TailQueue
    <2>2. CASE blocked = <<>>
        <3>1. blocked' = blocked /\ channel' = Tail(channel) /\ handler' = handler
            BY <2>2 DEF Take
        <3>2. handler' = [d \in Commands |-> IF d \in {} THEN "sent" ELSE handler[d]]
            BY <3>1 DEF TypeOK
        <3> WITNESS {} \in SUBSET Range(blocked)
        <3> QED BY <2>1, <2>2, <3>1, <3>2
    <2>3. CASE blocked # <<>>
        <3> DEFINE w == Head(blocked)
        <3>1. /\ blocked' = Tail(blocked) /\ channel' = Append(Tail(channel), w)
              /\ handler' = [handler EXCEPT ![w] = "sent"]
            BY <2>3 DEF Take
        <3>2. /\ w \in Range(blocked) /\ w \in Commands
              /\ Range(blocked') = Range(blocked) \ {w}
            BY <1>1, <1>6, <2>3, <3>1, TailQueue
        <3>3. Range(channel') = (Range(channel) \ {c}) \cup {w}
            <4>1. \A s \in Seq(Commands), e \in Commands :
                    Range(Append(s, e)) = Range(s) \cup {e}
                BY AppendQueue
            <4> QED BY <2>1, <3>1, <3>2, <4>1, Zenon
        <3>4. Len(channel') = Capacity
            <4>1. Len(channel') = Len(Tail(channel)) + 1
                BY <2>1, <3>1, <3>2, AppendProperties
            <4>2. Len(channel) = Capacity
                BY <2>3 DEF IInv, QueueInv
            <4> QED BY <2>1, <4>1, <4>2
        <3>5. handler' = [d \in Commands |-> IF d \in {w} THEN "sent" ELSE handler[d]]
            BY <3>1 DEF TypeOK
        <3> QED BY <3>2, <3>3, <3>4, <3>5
    <2> QED BY <2>2, <2>3
<1>8. \A d \in W : handler[d] = "blocked" /\ d # c /\ d \in Unfinished
    BY <1>5, <1>6, <1>7, QueueShape DEF IInv, QueueInv, Unfinished
<1>9. /\ Unfinished' = Unfinished
      /\ \A d : Entered(d)' = Entered(d)
    BY <1>1, <1>2, <1>4 DEF Unfinished, Entered
<1>10. QueueInv'
    <2>1. \A d \in Range(channel') : handler'[d] \in {"sent", "ended"}
        BY <1>6, <1>7 DEF IInv, QueueInv
    <2>2. \A d \in Commands : handler'[d] = "blocked" <=> d \in Range(blocked')
        BY <1>7 DEF IInv, QueueInv
    <2>3. \A d \in Range(Queue') : outcome'[d] = "none" /\ d \notin cur'
        BY <1>1, <1>4 DEF IInv, QueueInv
    <2> QED BY <1>4, <1>7, <2>1, <2>2, <2>3 DEF QueueInv
<1>11. WorkerInv'
    <2>1. handler'[c] = handler[c]
        BY <1>4, <1>7, <1>8
    <2> QED BY <1>1, <1>5, <2>1 DEF WorkerInv
<1>12. RequestInv'
    BY <1>1, <1>7, <1>8, <1>9 DEF IInv, RequestInv, Entered
<1>13. OrderInv'
    <2>1. ASSUME NEW a \in before[c] PROVE outcome[a] # "none"
        <3>1. a \in Commands /\ Entered(a)
            BY <1>4, <2>1 DEF IInv, OrderInv, RequestInv, TypeOK
        <3>2. a \notin Range(Queue)
            <4> SUFFICES ASSUME a \in Range(Queue) PROVE FALSE
                OBVIOUS
            <4>1. PICK j \in 1..Len(Queue) : a = Queue[j]
                BY QueueShape
            <4>2. 1 \in 1..Len(Queue)
                BY <1>4, <4>1
            <4>3. j < 1
                BY <1>4, <2>1, <4>1, <4>2 DEF IInv, OrderInv
            <4> QED BY <4>1, <4>3
        <3> QED BY <1>1, <3>1, <3>2 DEF Entered, Unfinished
    <2>2. ASSUME NEW i \in 1..Len(Queue'), NEW j \in 1..Len(Queue'),
                 Queue'[j] \in before'[Queue'[i]]
          PROVE  j < i
        <3>1. i + 1 \in 1..Len(Queue) /\ j + 1 \in 1..Len(Queue)
            BY <1>4
        <3>2. Queue[j + 1] \in before[Queue[i + 1]]
            BY <1>1, <1>4, <2>2
        <3>3. j + 1 < i + 1
            BY <3>1, <3>2 DEF IInv, OrderInv
        <3> QED BY <3>3
    <2>3. AcknowledgedFirst'
        BY <1>1, <2>1 DEF IInv, OrderInv, AcknowledgedFirst, Started
    <2> QED BY <1>1, <2>2, <2>3 DEF IInv, OrderInv
<1> QED BY <1>1, <1>3, <1>10, <1>11, <1>12, <1>13 DEF IInv

\* The worker with its command.
LEMMA WorkInv ==
    ASSUME TypeOK, IInv, Report \/ \E c \in Commands : Patch(c)
    PROVE  IInv'
<1>1. UNCHANGED <<handler, answer, before, channel, blocked>> /\ Queue' = Queue
    BY DEF Report, Patch, Queue
<1>2. Range(Queue) \subseteq Commands
    BY QueueShape
<1>3. CASE Report
    <2>1. /\ outcome' = outcome /\ cur' = {} /\ worker' = "idle" /\ worker = "report"
        BY <1>3 DEF Report
    <2>2. \A d \in Commands : Entered(d)' = Entered(d)
        BY <1>1, <2>1 DEF Entered, Unfinished
    <2>3. \A d \in Commands : Started(d)' => Started(d)
        BY <2>1 DEF Started
    <2> QED BY <1>1, <2>1, <2>2, <2>3
            DEF IInv, QueueInv, WorkerInv, RequestInv, OrderInv, AcknowledgedFirst
<1>4. ASSUME NEW c \in Commands, Patch(c) PROVE IInv'
    <2>1. /\ worker = "patch" /\ worker' = "report" /\ c \in cur /\ cur' = cur
          /\ \A d \in Commands : d # c => outcome'[d] = outcome[d]
          /\ outcome'[c] \in {"os_upgrade", "failed"}
        BY <1>4 DEF Patch, TypeOK
    <2>2. cur = {c} /\ c \notin Range(Queue)
        BY <2>1 DEF IInv, QueueInv, WorkerInv
    <2>3. \A d \in Commands : Entered(d)' = Entered(d) /\ Started(d)' = Started(d)
        BY <1>1, <2>1, <2>2 DEF Entered, Unfinished, Started
    <2>4. QueueInv' /\ WorkerInv'
        BY <1>1, <1>2, <2>1, <2>2 DEF IInv, QueueInv, WorkerInv
    <2>5. handler[c] \notin {"none", "parse", "send"}
        BY <2>1 DEF IInv, WorkerInv
    <2>6. RequestInv'
        BY <1>1, <2>1, <2>3, <2>5 DEF IInv, RequestInv
    <2>7. OrderInv'
        BY <1>1, <2>1, <2>3 DEF IInv, OrderInv, AcknowledgedFirst, TypeOK
    <2> QED BY <2>4, <2>6, <2>7 DEF IInv
<1> QED BY <1>3, <1>4

LEMMA RestartInv == ASSUME TypeOK, IInv, Restart PROVE IInv' /\ Queue' = <<>>
<1>1. /\ channel' = <<>> /\ blocked' = <<>> /\ cur' = {} /\ worker' = "idle"
      /\ before' = before
    BY DEF Restart
<1>2. Queue' = <<>> /\ Len(<<>>) = 0 /\ Range(<<>>) = {}
    <2>1. <<>> \in Seq(Commands) /\ Len(<<>>) = 0
        BY EmptySeq
    <2>2. Range(<<>>) = {<<>>[i] : i \in 1..0}
        BY <2>1, RangeEquality
    <2>3. <<>> \o <<>> = <<>>
        BY <2>1, ConcatEmptySeq
    <2> QED BY <1>1, <2>1, <2>2, <2>3 DEF Queue
<1>3. \A d \in Commands : handler'[d] \in {"none", "ended"}
    BY DEF Restart, TypeOK
<1>4. \A d \in Commands : /\ answer'[d] \in {"202", "400"} => answer'[d] = answer[d]
                          /\ answer[d] = "202" => answer'[d] = "202"
                          /\ outcome[d] # "none" => outcome'[d] # "none"
                          /\ outcome'[d] # "none" <=> Entered(d)
                          /\ Entered(d)' <=> Entered(d)
                          /\ handler'[d] = "none" => handler[d] = "none" /\ answer'[d] = answer[d]
    BY <1>1, <1>2 DEF Restart, TypeOK, Entered, Unfinished
<1>5. QueueInv' /\ WorkerInv'
    BY <1>1, <1>2, <1>3 DEF QueueInv, WorkerInv, Distinct
<1>6. RequestInv'
    <2>1. \A d \in Commands : handler[d] = "none" => ~Entered(d)
        BY QueueShape DEF IInv, QueueInv, WorkerInv, RequestInv, Entered, Unfinished
    <2> QED BY <1>3, <1>4, <2>1 DEF IInv, RequestInv
<1>7. OrderInv'
    <2>1. \A d \in Commands : Started(d)' => Started(d)
        BY <1>1 DEF Started, Restart, TypeOK
    <2> QED BY <1>1, <1>2, <1>4, <2>1 DEF IInv, OrderInv, AcknowledgedFirst, TypeOK
<1> QED BY <1>2, <1>5, <1>6, <1>7 DEF IInv

LEMMA StepInv == TypeOK /\ IInv /\ [Next]_vars => IInv'
<1> SUFFICES ASSUME TypeOK, IInv, [Next]_vars PROVE IInv'
    OBVIOUS
<1>1. CASE UNCHANGED vars
    BY <1>1 DEF vars, IInv, QueueInv, WorkerInv, RequestInv, OrderInv, AcknowledgedFirst,
                Started, Entered, Unfinished, Queue
<1> QED BY <1>1, HandlerInv, SendInv, TakeInv, WorkInv, RestartInv
        DEF Next, Handle, UpdateWorker

\* The inductive invariant of the queue, its worker and the answers.
THEOREM Invariance == Spec => []IInv
BY InitType, StepType, InitInv, StepInv, PTL DEF Spec

\* An acknowledged command waits, is being executed, was executed, or was lost
\* in a restart; in particular a full channel never drops one.
THEOREM AcceptedHeld == Spec => []AcceptedIsHeld
<1>1. IInv => AcceptedIsHeld
    BY DEF IInv, RequestInv, AcceptedIsHeld
<1> QED BY <1>1, Invariance, PTL

\* A refused command never enters the channel.
THEOREM RefusedOut == Spec => []RefusedNeverEnters
<1>1. IInv => RefusedNeverEnters
    BY DEF IInv, RequestInv, RefusedNeverEnters
<1> QED BY <1>1, Invariance, PTL

\* Commands posted one after the other are executed in that order.
THEOREM InOrder == Spec => []AcknowledgedFirst
<1>1. IInv => AcknowledgedFirst
    BY DEF IInv, OrderInv
<1> QED BY <1>1, Invariance, PTL

(***************************************************************************)
(* The agent implements CommandLog.                                        *)
(***************************************************************************)

Running == IF worker = "patch" THEN cur ELSE {}
Ended == {c \in Commands : outcome[c] # "none"}

LEMMA SameRange == \A s : Log!Range(s) = Range(s)
BY DEF Log!Range, Range

LEMMA InitSimulates == Init => Log!Init
<1> SUFFICES ASSUME Init PROVE Log!Init
    OBVIOUS
<1>1. <<>> \in Seq(Commands) /\ <<>> \o <<>> = <<>>
    BY ConcatEmptySeq, EmptySeq
<1> QED BY <1>1 DEF Init, Log!Init, Queue

LEMMA StepSimulates ==
    TypeOK /\ IInv /\ [Next]_vars => [Log!Next]_(Log!logVars)
<1> SUFFICES ASSUME TypeOK, IInv, [Next]_vars, ~UNCHANGED <<Queue, Running, Ended>>
             PROVE  Log!Next
    BY DEF Log!logVars, Running, Ended
<1>1. ASSUME NEW c \in Commands, Send(c) \/ SendBlocks(c) PROVE Log!Next
    <2>1. /\ c \notin Range(Queue) \cup cur /\ outcome[c] = "none"
          /\ Queue' = Append(Queue, c)
        BY <1>1, SendInv
    <2>2. UNCHANGED <<worker, cur, outcome>>
        BY <1>1 DEF Send, SendBlocks
    <2>3. c \notin Range(Queue) \cup Running \cup Ended
        BY <2>1 DEF Running, Ended
    <2>4. Running' = Running /\ Ended' = Ended
        BY <2>2 DEF Running, Ended
    <2>5. Log!Enter(c)
        BY <2>1, <2>3, <2>4, SameRange DEF Log!Enter, Running, Ended
    <2> QED BY <2>5 DEF Log!Next
<1>2. CASE Take
    <2>1. Queue # <<>> /\ Queue' = Tail(Queue) /\ cur' = {Head(Queue)}
        BY <1>2, TakeInv
    <2>2. worker = "idle" /\ worker' = "patch" /\ outcome' = outcome
        BY <1>2 DEF Take
    <2>3. Log!Start
        BY <2>1, <2>2 DEF Log!Start
    <2> QED BY <2>3 DEF Log!Next
<1>3. ASSUME NEW c \in Commands, Patch(c) PROVE Log!Next
    <2>1. /\ worker = "patch" /\ worker' = "report" /\ cur = {c} /\ Queue' = Queue
        BY <1>3 DEF Patch, IInv, WorkerInv, Queue
    <2>2. Ended' = Ended \cup {c}
        BY <1>3 DEF Patch, TypeOK, Ended
    <2>3. Log!Finish(c)
        BY <2>1, <2>2 DEF Log!Finish, Ended
    <2> QED BY <2>3 DEF Log!Next
<1>4. CASE Restart
    <2>1. Queue' = <<>> /\ worker' = "idle"
        BY <1>4, RestartInv DEF Restart
    <2>2. Unfinished \subseteq Commands
        BY QueueShape DEF Unfinished, TypeOK
    <2>3. Ended' = Ended \cup Range(Queue) \cup Running
        BY <1>4, <2>2 DEF Restart, TypeOK, Ended, Unfinished, Running
    <2>4. Running' = {}
        BY <2>1 DEF Running
    <2>5. Log!Lose
        BY <2>1, <2>3, <2>4, SameRange DEF Log!Lose, Ended, Running
    <2> QED BY <2>5 DEF Log!Next
<1>5. CASE Report
    BY <1>5 DEF Report, Queue, Running, Ended
<1>6. ASSUME NEW c \in Commands,
             Post(c) \/ Reject(c) \/ Validate(c) \/ Accept(c) \/ StopWaiting(c)
      PROVE  FALSE
    BY <1>6 DEF Post, Reject, Validate, Accept, StopWaiting, Queue, Running, Ended
<1>7. CASE UNCHANGED vars
    BY <1>7 DEF vars, Queue, Running, Ended
<1> QED BY <1>1, <1>2, <1>3, <1>4, <1>5, <1>6, <1>7 DEF Next, Handle, UpdateWorker

\* The agent executes what enters its queue one at a time, in order and once,
\* whatever the capacity, the timeouts and the restarts.
THEOREM Refinement == Spec => ImplementsLog
<1>1. Spec => [](TypeOK /\ IInv)
    BY TypeCorrect, Invariance, PTL
<1> QED BY <1>1, InitSimulates, StepSimulates, PTL DEF Spec, ImplementsLog, Log!Spec

(***************************************************************************)
(* The agent serves the exchanges the server makes.                        *)
(***************************************************************************)

Over == {c \in Commands : answer[c] # "none"}

\* What becomes a held command once its exchange is over.
InHand == {c \in Commands : \/ c \in Genuine /\ handler[c] \in {"parse", "send"}
                            \/ c \in Range(Queue) \cup cur}

LEMMA HeldIsInHand == Held = Over \cap InHand
BY DEF Held, Over, InHand

\* An exchange is not over before its request has come, and a handler does not
\* end without one answer given.
AnswerInv ==
    \A c \in Commands : /\ handler[c] = "none" => answer[c] = "none"
                        /\ handler[c] = "ended" => answer[c] # "none"

LEMMA StepAnswer == TypeOK /\ AnswerInv /\ [Next]_vars => AnswerInv'
<1> SUFFICES ASSUME TypeOK, AnswerInv, [Next]_vars PROVE AnswerInv'
    OBVIOUS
<1> USE DEF AnswerInv, TypeOK
<1>1. ASSUME NEW c \in Commands, Post(c) PROVE AnswerInv'
    BY <1>1 DEF Post
<1>2. ASSUME NEW c \in Commands, Reject(c) \/ Accept(c) \/ StopWaiting(c) PROVE AnswerInv'
    BY <1>2 DEF Reject, Accept, StopWaiting, FirstAnswer
<1>3. ASSUME NEW c \in Commands, Validate(c) \/ Send(c) \/ SendBlocks(c) PROVE AnswerInv'
    BY <1>3 DEF Validate, Send, SendBlocks
<1>4. CASE Take
    BY <1>4, TailQueue DEF Take
<1>5. CASE Report \/ (\E c \in Commands : Patch(c)) \/ UNCHANGED vars
    BY <1>5 DEF Report, Patch, vars
<1>6. CASE Restart
    BY <1>6 DEF Restart
<1> QED BY <1>1, <1>2, <1>3, <1>4, <1>5, <1>6 DEF Next, Handle, UpdateWorker

\* No handler of the agent ends, and none is taken away by a restart, without
\* the server having been answered or having stopped waiting.
THEOREM NoSilentEnd == Spec => []AnswerInv
<1>1. Init => AnswerInv
    BY DEF Init, AnswerInv
<1> QED BY <1>1, StepAnswer, TypeCorrect, PTL DEF Spec

\* One command is answered for the first time; nothing else about it changes
\* for the server.
LEMMA AnswerIsExchange ==
    ASSUME TypeOK, NEW c \in Commands, NEW a, a # "none", answer' = FirstAnswer(c, a),
           InHand' = InHand
    PROVE  Exchange!Exchange(c) \/ UNCHANGED <<Over, Held>>
<1>1. CASE answer[c] = "none"
    <2>1. c \notin Over /\ Over' = Over \cup {c}
        BY <1>1 DEF Over, FirstAnswer, TypeOK
    <2>2. Held' = (Over \cup {c}) \cap InHand
        BY <2>1, HeldIsInHand DEF Held, Over, InHand
    <2>3. Held' \in {Held, Held \cup {c}}
        BY <2>2, HeldIsInHand
    <2> QED BY <2>1, <2>3 DEF Exchange!Exchange, Over
<1>2. CASE answer[c] # "none"
    <2>1. Over' = Over
        BY <1>2 DEF Over, FirstAnswer, TypeOK
    <2> QED BY <2>1 DEF Held, Over, InHand
<1> QED BY <1>1, <1>2

LEMMA SameExchange ==
    ASSUME answer' = answer, InHand' = InHand PROVE UNCHANGED <<Over, Held>>
BY DEF Held, Over, InHand

\* The steps of a handler.
LEMMA HandlerExchanges ==
    ASSUME TypeOK, IInv, AnswerInv, NEW c \in Commands, Post(c) \/ Handle(c) \/ StopWaiting(c)
    PROVE  Exchange!Exchange(c) \/ UNCHANGED <<Over, Held>>
<1>0. /\ Range(Queue) \subseteq Commands /\ cur \subseteq Commands
      /\ handler \in [Commands -> {"none", "ended"} \cup Busy]
    BY QueueShape DEF TypeOK
<1>1. CASE Post(c)
    <2>1. /\ handler[c] = "none" /\ handler' = [handler EXCEPT ![c] = "parse"]
          /\ answer' = answer /\ Queue' = Queue /\ cur' = cur
        BY <1>1 DEF Post, Queue
    <2>2. c \notin Over
        BY <2>1 DEF AnswerInv, Over
    <2>3. Over' = Over
        BY <2>1 DEF Over
    <2>4. \A d \in Commands : d # c => (d \in InHand' <=> d \in InHand)
        BY <1>0, <2>1 DEF InHand
    <2>5. Held' = Over' \cap InHand'
        BY HeldIsInHand DEF Held, Over, InHand
    <2>6. Held' = Held
        BY <2>2, <2>3, <2>4, <2>5, HeldIsInHand DEF Over
    <2> QED BY <2>3, <2>6
<1>2. CASE Reject(c)
    <2>1. /\ c \notin Genuine /\ handler' = [handler EXCEPT ![c] = "ended"]
          /\ answer' = FirstAnswer(c, "400") /\ Queue' = Queue /\ cur' = cur
        BY <1>2 DEF Reject, Queue
    <2>2. InHand' = InHand
        BY <1>0, <2>1 DEF InHand
    <2> QED BY <2>1, <2>2, AnswerIsExchange
<1>3. CASE Validate(c)
    <2>1. /\ handler[c] = "parse" /\ handler' = [handler EXCEPT ![c] = "send"]
          /\ answer' = answer /\ Queue' = Queue /\ cur' = cur
        BY <1>3 DEF Validate, Queue
    <2>2. InHand' = InHand
        BY <1>0, <2>1 DEF InHand
    <2> QED BY <2>1, <2>2, SameExchange
<1>4. CASE Send(c) \/ SendBlocks(c)
    <2>1. /\ handler[c] = "send" /\ answer' = answer /\ cur' = cur
          /\ handler' \in {[handler EXCEPT ![c] = "sent"], [handler EXCEPT ![c] = "blocked"]}
        BY <1>4 DEF Send, SendBlocks
    <2>2. Queue' = Append(Queue, c) /\ c \in Genuine
        BY <1>4, <2>1, SendInv DEF IInv, RequestInv
    <2>3. Range(Queue') = Range(Queue) \cup {c}
        <3>1. Queue \in Seq(Commands)
            BY QueueShape
        <3>2. Range(Append(Queue, c)) = Range(Queue) \cup {c}
            BY <3>1, AppendQueue
        <3> QED BY <2>2, <3>2
    <2>4. InHand' = InHand
        BY <1>0, <2>1, <2>2, <2>3 DEF InHand
    <2> QED BY <2>1, <2>4, SameExchange
<1>5. CASE Accept(c)
    <2>1. /\ handler[c] = "sent" /\ handler' = [handler EXCEPT ![c] = "ended"]
          /\ answer' = FirstAnswer(c, "202") /\ Queue' = Queue /\ cur' = cur
        BY <1>5 DEF Accept, Queue
    <2>2. InHand' = InHand
        BY <1>0, <2>1 DEF InHand
    <2> QED BY <2>1, <2>2, AnswerIsExchange
<1>6. CASE StopWaiting(c)
    <2>1. PICK a \in {"503", "lost"} : answer' = FirstAnswer(c, a)
        BY <1>6 DEF StopWaiting
    <2>2. UNCHANGED <<handler, cur>> /\ Queue' = Queue
        BY <1>6 DEF StopWaiting, Queue
    <2>3. InHand' = InHand
        BY <2>2 DEF InHand
    <2> QED BY <2>1, <2>3, AnswerIsExchange
<1> QED BY <1>1, <1>2, <1>3, <1>4, <1>5, <1>6 DEF Handle

\* The steps of the worker: a report lets go of the command.
LEMMA WorkerExchanges ==
    ASSUME TypeOK, IInv, UpdateWorker
    PROVE  Exchange!Next \/ UNCHANGED <<Over, Held>>
<1>1. CASE Take
    <2>1. /\ Queue # <<>> /\ Queue' = Tail(Queue) /\ cur' = {Head(Queue)}
          /\ answer' = answer /\ cur = {}
        BY <1>1, TakeInv DEF Take, IInv, WorkerInv
    <2>2. /\ Range(Queue') = Range(Queue) \ {Head(Queue)}
          /\ Head(Queue) \in Range(Queue)
        BY <2>1, QueueShape, TailQueue DEF IInv, QueueInv
    <2>3. \A d \in Commands : handler'[d] # handler[d] =>
            handler[d] = "blocked" /\ handler'[d] = "sent"
        <3>1. blocked # <<>> => Head(blocked) \in Range(blocked) /\ Head(blocked) \in Commands
            BY TailQueue DEF TypeOK
        <3> QED BY <1>1, <3>1 DEF Take, TypeOK, IInv, QueueInv
    <2>4. InHand' = InHand
        BY <2>1, <2>2, <2>3 DEF InHand
    <2> QED BY <2>1, <2>4, SameExchange
<1>2. ASSUME NEW c \in Commands, Patch(c) PROVE UNCHANGED <<Over, Held>>
    <2>1. UNCHANGED <<answer, handler, cur>> /\ Queue' = Queue
        BY <1>2 DEF Patch, Queue
    <2> QED BY <2>1, SameExchange DEF InHand
<1>3. CASE Report
    <2>1. UNCHANGED <<answer, handler>> /\ Queue' = Queue /\ cur' = {}
        BY <1>3 DEF Report, Queue
    <2>2. CASE cur \cap Over = {}
        BY <2>1, <2>2 DEF Held, Over
    <2>3. ASSUME NEW c \in cur, c \in Over PROVE Exchange!Next
        <3>1. /\ c \in Commands /\ cur = {c} /\ c \notin Range(Queue)
              /\ handler[c] \notin {"parse", "send"}
            BY <2>3 DEF IInv, QueueInv, WorkerInv, Over
        <3>2. c \in Held /\ Held' = Held \ {c}
            BY <2>1, <2>3, <3>1 DEF Held, Over
        <3>3. Exchange!Finish(c)
            BY <2>1, <3>2 DEF Exchange!Finish
        <3> QED BY <3>1, <3>3 DEF Exchange!Next
    <2> QED BY <2>2, <2>3
<1> QED BY <1>1, <1>2, <1>3 DEF UpdateWorker

LEMMA RestartExchanges ==
    ASSUME TypeOK, IInv, Restart PROVE Exchange!Next
<1> DEFINE Cut == {c \in Commands : handler[c] \in Busy /\ answer[c] = "none"}
<1>1. Queue' = <<>> /\ cur' = {} /\ Range(<<>>) = {}
    <2>1. <<>> \in Seq(Commands) /\ Len(<<>>) = 0
        BY EmptySeq
    <2>2. Range(<<>>) = {<<>>[i] : i \in 1..0}
        BY <2>1, RangeEquality
    <2> QED BY <2>1, <2>2, RestartInv DEF Restart
<1>2. Held' = {}
    BY <1>1 DEF Restart, Held, TypeOK
<1>3. Over' = Over \cup Cut
    BY DEF Restart, Over, TypeOK
<1>4. PICK S \in SUBSET Commands : S = Cut
    OBVIOUS
<1>5. Exchange!Restart(S)
    BY <1>2, <1>3, <1>4 DEF Exchange!Restart, Over
<1> QED BY <1>5 DEF Exchange!Next

\* What the server takes a post for is what the agent does with it: a command
\* comes into its hands in its own exchange or never, and leaves them once,
\* although the agent's handler goes on after the exchange is over.
THEOREM Serves == Spec => ServesExchange
<1>1. Init => Exchange!Init
    BY DEF Init, Exchange!Init, Held
<1>2. TypeOK /\ IInv /\ AnswerInv /\ [Next]_vars => [Exchange!Next]_Exchange!exchangeVars
    <2> SUFFICES ASSUME TypeOK, IInv, AnswerInv, [Next]_vars
                 PROVE  Exchange!Next \/ UNCHANGED <<Over, Held>>
        BY DEF Exchange!exchangeVars, Over
    <2>1. CASE UNCHANGED vars
        BY <2>1 DEF vars, Over, Held, Queue
    <2> QED BY <2>1, HandlerExchanges, WorkerExchanges, RestartExchanges
            DEF Next, Exchange!Next
<1> QED BY <1>1, <1>2, TypeCorrect, Invariance, NoSilentEnd, PTL
        DEF Spec, ServesExchange, Exchange!Spec

(***************************************************************************)
(* Nobody overtakes: the safety half of EnteredEnds.                       *)
(***************************************************************************)

\* The commands that the worker will take before c.
Ahead(c) ==
    {d \in Commands : \E i, j \in 1..Len(Queue) :
                        i < j /\ Queue[i] = d /\ Queue[j] = c}

\* A command in the queue only moves forward, by one whenever the worker takes
\* one, and leaves it when it is taken itself or lost in a restart.
QueueAdvances ==
    \A c \in Range(Queue) :
        \/ /\ c \in Range(Queue') /\ Ahead(c)' \subseteq Ahead(c)
           /\ Take => Head(Queue) \in Ahead(c) \ Ahead(c)'
        \/ Take /\ cur' = {c} /\ Ahead(c) = {}
        \/ Restart /\ outcome'[c] = "lost"

LEMMA AppendAdvances ==
    ASSUME TypeOK, IInv, NEW d \in Commands, Send(d) \/ SendBlocks(d),
           NEW c \in Range(Queue)
    PROVE  c \in Range(Queue') /\ Ahead(c)' \subseteq Ahead(c) /\ ~Take
<1>1. /\ Queue' = Append(Queue, d) /\ Queue \in Seq(Commands) /\ d \notin Range(Queue)
      /\ Len(Queue) \in Nat
    BY SendInv, QueueShape
<1>2. /\ Len(Queue') = Len(Queue) + 1 /\ Queue'[Len(Queue) + 1] = d
      /\ \A i \in 1..Len(Queue) : Queue'[i] = Queue[i]
      /\ Range(Queue') = Range(Queue) \cup {d}
    <2>1. Range(Append(Queue, d)) = Range(Queue) \cup {d}
        BY <1>1, AppendQueue
    <2> QED BY <1>1, <2>1, AppendProperties
<1>3. ASSUME NEW i \in 1..Len(Queue'), NEW j \in 1..Len(Queue'), i < j, Queue'[j] = c
      PROVE  /\ i \in 1..Len(Queue) /\ j \in 1..Len(Queue)
             /\ Queue[i] = Queue'[i] /\ Queue[j] = c
    <2>1. j # Len(Queue) + 1
        BY <1>1, <1>2, <1>3
    <2> QED BY <1>1, <1>2, <1>3, <2>1
<1>4. Ahead(c)' \subseteq Ahead(c)
    BY <1>3 DEF Ahead
<1>5. ~Take
    BY DEF Take, Send, SendBlocks, TypeOK
<1> QED BY <1>2, <1>4, <1>5

LEMMA TakeAdvances ==
    ASSUME TypeOK, IInv, Take, NEW c \in Range(Queue)
    PROVE  \/ /\ c \in Range(Queue') /\ Ahead(c)' \subseteq Ahead(c)
              /\ Head(Queue) \in Ahead(c) \ Ahead(c)'
           \/ cur' = {c} /\ Ahead(c) = {}
<1>1. /\ Queue # <<>> /\ Queue' = Tail(Queue) /\ cur' = {Head(Queue)}
      /\ Queue \in Seq(Commands) /\ Len(Queue) \in Nat
      /\ \A i, j \in 1..Len(Queue) : Queue[i] = Queue[j] => i = j
    BY TakeInv, QueueShape DEF IInv, QueueInv, Distinct
<1>2. /\ Head(Queue) = Queue[1] /\ Head(Queue) \in Commands
      /\ Len(Queue') = Len(Queue) - 1
      /\ \A i \in 1..Len(Queue') : Queue'[i] = Queue[i + 1]
      /\ Range(Queue') = Range(Queue) \ {Head(Queue)}
    BY <1>1, TailQueue DEF IInv, QueueInv
<1>3. PICK k \in 1..Len(Queue) : c = Queue[k]
    BY QueueShape
<1>4. CASE c = Head(Queue)
    <2>0. 1 \in 1..Len(Queue) /\ Queue[1] = Queue[k]
        BY <1>1, <1>2, <1>3, <1>4
    <2>1. k = 1
        BY <1>1, <1>3, <2>0
    <2>2. \A j \in 1..Len(Queue) : Queue[j] = c => j = 1
        BY <1>1, <1>3, <2>1
    <2>3. Ahead(c) = {}
        BY <1>1, <2>2 DEF Ahead
    <2> QED BY <1>1, <1>4, <2>3
<1>5. CASE c # Head(Queue)
    <2>1. c \in Range(Queue')
        BY <1>2, <1>5
    <2>2. ASSUME NEW i \in 1..Len(Queue'), NEW j \in 1..Len(Queue'), i < j,
                 Queue'[j] = c
          PROVE  /\ i + 1 \in 1..Len(Queue) /\ j + 1 \in 1..Len(Queue) /\ i + 1 < j + 1
                 /\ Queue[i + 1] = Queue'[i] /\ Queue[j + 1] = c
        BY <1>1, <1>2, <2>2
    <2>3. ASSUME NEW d \in Ahead(c)' PROVE d \in Ahead(c)
        <3>1. PICK i \in 1..Len(Queue'), j \in 1..Len(Queue') :
                i < j /\ Queue'[i] = d /\ Queue'[j] = c
            BY <2>3 DEF Ahead
        <3>2. /\ i + 1 \in 1..Len(Queue) /\ j + 1 \in 1..Len(Queue) /\ i + 1 < j + 1
              /\ Queue[i + 1] = d /\ Queue[j + 1] = c
            BY <2>2, <3>1
        <3>3. d \in Commands
            BY <2>3 DEF Ahead
        <3> QED BY <3>2, <3>3 DEF Ahead
    <2>4. 1 \in 1..Len(Queue) /\ 1 < k
        BY <1>1, <1>2, <1>3, <1>5
    <2>5. Head(Queue) \in Ahead(c)
        BY <1>2, <1>3, <2>4 DEF Ahead
    <2>6. \A i \in 1..Len(Queue') : Queue'[i] # Head(Queue)
        BY <1>1, <1>2, <2>4
    <2>7. Head(Queue) \notin Ahead(c)'
        BY <2>6 DEF Ahead
    <2> QED BY <2>1, <2>3, <2>5, <2>7
<1> QED BY <1>4, <1>5

\* A command that has entered the queue is never overtaken, whatever else is
\* posted and however full the channel is: EnteredEnds needs no more of the
\* code than that the worker goes on.
THEOREM NobodyOvertakes == Spec => [][QueueAdvances]_vars
<1>1. ASSUME TypeOK, IInv, [Next]_vars, NEW c \in Range(Queue), vars' # vars
      PROVE  \/ /\ c \in Range(Queue') /\ Ahead(c)' \subseteq Ahead(c)
                /\ Take => Head(Queue) \in Ahead(c) \ Ahead(c)'
             \/ Take /\ cur' = {c} /\ Ahead(c) = {}
             \/ Restart /\ outcome'[c] = "lost"
    <2>1. ASSUME Queue' = Queue, ~Take
          PROVE  c \in Range(Queue') /\ Ahead(c)' \subseteq Ahead(c)
        BY <2>1 DEF Ahead
    <2>2. ASSUME NEW d \in Commands, Post(d) \/ Reject(d) \/ Validate(d) \/ Accept(d)
                                     \/ StopWaiting(d) \/ Patch(d)
          PROVE  Queue' = Queue /\ ~Take
        BY <2>2 DEF Post, Reject, Validate, Accept, StopWaiting, Patch, Queue, Take, TypeOK
    <2>3. CASE Report
        <3>1. Queue' = Queue /\ ~Take
            BY <2>3 DEF Report, Queue, Take
        <3> QED BY <2>1, <3>1
    <2>4. CASE Take
        BY <1>1, <2>4, TakeAdvances
    <2>5. CASE Restart
        <3>1. c \in Commands /\ c \in Unfinished
            BY <1>1, QueueShape DEF Unfinished
        <3>2. outcome'[c] = "lost"
            BY <2>5, <3>1 DEF Restart
        <3> QED BY <2>5, <3>2
    <2>6. ASSUME NEW d \in Commands, Send(d) \/ SendBlocks(d)
          PROVE  c \in Range(Queue') /\ Ahead(c)' \subseteq Ahead(c) /\ ~Take
        BY <1>1, <2>6, AppendAdvances
    <2> QED BY <1>1, <2>1, <2>2, <2>3, <2>4, <2>5, <2>6 DEF Next, Handle, UpdateWorker
<1>2. TypeOK /\ IInv /\ [Next]_vars => [QueueAdvances]_vars
    BY <1>1 DEF QueueAdvances
<1> QED BY <1>2, TypeCorrect, Invariance, PTL DEF Spec

=============================================================================
