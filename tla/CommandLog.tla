----------------------------- MODULE CommandLog -----------------------------
(***************************************************************************)
(* What an agent promises of the commands it is sent: those that enter its *)
(* log are executed one at a time, in the order in which they entered, and *)
(* each once.  A restart loses whatever has not ended.                     *)
(***************************************************************************)
EXTENDS Sequences, Functions

CONSTANT Commands

VARIABLES
    waiting,    \* the commands that have entered, in order
    running,    \* the command being executed, if any
    ended       \* the commands that were executed or lost

logVars == <<waiting, running, ended>>

Init == waiting = <<>> /\ running = {} /\ ended = {}

Enter(c) ==
    /\ c \notin Range(waiting) \cup running \cup ended
    /\ waiting' = Append(waiting, c)
    /\ UNCHANGED <<running, ended>>

Start ==
    /\ running = {} /\ waiting # <<>>
    /\ running' = {Head(waiting)}
    /\ waiting' = Tail(waiting)
    /\ UNCHANGED ended

Finish(c) ==
    /\ running = {c}
    /\ running' = {}
    /\ ended' = ended \cup {c}
    /\ UNCHANGED waiting

Lose ==
    /\ waiting' = <<>> /\ running' = {}
    /\ ended' = ended \cup Range(waiting) \cup running

Next == (\E c \in Commands : Enter(c) \/ Finish(c)) \/ Start \/ Lose

Spec == Init /\ [][Next]_logVars

=============================================================================
