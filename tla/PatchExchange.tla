--------------------------- MODULE PatchExchange ---------------------------
(***************************************************************************)
(* What the server and its agents agree on.  To the server, posting a      *)
(* command is one exchange, after which the agent has the command or has   *)
(* it not; to the agent it is a request that goes on for as long as its    *)
(* handler does, whatever was answered meanwhile.  Rollout is written for  *)
(* the first view and AgentQueue for the second; both implement this.      *)
(*                                                                         *)
(* A command comes into the agent's hands in its own exchange or never,    *)
(* and leaves them once: reported, or lost.                                *)
(***************************************************************************)

CONSTANT Commands

VARIABLES
    over,       \* the commands whose exchange is over, whatever was answered
    held        \* those in the hands of an agent, not reported yet

exchangeVars == <<over, held>>

Init == over = {} /\ held = {}

\* Answered 202, 400 or 503, or not at all.
Exchange(c) ==
    /\ c \notin over
    /\ over' = over \cup {c}
    /\ held' \in {held, held \cup {c}}

Finish(c) ==
    /\ c \in held
    /\ held' = held \ {c}
    /\ UNCHANGED over

\* The exchanges under way end, and nothing is left.
Restart(S) ==
    /\ over' = over \cup S
    /\ held' = {}

Next ==
    \/ \E c \in Commands : Exchange(c) \/ Finish(c)
    \/ \E S \in SUBSET Commands : Restart(S)

Spec == Init /\ [][Next]_exchangeVars

=============================================================================
