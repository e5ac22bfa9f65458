--------------------------- MODULE PatchCampaign ---------------------------
(***************************************************************************)
(* What the task pipeline promises, seen from the task table and from the  *)
(* agents: a task is opened, started, and from then on commands each host  *)
(* at most once; it is skipped only if it commands nobody; it may be       *)
(* dropped at any time.  A dropped task may still have a process that was  *)
(* started for it.                                                         *)
(***************************************************************************)
EXTENDS Naturals

CONSTANTS Tasks, Hosts

VARIABLES
    state,      \* where each task is in its life
    posts       \* how often each task has commanded each host

campaignVars == <<state, posts>>

Init ==
    /\ state = [t \in Tasks |-> "none"]
    /\ posts = [t \in Tasks |-> [h \in Hosts |-> 0]]

Open(t) ==
    /\ state[t] = "none"
    /\ state' = [state EXCEPT ![t] = "pending"]
    /\ UNCHANGED posts

Start(t) ==
    /\ state[t] = "pending"
    /\ state' = [state EXCEPT ![t] = "running"]
    /\ UNCHANGED posts

Command(t, h) ==
    /\ state[t] \in {"running", "deleted"}
    /\ posts[t][h] = 0
    /\ posts' = [posts EXCEPT ![t][h] = 1]
    /\ UNCHANGED state

Skip(t) ==
    /\ state[t] = "running"
    /\ \A h \in Hosts : posts[t][h] = 0
    /\ state' = [state EXCEPT ![t] = "skipped"]
    /\ UNCHANGED posts

\* Deleting a deployment drops all of its tasks.
Drop(S) ==
    /\ \A t \in S : state[t] \in {"pending", "running", "skipped"}
    /\ state' = [t \in Tasks |-> IF t \in S THEN "deleted" ELSE state[t]]
    /\ UNCHANGED posts

Next ==
    \/ \E t \in Tasks : Open(t) \/ Start(t) \/ Skip(t)
    \/ \E t \in Tasks, h \in Hosts : Command(t, h)
    \/ \E S \in SUBSET Tasks : Drop(S)

Spec == Init /\ [][Next]_campaignVars

=============================================================================
