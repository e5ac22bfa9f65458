---------------------------- MODULE TeamMembers ----------------------------
(***************************************************************************)
(* The members of one team: the user_teams rows that requests to create    *)
(* and to update the team bring in line with the list they carry           *)
(* (team_controller.ex, TeamModule.sync_team_members), while users and the *)
(* team are deleted.  Nothing locks: a request reads the rows once and     *)
(* then deletes and inserts one by one, each statement on its own.         *)
(*                                                                         *)
(* remove_user_from_team answers {count, nil}, which its caller does not   *)
(* match: the first removal is done and the request raises.                *)
(*                                                                         *)
(* Rows and lists are counted: how many of each user.                      *)
(***************************************************************************)
EXTENDS Integers

CONSTANTS
    Users,
    Admins,         \* who sends requests, one at a time each
    MaxTimes,       \* bound: how often a list names one user
    MaxSubmits      \* bound: lists ever submitted

ASSUME TimesAssumption == MaxTimes \in Nat \ {0} /\ MaxSubmits \in Nat

VARIABLES
    team,       \* "none", "there", "gone"
    users,      \* the users there are
    rows,       \* rows of user_teams of the team, for each user
    name,       \* the admin who wrote the name of the team
    req,        \* the request of each admin
    submits,    \* lists submitted so far
    overlaps,   \* history: a request ran next to another one
    twice       \* history: a list named a user twice

vars == <<team, users, rows, name, req, submits, overlaps, twice>>

None == [u \in Users |-> 0]

Lists == [Users -> 0..MaxTimes] \ {None}

\* The list that is wanted; the members read, then those to remove or to add.
\* Undisturbed: since it was sent no other request was, and no user or team
\* was deleted (history).
Idle == [pc |-> "idle", list |-> None, todo |-> None, undisturbed |-> FALSE]

Init ==
    /\ team = "none" /\ users = Users /\ rows = None /\ name = "nobody"
    /\ req = [a \in Admins |-> Idle]
    /\ submits = 0 /\ overlaps = FALSE /\ twice = FALSE

Open(a) == req[a].pc \notin {"idle", "ok", "raised"}

\* a -- b of Elixir.
Less(a, b) == [u \in Users |-> IF a[u] > b[u] THEN a[u] - b[u] ELSE 0]

\* The users of a list that there are.
Known(list) == [u \in Users |-> IF u \in users THEN list[u] ELSE 0]

\* The request of a starts, and disturbs the others.
Begin(a, pc, list) ==
    /\ ~Open(a)
    /\ req' = [b \in Admins |->
                 IF b = a
                   THEN [Idle EXCEPT !.pc = pc, !.list = list,
                           !.undisturbed = \A c \in Admins \ {a} : ~Open(c)]
                   ELSE [req[b] EXCEPT !.undisturbed = FALSE]]
    /\ overlaps' = (overlaps \/ \E b \in Admins \ {a} : Open(b))
    /\ twice' = (twice \/ \E u \in Users : list[u] > 1)
    /\ UNCHANGED <<users, rows>>

Raise(a) == req' = [req EXCEPT ![a].pc = "raised", ![a].todo = None]

\* create: the row of the team is inserted, its members follow.
Create(a, list) ==
    /\ submits < MaxSubmits /\ submits' = submits + 1
    /\ team = "none" /\ team' = "there" /\ name' = a
    /\ Begin(a, "read", list)

Submit(a, list) ==
    /\ submits < MaxSubmits /\ submits' = submits + 1
    /\ team # "none"
    /\ Begin(a, "update", list)
    /\ UNCHANGED <<team, name>>

\* Who got an error sends the same list again.
Retry(a) ==
    /\ req[a].pc = "raised"
    /\ Begin(a, "update", req[a].list)
    /\ UNCHANGED <<team, name, submits>>

\* update_team: the name is stored at once; there is no clause for a team
\* that is not found.
UpdateTeam(a) ==
    /\ req[a].pc = "update"
    /\ IF team = "there"
         THEN name' = a /\ req' = [req EXCEPT ![a].pc = "read"]
         ELSE Raise(a) /\ UNCHANGED name
    /\ UNCHANGED <<team, users, rows, submits, overlaps, twice>>

\* sync_team_members reads the rows of the team ...
ReadMembers(a) ==
    /\ req[a].pc = "read"
    /\ req' = [req EXCEPT ![a].pc = "compare", ![a].todo = rows]
    /\ UNCHANGED <<team, users, rows, name, submits, overlaps, twice>>

\* Members are removed before others are added; no request gets to both.
Plan(a, surplus, missing) ==
    req' = IF surplus = None
             THEN [req EXCEPT ![a].pc = "add", ![a].todo = missing]
             ELSE [req EXCEPT ![a].pc = "remove", ![a].todo = surplus]

\* Fault: what is there is added again.
CompareAddAll(a) ==
    LET s == req[a].todo
        w == Known(req[a].list)
    IN  /\ req[a].pc = "compare"
        /\ IF \E u \in Users \ users : s[u] > 0
             THEN Raise(a)
             ELSE Plan(a, Less(s, w), w)
        /\ UNCHANGED <<team, users, rows, name, submits, overlaps, twice>>

\* Fault: surplus members stay.
CompareKeepAll(a) ==
    LET s == req[a].todo
        w == Known(req[a].list)
    IN  /\ req[a].pc = "compare"
        /\ IF \E u \in Users \ users : s[u] > 0
             THEN Raise(a)
             ELSE Plan(a, None, Less(w, s))
        /\ UNCHANGED <<team, users, rows, name, submits, overlaps, twice>>

\* ... looks up their users and those of the list, one that is gone stops it
\* in the first case, is left out in the second, and compares.
Compare(a) ==
    LET s == req[a].todo
        w == Known(req[a].list)
    IN  /\ req[a].pc = "compare"
        /\ IF \E u \in Users \ users : s[u] > 0
             THEN Raise(a)
             ELSE Plan(a, Less(s, w), Less(w, s))
        /\ UNCHANGED <<team, users, rows, name, submits, overlaps, twice>>

\* Fault: it raises before the rows are deleted.
RemoveNothing(a) ==
    /\ req[a].pc = "remove"
    /\ Raise(a)
    /\ UNCHANGED <<team, users, rows, name, submits, overlaps, twice>>

\* All rows of the first user to remove are deleted, then it raises.
Remove(a) ==
    /\ req[a].pc = "remove"
    /\ \E u \in Users :
         /\ req[a].todo[u] > 0
         /\ rows' = [rows EXCEPT ![u] = 0]
    /\ Raise(a)
    /\ UNCHANGED <<team, users, name, submits, overlaps, twice>>

\* Fault: the table has no foreign keys.
AddAnyway(a) ==
    /\ req[a].pc = "add"
    /\ \E u \in Users :
         /\ req[a].todo[u] > 0
         /\ rows' = [rows EXCEPT ![u] = @ + 1]
         /\ req' = [req EXCEPT ![a].todo[u] = @ - 1]
    /\ UNCHANGED <<team, users, name, submits, overlaps, twice>>

\* One row more; it raises when the user or the team is gone.
Add(a) ==
    /\ req[a].pc = "add"
    /\ \E u \in Users :
         /\ req[a].todo[u] > 0
         /\ IF u \in users /\ team = "there"
              THEN /\ rows' = [rows EXCEPT ![u] = @ + 1]
                   /\ req' = [req EXCEPT ![a].todo[u] = @ - 1]
              ELSE Raise(a) /\ UNCHANGED rows
    /\ UNCHANGED <<team, users, name, submits, overlaps, twice>>

Answer(a) ==
    /\ req[a].pc = "add" /\ req[a].todo = None
    /\ req' = [req EXCEPT ![a].pc = "ok"]
    /\ UNCHANGED <<team, users, rows, name, submits, overlaps, twice>>

Disturb == req' = [b \in Admins |-> [req[b] EXCEPT !.undisturbed = FALSE]]

\* The rows of the team, or of the user, are deleted with it.
DeleteTeam ==
    /\ team = "there" /\ team' = "gone"
    /\ rows' = None /\ Disturb
    /\ UNCHANGED <<users, name, submits, overlaps, twice>>

DeleteUser(u) ==
    /\ u \in users /\ users' = users \ {u}
    /\ rows' = [rows EXCEPT ![u] = 0] /\ Disturb
    /\ UNCHANGED <<team, name, submits, overlaps, twice>>

Sync(a) ==
    UpdateTeam(a) \/ ReadMembers(a) \/ Compare(a) \/ Remove(a) \/ Add(a) \/ Answer(a)

Next ==
    \/ \E a \in Admins :
         \/ Sync(a) \/ Retry(a)
         \/ \E list \in Lists : Create(a, list) \/ Submit(a, list)
    \/ DeleteTeam \/ \E u \in Users : DeleteUser(u)

Spec == Init /\ [][Next]_vars

\* A request runs to its end, and an admin who got an error tries again.
Fairness == \A a \in Admins : WF_vars(Sync(a)) /\ WF_vars(Retry(a))

FairSpec == Spec /\ Fairness

----------------------------------------------------------------------------
\* Properties

Counts == [Users -> Nat]

\* The variables have the types of the tables and of the requests.
TypeOK ==
    /\ team \in {"none", "there", "gone"} /\ users \subseteq Users
    /\ rows \in Counts /\ name \in Admins \cup {"nobody"}
    /\ req \in [Admins ->
         [pc : {"idle", "update", "read", "compare", "remove", "add", "ok", "raised"},
          list : [Users -> 0..MaxTimes], todo : Counts, undisturbed : BOOLEAN]]
    /\ submits \in 0..MaxSubmits /\ overlaps \in BOOLEAN /\ twice \in BOOLEAN

\* A request that ran by itself and was answered left the members and the
\* name it asked for (update, update_team and sync_team_members together).
AnsweredIsSynced ==
    \A a \in Admins :
        req[a].pc = "ok" /\ req[a].undisturbed =>
            rows = Known(req[a].list) /\ name = a

\* Nobody is a member twice, unless two requests overlapped or a list named
\* the user twice (user_teams has no unique index; sync_team_members adds
\* what it has not seen).
DoubledNeedsOverlap == (\E u \in Users : rows[u] > 1) => overlaps \/ twice

\* Every row has its user and its team, whatever is deleted while members
\* are added (the foreign keys of user_teams).
RowsHaveOwners ==
    \A u \in Users : rows[u] > 0 => u \in users /\ team = "there"

\* Each error brings a list one removal closer: who tries again is answered
\* in the end, or the team is gone.
RetriesSucceed ==
    \A a \in Admins : req[a].pc = "raised" ~> (req[a].pc = "ok" \/ team = "gone")

=============================================================================
