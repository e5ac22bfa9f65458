------------------------ MODULE TeamMembersProofs ------------------------
(***************************************************************************)
(* Proofs about TeamMembers, for any users, any number of admins and       *)
(* lists: types, the owners of rows, what an answer means, when a user can *)
(* be a member twice, and what each error of a request leaves.             *)
(***************************************************************************)
EXTENDS TeamMembers, TLAPS

ReqType ==
    [pc : {"idle", "update", "read", "compare", "remove", "add", "ok", "raised"},
     list : [Users -> 0..MaxTimes], todo : Counts, undisturbed : BOOLEAN]

LEMMA NoneType == None \in Counts /\ None \in [Users -> 0..MaxTimes]
BY TimesAssumption DEF None, Counts

LEMMA LessType == \A a, b \in Counts : Less(a, b) \in Counts
BY DEF Less, Counts

LEMMA KnownType == \A list \in [Users -> 0..MaxTimes] : Known(list) \in Counts
BY TimesAssumption DEF Known, Counts

LEMMA InitType == Init => TypeOK
<1> SUFFICES ASSUME Init PROVE TypeOK
    OBVIOUS
<1>1. Idle \in ReqType
    BY NoneType DEF Idle, ReqType
<1>2. req \in [Admins -> ReqType]
    BY <1>1 DEF Init
<1>3. overlaps \in BOOLEAN /\ twice \in BOOLEAN
    BY DEF Init
<1>4. /\ team \in {"none", "there", "gone"} /\ users \subseteq Users
      /\ name \in Admins \cup {"nobody"}
    BY DEF Init
<1>5. rows \in Counts
    BY NoneType DEF Init
<1>6. submits \in 0..MaxSubmits
    BY TimesAssumption DEF Init
<1> QED BY <1>2, <1>3, <1>4, <1>5, <1>6 DEF TypeOK, ReqType

LEMMA BeginType ==
    ASSUME TypeOK, NEW a \in Admins, NEW pc \in {"update", "read"},
           NEW list \in [Users -> 0..MaxTimes], Begin(a, pc, list)
    PROVE  /\ req' \in [Admins -> ReqType] /\ overlaps' \in BOOLEAN
           /\ twice' \in BOOLEAN /\ rows' \in Counts /\ users' \subseteq Users
<1>1. req' \in [Admins -> ReqType]
    BY NoneType DEF Begin, Idle, TypeOK, ReqType
<1> QED BY <1>1 DEF Begin, TypeOK

LEMMA RequestType ==
    ASSUME TypeOK, NEW a \in Admins,
           \/ Retry(a)
           \/ \E list \in Lists : Create(a, list) \/ Submit(a, list)
    PROVE  TypeOK'
<1>1. CASE Retry(a)
    <2>1. req[a].list \in [Users -> 0..MaxTimes]
        BY DEF TypeOK
    <2> QED BY <1>1, <2>1, BeginType DEF Retry, TypeOK, ReqType
<1>2. ASSUME NEW list \in Lists, Create(a, list) \/ Submit(a, list) PROVE TypeOK'
    <2>1. list \in [Users -> 0..MaxTimes]
        BY DEF Lists
    <2>2. submits' \in 0..MaxSubmits
        BY <1>2, TimesAssumption DEF Create, Submit, TypeOK
    <2>3. CASE Create(a, list)
        BY <2>1, <2>2, <2>3, BeginType DEF Create, TypeOK, ReqType
    <2>4. CASE Submit(a, list)
        BY <2>1, <2>2, <2>4, BeginType DEF Submit, TypeOK, ReqType
    <2> QED BY <1>2, <2>3, <2>4
<1> QED BY <1>1, <1>2

LEMMA SyncType ==
    ASSUME TypeOK, NEW a \in Admins, Sync(a)
    PROVE  TypeOK'
<1>1. ASSUME Raise(a) PROVE req' \in [Admins -> ReqType]
    BY <1>1, NoneType DEF Raise, TypeOK, ReqType
<1>2. CASE UpdateTeam(a)
    <2>1. [req EXCEPT ![a].pc = "read"] \in [Admins -> ReqType]
        BY DEF TypeOK, ReqType
    <2>2. req' \in [Admins -> ReqType]
        BY <1>1, <1>2, <2>1 DEF UpdateTeam
    <2>3. name' \in Admins \cup {"nobody"}
        BY <1>2 DEF UpdateTeam, TypeOK
    <2> QED BY <1>2, <2>2, <2>3 DEF UpdateTeam, TypeOK, ReqType
<1>3. CASE ReadMembers(a)
    BY <1>3 DEF ReadMembers, TypeOK, ReqType
<1>4. CASE Compare(a)
    <2> DEFINE s == req[a].todo  w == Known(req[a].list)
    <2>1. Less(s, w) \in Counts /\ Less(w, s) \in Counts
        BY KnownType, LessType DEF TypeOK
    <2>2. ASSUME Plan(a, Less(s, w), Less(w, s)) PROVE req' \in [Admins -> ReqType]
        BY <2>1, <2>2 DEF Plan, TypeOK, ReqType
    <2>3. req' \in [Admins -> ReqType]
        BY <1>1, <1>4, <2>2 DEF Compare
    <2> QED BY <1>4, <2>3 DEF Compare, TypeOK, ReqType
<1>5. CASE Remove(a)
    BY <1>1, <1>5 DEF Remove, TypeOK, ReqType, Counts
<1>6. CASE Add(a)
    <2>1. PICK u \in Users :
            /\ req[a].todo[u] > 0
            /\ IF u \in users /\ team = "there"
                 THEN /\ rows' = [rows EXCEPT ![u] = @ + 1]
                      /\ req' = [req EXCEPT ![a].todo[u] = @ - 1]
                 ELSE Raise(a) /\ UNCHANGED rows
        BY <1>6 DEF Add
    <2>2. CASE u \in users /\ team = "there"
        <3>1. rows' \in Counts
            BY <2>1, <2>2 DEF TypeOK, Counts
        <3>2. req[a].todo \in Counts /\ req[a].todo[u] - 1 \in Nat
            BY <2>1 DEF TypeOK, Counts
        <3>3. [req[a].todo EXCEPT ![u] = @ - 1] \in Counts
            BY <3>2 DEF Counts
        <3>4. req' \in [Admins -> ReqType]
            BY <2>1, <2>2, <3>3 DEF TypeOK, ReqType
        <3> QED BY <1>6, <3>1, <3>4 DEF Add, TypeOK, ReqType
    <2>3. CASE ~(u \in users /\ team = "there")
        BY <1>1, <1>6, <2>1, <2>3 DEF Add, TypeOK, ReqType
    <2> QED BY <2>2, <2>3
<1>7. CASE Answer(a)
    BY <1>7 DEF Answer, TypeOK, ReqType
<1> QED BY <1>2, <1>3, <1>4, <1>5, <1>6, <1>7 DEF Sync

LEMMA NextType == TypeOK /\ [Next]_vars => TypeOK'
<1> SUFFICES ASSUME TypeOK, [Next]_vars PROVE TypeOK'
    OBVIOUS
<1>1. ASSUME Disturb PROVE req' \in [Admins -> ReqType]
    BY <1>1 DEF Disturb, TypeOK, ReqType
<1>2. CASE DeleteTeam
    BY <1>1, <1>2, NoneType DEF DeleteTeam, TypeOK, ReqType
<1>3. ASSUME NEW u \in Users, DeleteUser(u) PROVE TypeOK'
    BY <1>1, <1>3 DEF DeleteUser, TypeOK, ReqType, Counts
<1>4. CASE UNCHANGED vars
    BY <1>4 DEF vars, TypeOK, ReqType, Counts
<1> QED BY <1>2, <1>3, <1>4, SyncType, RequestType DEF Next

\* Rows and plans are counts and no step leaves the tables' types.
THEOREM TeamTypes == Spec => []TypeOK
<1>1. Init => TypeOK
    BY InitType
<1>2. TypeOK /\ [Next]_vars => TypeOK'
    BY NextType
<1> QED BY <1>1, <1>2, PTL DEF Spec

----------------------------------------------------------------------------
\* Owners

LEMMA OwnersNext == TypeOK /\ RowsHaveOwners /\ [Next]_vars => RowsHaveOwners'
<1> SUFFICES ASSUME TypeOK, RowsHaveOwners, [Next]_vars PROVE RowsHaveOwners'
    OBVIOUS
<1>1. rows \in Counts
    BY DEF TypeOK
<1>2. ASSUME NEW a \in Admins, Sync(a) PROVE RowsHaveOwners'
    <2>1. users' = users /\ team' = team
        BY <1>2 DEF Sync, UpdateTeam, ReadMembers, Compare, Remove, Add, Answer
    <2>2. CASE Remove(a)
        BY <1>1, <2>1, <2>2 DEF Remove, RowsHaveOwners, Counts
    <2>3. CASE Add(a)
        BY <1>1, <2>1, <2>3 DEF Add, RowsHaveOwners, Counts
    <2>4. CASE UpdateTeam(a) \/ ReadMembers(a) \/ Compare(a) \/ Answer(a)
        <3>1. rows' = rows
            BY <2>4 DEF UpdateTeam, ReadMembers, Compare, Answer
        <3> QED BY <2>1, <3>1 DEF RowsHaveOwners
    <2> QED BY <1>2, <2>2, <2>3, <2>4 DEF Sync
<1>3. ASSUME NEW a \in Admins,
             Retry(a) \/ \E list \in Lists : Create(a, list) \/ Submit(a, list)
      PROVE  RowsHaveOwners'
    <2>1. users' = users /\ rows' = rows /\ (team' = team \/ team = "none")
        BY <1>3 DEF Retry, Create, Submit, Begin
    <2> QED BY <2>1 DEF RowsHaveOwners
<1>4. CASE DeleteTeam
    BY <1>4 DEF DeleteTeam, RowsHaveOwners, None
<1>5. ASSUME NEW u \in Users, DeleteUser(u) PROVE RowsHaveOwners'
    BY <1>1, <1>5 DEF DeleteUser, RowsHaveOwners, Counts
<1>6. CASE UNCHANGED vars
    BY <1>6 DEF vars, RowsHaveOwners
<1> QED BY <1>2, <1>3, <1>4, <1>5, <1>6 DEF Next

\* Whatever is deleted while members are added, no row loses its owner.
THEOREM OwnersStay == Spec => []RowsHaveOwners
<1>1. Init => TypeOK /\ RowsHaveOwners
    BY InitType DEF Init, RowsHaveOwners, None
<1>2. TypeOK /\ RowsHaveOwners /\ [Next]_vars => (TypeOK /\ RowsHaveOwners)'
    BY NextType, OwnersNext
<1> QED BY <1>1, <1>2, PTL DEF Spec

----------------------------------------------------------------------------
\* What an answer means

\* The state of a request that runs by itself: nobody else has one open, and
\* the rows are what it has read, plus what it has added.
AloneOK(a) ==
    req[a].undisturbed =>
      /\ \A b \in Admins \ {a} : ~Open(b)
      /\ req[a].pc \in {"read", "compare", "add", "ok"} => name = a
      /\ req[a].pc = "compare" => req[a].todo = rows
      /\ req[a].pc = "add" =>
           \A u \in Users : rows[u] + req[a].todo[u] = Known(req[a].list)[u]
      /\ req[a].pc = "ok" => rows = Known(req[a].list)

Alone == \A a \in Admins : AloneOK(a)

LEMMA AloneBegin ==
    ASSUME TypeOK, NEW a \in Admins, NEW pc \in {"update", "read"}, NEW list,
           Begin(a, pc, list), pc = "read" => name' = a
    PROVE  Alone'
<1>1. \A b \in Admins \ {a} : req'[b].undisturbed = FALSE
    BY DEF Begin, TypeOK
<1>2. /\ req'[a].pc = pc
      /\ req'[a].undisturbed = \A c \in Admins \ {a} : ~Open(c)
    BY DEF Begin, Idle
<1>3. \A c \in Admins \ {a} : req'[c].pc = req[c].pc
    BY DEF Begin, TypeOK
<1>4. \A b \in Admins \ {a} : AloneOK(b)'
    BY <1>1 DEF AloneOK
<1>5. AloneOK(a)'
    BY <1>2, <1>3 DEF AloneOK, Open
<1> QED BY <1>4, <1>5 DEF Alone

\* The others are not open when a request runs by itself, so that one that
\* is open makes no other undisturbed.
LEMMA OnlyOne ==
    ASSUME Alone, NEW a \in Admins, Open(a)
    PROVE  \A b \in Admins \ {a} : ~req[b].undisturbed
BY DEF Alone, AloneOK

LEMMA AloneRest ==
    ASSUME TypeOK, Alone, NEW a \in Admins, Open(a),
           \A b \in Admins \ {a} : req'[b] = req[b],
           AloneOK(a)'
    PROVE  Alone'
<1>1. \A b \in Admins \ {a} : ~req'[b].undisturbed
    BY OnlyOne
<1> QED BY <1>1 DEF Alone, AloneOK

LEMMA AloneSync ==
    ASSUME TypeOK, Alone, RowsHaveOwners, NEW a \in Admins, Sync(a)
    PROVE  Alone'
<1>1. Open(a) /\ AloneOK(a) /\ users' = users
    BY DEF Sync, UpdateTeam, ReadMembers, Compare, Remove, Add, Answer, Open, Alone
<1>2. \A b \in Admins \ {a} : req'[b] = req[b]
    BY DEF Sync, UpdateTeam, ReadMembers, Compare, Remove, Add, Answer, Raise, Plan,
           TypeOK
<1>3. req \in [Admins -> ReqType] /\ rows \in Counts
    BY DEF TypeOK, ReqType
<1>4. \A b \in Admins \ {a} : Open(b)' = Open(b)
    BY <1>2 DEF Open
<1>5. /\ req'[a].undisturbed = req[a].undisturbed /\ req'[a].list = req[a].list
      /\ Known(req[a].list)' = Known(req'[a].list)
    <2>1. req'[a].undisturbed = req[a].undisturbed /\ req'[a].list = req[a].list
        BY <1>3 DEF Sync, UpdateTeam, ReadMembers, Compare, Remove, Add, Answer,
           Raise, Plan, ReqType
    <2> QED BY <1>1, <2>1 DEF Known
<1>6. SUFFICES ASSUME req[a].undisturbed PROVE AloneOK(a)'
    BY <1>1, <1>2, <1>5, AloneRest DEF AloneOK
<1>7. \A b \in Admins \ {a} : ~Open(b)'
    BY <1>1, <1>4, <1>6 DEF AloneOK
<1>8. ASSUME Raise(a) PROVE AloneOK(a)'
    <2>1. req'[a].pc = "raised"
        BY <1>3, <1>8 DEF Raise, ReqType
    <2> QED BY <1>7, <2>1 DEF AloneOK
<1>9. CASE UpdateTeam(a)
    <2>1. CASE team = "there"
        <3>1. req'[a].pc = "read" /\ name' = a
            BY <1>3, <1>9, <2>1 DEF UpdateTeam, ReqType
        <3> QED BY <1>7, <3>1 DEF AloneOK
    <2>2. CASE team # "there"
        BY <1>8, <1>9, <2>2 DEF UpdateTeam
    <2> QED BY <2>1, <2>2
<1>10. CASE ReadMembers(a)
    <2>1. /\ req'[a].pc = "compare" /\ req'[a].todo = rows /\ rows' = rows
          /\ name' = name /\ req[a].pc = "read"
        BY <1>3, <1>10 DEF ReadMembers, ReqType
    <2> QED BY <1>1, <1>6, <1>7, <2>1 DEF AloneOK
<1>11. CASE Compare(a)
    <2> DEFINE s == req[a].todo  w == Known(req[a].list)
    <2>1. rows' = rows /\ name' = name /\ name = a /\ s = rows
        BY <1>1, <1>6, <1>11 DEF Compare, AloneOK
    <2>2. CASE \E u \in Users \ users : s[u] > 0
        BY <1>8, <1>11, <2>2 DEF Compare
    <2>3. CASE ~\E u \in Users \ users : s[u] > 0
        <3>1. Plan(a, Less(s, w), Less(w, s))
            BY <1>11, <2>3 DEF Compare
        <3>2. CASE Less(s, w) = None
            <4>1. req'[a].pc = "add" /\ req'[a].todo = Less(w, s)
                BY <1>3, <3>1, <3>2 DEF Plan, ReqType
            <4>2. s \in Counts /\ w \in Counts
                BY <1>3, KnownType DEF ReqType
            <4>3. ASSUME NEW u \in Users PROVE rows[u] + Less(w, s)[u] = w[u]
                <5>1. Less(s, w)[u] = 0 /\ s[u] \in Nat /\ w[u] \in Nat
                    BY <3>2, <4>2 DEF None, Counts
                <5>2. s[u] <= w[u]
                    BY <5>1 DEF Less
                <5> QED BY <2>1, <5>1, <5>2 DEF Less
            <4>4. \A u \in Users :
                    rows'[u] + req'[a].todo[u] = Known(req[a].list)'[u]
                BY <1>1, <1>5, <2>1, <4>1, <4>3 DEF Known
            <4> QED BY <1>5, <1>7, <2>1, <4>1, <4>4 DEF AloneOK
        <3>3. CASE Less(s, w) # None
            <4>1. req'[a].pc = "remove"
                BY <1>3, <3>1, <3>3 DEF Plan, ReqType
            <4> QED BY <1>7, <4>1 DEF AloneOK
        <3> QED BY <3>2, <3>3
    <2> QED BY <2>2, <2>3
<1>12. CASE Remove(a)
    BY <1>8, <1>12 DEF Remove
<1>13. CASE Add(a)
    <2>1. PICK v \in Users :
            /\ req[a].todo[v] > 0
            /\ IF v \in users /\ team = "there"
                 THEN /\ rows' = [rows EXCEPT ![v] = @ + 1]
                      /\ req' = [req EXCEPT ![a].todo[v] = @ - 1]
                 ELSE Raise(a) /\ UNCHANGED rows
        BY <1>13 DEF Add
    <2>2. CASE v \in users /\ team = "there"
        <3>0. name' = name /\ name = a /\ req[a].pc = "add"
            BY <1>1, <1>6, <1>13 DEF Add, AloneOK
        <3>1. req'[a].pc = "add" /\ req'[a].todo = [req[a].todo EXCEPT ![v] = @ - 1]
            BY <1>3, <2>1, <2>2, <3>0 DEF ReqType
        <3>2. req[a].todo \in Counts
            BY <1>3 DEF ReqType
        <3>3. \A u \in Users : rows[u] + req[a].todo[u] = Known(req[a].list)[u]
            BY <1>1, <1>6, <1>13 DEF Add, AloneOK
        <3>4. \A u \in Users : rows'[u] + req'[a].todo[u] = Known(req[a].list)[u]
            BY <1>3, <2>1, <2>2, <3>1, <3>2, <3>3 DEF Counts
        <3>5. Known(req[a].list) = Known(req[a].list)'
            BY <1>1, <1>5 DEF Known
        <3> QED BY <1>5, <1>7, <3>0, <3>1, <3>4, <3>5 DEF AloneOK
    <2>3. CASE ~(v \in users /\ team = "there")
        BY <1>8, <2>1, <2>3
    <2> QED BY <2>2, <2>3
<1>14. CASE Answer(a)
    <2>1. /\ req'[a].pc = "ok" /\ rows' = rows /\ name' = name /\ name = a
          /\ req[a].todo = None
        BY <1>1, <1>3, <1>6, <1>14 DEF Answer, AloneOK
    <2>2. Known(req[a].list) \in Counts
        BY <1>3, KnownType DEF ReqType
    <2>3. \A u \in Users : rows[u] = Known(req[a].list)[u]
        BY <1>1, <1>3, <1>6, <1>14, <2>1, <2>2 DEF Answer, AloneOK, None, Counts
    <2>4. rows = Known(req[a].list)
        BY <1>3, <2>2, <2>3 DEF Counts
    <2>5. Known(req[a].list) = Known(req[a].list)'
        BY <1>1, <1>5 DEF Known
    <2> QED BY <1>5, <1>7, <2>1, <2>4, <2>5 DEF AloneOK
<1> QED BY <1>9, <1>10, <1>11, <1>12, <1>13, <1>14 DEF Sync

LEMMA AloneNext == TypeOK /\ RowsHaveOwners /\ Alone /\ [Next]_vars => Alone'
<1> SUFFICES ASSUME TypeOK, RowsHaveOwners, Alone, [Next]_vars PROVE Alone'
    OBVIOUS
<1>1. ASSUME NEW a \in Admins, NEW list \in Lists, Create(a, list) PROVE Alone'
    BY <1>1, AloneBegin DEF Create
<1>2. ASSUME NEW a \in Admins, NEW list \in Lists, Submit(a, list) PROVE Alone'
    BY <1>2, AloneBegin DEF Submit
<1>3. ASSUME NEW a \in Admins, Retry(a) PROVE Alone'
    BY <1>3, AloneBegin DEF Retry
<1>4. CASE DeleteTeam \/ \E u \in Users : DeleteUser(u)
    <2>1. \A b \in Admins : req'[b].undisturbed = FALSE
        BY <1>4 DEF DeleteTeam, DeleteUser, Disturb, TypeOK
    <2> QED BY <2>1 DEF Alone, AloneOK
<1>5. CASE UNCHANGED vars
    BY <1>5 DEF vars, Alone, AloneOK, Open, Known
<1> QED BY <1>1, <1>2, <1>3, <1>4, <1>5, AloneSync DEF Next

\* An answer to an undisturbed request leaves exactly the members of its
\* list, and its name.
THEOREM AnswersAreSynced == Spec => []AnsweredIsSynced
<1>1. Init => TypeOK /\ RowsHaveOwners /\ Alone
    BY InitType DEF Init, RowsHaveOwners, None, Alone, AloneOK, Idle
<1>2. TypeOK /\ RowsHaveOwners /\ Alone /\ [Next]_vars
        => (TypeOK /\ RowsHaveOwners /\ Alone)'
    BY NextType, OwnersNext, AloneNext
<1>3. Alone => AnsweredIsSynced
    BY DEF Alone, AloneOK, AnsweredIsSynced
<1> QED BY <1>1, <1>2, <1>3, PTL DEF Spec

----------------------------------------------------------------------------
\* Double members

\* While requests come one after another with lists that name a user once:
\* what one has read covers the rows, and what it adds is missing.
OneByOne ==
    /\ \A a, b \in Admins : Open(a) /\ Open(b) => a = b
    /\ \A u \in Users : rows[u] <= 1
    /\ \A a \in Admins, u \in Users :
         /\ req[a].list[u] <= 1
         /\ req[a].pc = "compare" => rows[u] <= req[a].todo[u]
         /\ req[a].pc = "add" => rows[u] + req[a].todo[u] <= 1

Orderly == ~overlaps /\ ~twice => OneByOne

LEMMA OrderlyBegin ==
    ASSUME TypeOK, Orderly, NEW a \in Admins, NEW pc \in {"update", "read"},
           NEW list \in [Users -> 0..MaxTimes], Begin(a, pc, list)
    PROVE  Orderly'
<1> SUFFICES ASSUME ~overlaps', ~twice' PROVE OneByOne'
    BY DEF Orderly
<1>1. OneByOne /\ rows' = rows
    BY DEF Begin, Orderly
<1>2. \A b \in Admins \ {a} : ~Open(b)
    BY DEF Begin
<1>3. \A u \in Users : list[u] <= 1
    <2>1. ~\E u \in Users : list[u] > 1
        BY DEF Begin
    <2> QED BY <2>1, TimesAssumption
<1>4. req'[a].pc = pc /\ req'[a].list = list
    BY DEF Begin, Idle
<1>5. \A b \in Admins \ {a} : /\ req'[b].pc = req[b].pc /\ req'[b].list = req[b].list
                              /\ req'[b].todo = req[b].todo
    BY DEF Begin, TypeOK
<1>6. \A b \in Admins \ {a} : ~Open(b)'
    BY <1>2, <1>5 DEF Open
<1> QED BY <1>1, <1>3, <1>4, <1>5, <1>6 DEF OneByOne

\* A step of one request, seen from the others.
LEMMA OrderlyRest ==
    ASSUME TypeOK, OneByOne, NEW a \in Admins, Open(a),
           \A b \in Admins \ {a} : req'[b] = req[b],
           \A u \in Users : rows'[u] <= 1,
           req'[a].list = req[a].list,
           req'[a].pc = "compare" =>
             \A u \in Users : rows'[u] <= req'[a].todo[u],
           req'[a].pc = "add" =>
             \A u \in Users : rows'[u] + req'[a].todo[u] <= 1
    PROVE  OneByOne'
<1>1. \A b \in Admins \ {a} : ~Open(b) /\ ~Open(b)'
    BY DEF OneByOne, Open
<1>2. \A b \in Admins \ {a} : req'[b].pc \notin {"compare", "add"}
    BY <1>1 DEF Open
<1> QED BY <1>1, <1>2 DEF OneByOne

LEMMA OrderlySync ==
    ASSUME TypeOK, OneByOne, NEW a \in Admins, Sync(a)
    PROVE  OneByOne'
<1>1. Open(a)
    BY DEF Sync, UpdateTeam, ReadMembers, Compare, Remove, Add, Answer, Open
<1>2. \A b \in Admins \ {a} : req'[b] = req[b]
    BY DEF Sync, UpdateTeam, ReadMembers, Compare, Remove, Add, Answer, Raise, Plan,
           TypeOK
<1>3. req \in [Admins -> ReqType] /\ rows \in Counts
    BY DEF TypeOK, ReqType
<1>4. req'[a].list = req[a].list
    BY <1>3 DEF Sync, UpdateTeam, ReadMembers, Compare, Remove, Add, Answer, Raise,
           Plan, ReqType
<1>5. \A u \in Users : rows[u] <= 1
    BY DEF OneByOne
<1>6. ASSUME Raise(a), \A u \in Users : rows'[u] <= 1 PROVE OneByOne'
    <2>1. req'[a].pc = "raised"
        BY <1>3, <1>6 DEF Raise, ReqType
    <2> QED BY <1>1, <1>2, <1>4, <1>6, <2>1, OrderlyRest
<1>7. CASE UpdateTeam(a)
    <2>1. CASE team = "there"
        <3>1. req'[a].pc = "read" /\ rows' = rows
            BY <1>3, <1>7, <2>1 DEF UpdateTeam, ReqType
        <3> QED BY <1>1, <1>2, <1>4, <1>5, <3>1, OrderlyRest
    <2>2. CASE team # "there"
        BY <1>5, <1>6, <1>7, <2>2 DEF UpdateTeam
    <2> QED BY <2>1, <2>2
<1>8. CASE ReadMembers(a)
    <2>1. req'[a].pc = "compare" /\ req'[a].todo = rows /\ rows' = rows
        BY <1>3, <1>8 DEF ReadMembers, ReqType
    <2>2. \A u \in Users : rows'[u] <= req'[a].todo[u]
        BY <1>3, <2>1 DEF Counts
    <2> QED BY <1>1, <1>2, <1>4, <1>5, <2>1, <2>2, OrderlyRest
<1>9. CASE Compare(a)
    <2> DEFINE s == req[a].todo  w == Known(req[a].list)
    <2>1. rows' = rows /\ \A u \in Users : rows[u] <= s[u]
        BY <1>9 DEF Compare, OneByOne
    <2>2. CASE \E u \in Users \ users : s[u] > 0
        BY <1>5, <1>6, <1>9, <2>1, <2>2 DEF Compare
    <2>3. CASE ~\E u \in Users \ users : s[u] > 0
        <3>1. Plan(a, Less(s, w), Less(w, s))
            BY <1>9, <2>3 DEF Compare
        <3>2. CASE Less(s, w) = None
            <4>1. req'[a].pc = "add" /\ req'[a].todo = Less(w, s)
                BY <1>3, <3>1, <3>2 DEF Plan, ReqType
            <4>2. s \in Counts /\ w \in Counts
                BY <1>3, KnownType DEF ReqType
            <4>3. ASSUME NEW u \in Users PROVE rows[u] + Less(w, s)[u] <= 1
                <5>1. /\ Less(s, w)[u] = 0 /\ s[u] \in Nat /\ w[u] \in Nat
                      /\ rows[u] \in Nat /\ rows[u] <= s[u]
                    BY <1>3, <2>1, <3>2, <4>2 DEF None, Counts
                <5>2. s[u] <= w[u]
                    BY <5>1 DEF Less
                <5>3. w[u] <= 1
                    BY DEF Known, OneByOne
                <5> QED BY <5>1, <5>2, <5>3 DEF Less
            <4> QED BY <1>1, <1>2, <1>4, <1>5, <2>1, <4>1, <4>3, OrderlyRest
        <3>3. CASE Less(s, w) # None
            <4>1. req'[a].pc = "remove"
                BY <1>3, <3>1, <3>3 DEF Plan, ReqType
            <4> QED BY <1>1, <1>2, <1>4, <1>5, <2>1, <4>1, OrderlyRest
        <3> QED BY <3>2, <3>3
    <2> QED BY <2>2, <2>3
<1>10. CASE Remove(a)
    <2>1. \A u \in Users : rows'[u] <= 1
        BY <1>3, <1>5, <1>10 DEF Remove, Counts
    <2> QED BY <1>6, <1>10, <2>1 DEF Remove
<1>11. CASE Add(a)
    <2>1. PICK v \in Users :
            /\ req[a].todo[v] > 0
            /\ IF v \in users /\ team = "there"
                 THEN /\ rows' = [rows EXCEPT ![v] = @ + 1]
                      /\ req' = [req EXCEPT ![a].todo[v] = @ - 1]
                 ELSE Raise(a) /\ UNCHANGED rows
        BY <1>11 DEF Add
    <2>2. CASE v \in users /\ team = "there"
        <3>1. req[a].pc = "add" /\ \A u \in Users : rows[u] + req[a].todo[u] <= 1
            BY <1>11 DEF Add, OneByOne
        <3>2. req'[a].pc = "add" /\ req'[a].todo = [req[a].todo EXCEPT ![v] = @ - 1]
            BY <1>3, <2>1, <2>2, <3>1 DEF ReqType
        <3>3. req[a].todo \in Counts
            BY <1>3 DEF ReqType
        <3>4. \A u \in Users : rows'[u] <= 1 /\ rows'[u] + req'[a].todo[u] <= 1
            BY <1>3, <2>1, <2>2, <3>1, <3>2, <3>3 DEF Counts
        <3> QED BY <1>1, <1>2, <1>4, <3>2, <3>4, OrderlyRest
    <2>3. CASE ~(v \in users /\ team = "there")
        BY <1>5, <1>6, <2>1, <2>3
    <2> QED BY <2>2, <2>3
<1>12. CASE Answer(a)
    <2>1. req'[a].pc = "ok" /\ rows' = rows
        BY <1>3, <1>12 DEF Answer, ReqType
    <2> QED BY <1>1, <1>2, <1>4, <1>5, <2>1, OrderlyRest
<1> QED BY <1>7, <1>8, <1>9, <1>10, <1>11, <1>12 DEF Sync

\* Deletions only take rows away, and leave the requests where they are.
LEMMA OrderlyDelete ==
    ASSUME TypeOK, OneByOne, Disturb,
           \A u \in Users : rows'[u] \in {0, rows[u]}
    PROVE  OneByOne'
<1>1. \A b \in Admins : /\ req'[b].pc = req[b].pc /\ req'[b].list = req[b].list
                        /\ req'[b].todo = req[b].todo
    BY DEF Disturb, TypeOK
<1>2. \A b \in Admins : Open(b)' = Open(b)
    BY <1>1 DEF Open
<1>3. \A u \in Users : rows[u] \in Nat
    BY DEF TypeOK, Counts
<1>4. \A u \in Users : rows'[u] <= rows[u] /\ rows'[u] \in Nat
    BY <1>3
<1>5. \A b \in Admins, u \in Users : req[b].todo[u] \in Nat
    BY DEF TypeOK, Counts
<1> QED BY <1>1, <1>2, <1>3, <1>4, <1>5 DEF OneByOne

LEMMA OrderlyNext == TypeOK /\ Orderly /\ [Next]_vars => Orderly'
<1> SUFFICES ASSUME TypeOK, Orderly, [Next]_vars PROVE Orderly'
    OBVIOUS
<1>1. ASSUME NEW a \in Admins, NEW list \in Lists, Create(a, list) \/ Submit(a, list)
      PROVE  Orderly'
    <2>1. list \in [Users -> 0..MaxTimes]
        BY DEF Lists
    <2> QED BY <1>1, <2>1, OrderlyBegin DEF Create, Submit
<1>2. ASSUME NEW a \in Admins, Retry(a) PROVE Orderly'
    <2>1. req[a].list \in [Users -> 0..MaxTimes]
        BY DEF TypeOK
    <2> QED BY <1>2, <2>1, OrderlyBegin DEF Retry
<1>3. ASSUME NEW a \in Admins, Sync(a) PROVE Orderly'
    <2>1. overlaps' = overlaps /\ twice' = twice
        BY <1>3 DEF Sync, UpdateTeam, ReadMembers, Compare, Remove, Add, Answer
    <2> QED BY <1>3, <2>1, OrderlySync DEF Orderly
<1>4. CASE DeleteTeam
    <2>1. \A u \in Users : rows'[u] \in {0, rows[u]}
        BY <1>4 DEF DeleteTeam, None
    <2> QED BY <1>4, <2>1, OrderlyDelete DEF DeleteTeam, Orderly
<1>5. ASSUME NEW u \in Users, DeleteUser(u) PROVE Orderly'
    <2>1. \A v \in Users : rows'[v] \in {0, rows[v]}
        BY <1>5 DEF DeleteUser, TypeOK, Counts
    <2> QED BY <1>5, <2>1, OrderlyDelete DEF DeleteUser, Orderly
<1>6. CASE UNCHANGED vars
    BY <1>6 DEF vars, Orderly, OneByOne, Open
<1> QED BY <1>1, <1>2, <1>3, <1>4, <1>5, <1>6 DEF Next

\* Requests that come one after another, with lists that name a user once,
\* never make anybody a member twice, whatever is deleted in between.
THEOREM DoublesNeedOverlap == Spec => []DoubledNeedsOverlap
<1>1. Init => TypeOK /\ Orderly
    <2> SUFFICES ASSUME Init PROVE TypeOK /\ Orderly
        OBVIOUS
    <2>1. OneByOne
        BY DEF Init, OneByOne, Open, Idle, None
    <2> QED BY <2>1, InitType DEF Orderly
<1>2. TypeOK /\ Orderly /\ [Next]_vars => (TypeOK /\ Orderly)'
    BY NextType, OrderlyNext
<1>3. TypeOK /\ Orderly => DoubledNeedsOverlap
    BY DEF TypeOK, Counts, Orderly, OneByOne, DoubledNeedsOverlap
<1> QED BY <1>1, <1>2, <1>3, PTL DEF Spec

----------------------------------------------------------------------------
\* Errors and retries

\* The users with more rows than the list of a request wants.
Surplus(a) == {u \in Users : rows[u] > Known(req[a].list)[u]}

\* A request by itself that got past update_team has its team, and plans to
\* remove only what is too many.
SteadyOK(a) ==
    /\ req[a].pc # "idle" => team # "none"
    /\ req[a].undisturbed =>
         /\ req[a].pc \in {"read", "compare", "remove", "add", "ok"} => team = "there"
         /\ req[a].pc = "remove" =>
              \A u \in Users : req[a].todo[u] > 0 => u \in Surplus(a)

Steady == \A a \in Admins : SteadyOK(a)

\* What the steps of one request leave alone.
LEMMA SyncFrame ==
    ASSUME TypeOK, NEW a \in Admins, Sync(a)
    PROVE  /\ team' = team /\ users' = users /\ Open(a)
           /\ \A b \in Admins \ {a} : req'[b] = req[b]
           /\ req'[a].undisturbed = req[a].undisturbed
           /\ req'[a].list = req[a].list
           /\ Known(req[a].list)' = Known(req[a].list)
<1>1. req \in [Admins -> ReqType]
    BY DEF TypeOK, ReqType
<1>2. team' = team /\ users' = users /\ Open(a)
    BY DEF Sync, UpdateTeam, ReadMembers, Compare, Remove, Add, Answer, Open
<1>3. \A b \in Admins \ {a} : req'[b] = req[b]
    BY <1>1 DEF Sync, UpdateTeam, ReadMembers, Compare, Remove, Add, Answer, Raise, Plan
<1>4. req'[a].undisturbed = req[a].undisturbed /\ req'[a].list = req[a].list
    BY <1>1 DEF Sync, UpdateTeam, ReadMembers, Compare, Remove, Add, Answer,
       Raise, Plan, ReqType
<1>5. Known(req[a].list)' = Known(req[a].list)
    BY <1>2, <1>4 DEF Known
<1> QED BY <1>2, <1>3, <1>4, <1>5

LEMMA SteadyBegin ==
    ASSUME TypeOK, Steady, NEW a \in Admins, NEW pc \in {"update", "read"}, NEW list,
           Begin(a, pc, list), team' # "none", pc = "read" => team' = "there"
    PROVE  Steady'
<1>1. req'[a].pc = pc
    BY DEF Begin, Idle, TypeOK
<1>2. \A b \in Admins \ {a} : req'[b].undisturbed = FALSE
    BY DEF Begin, TypeOK
<1> QED BY <1>1, <1>2 DEF Steady, SteadyOK

LEMMA SteadySync ==
    ASSUME TypeOK, Alone, Steady, NEW a \in Admins, Sync(a)
    PROVE  Steady'
<1>1. req \in [Admins -> ReqType] /\ rows \in Counts
    BY DEF TypeOK, ReqType
<1>2. team' = team /\ team # "none"
    BY SyncFrame DEF Steady, SteadyOK, Open
<1>3. \A b \in Admins \ {a} : SteadyOK(b)'
    BY <1>2, SyncFrame, OnlyOne DEF SteadyOK, Open
<1>4. SUFFICES ASSUME req[a].undisturbed
               PROVE  /\ req'[a].pc \in {"read", "compare", "remove", "add", "ok"}
                           => team = "there"
                      /\ req'[a].pc = "remove" =>
                           \A u \in Users : req'[a].todo[u] > 0 => u \in Surplus(a)'
    <2>1. SteadyOK(a)'
        BY <1>2, <1>4, SyncFrame DEF SteadyOK
    <2> QED BY <1>3, <2>1 DEF Steady
<1>5. req[a].pc \in {"read", "compare", "remove", "add", "ok"} => team = "there"
    BY <1>4 DEF Steady, SteadyOK
<1>6. CASE UpdateTeam(a)
    BY <1>1, <1>6 DEF UpdateTeam, Raise, ReqType
<1>7. CASE ReadMembers(a)
    BY <1>1, <1>5, <1>7 DEF ReadMembers, ReqType
<1>8. CASE Compare(a)
    <2> DEFINE s == req[a].todo  w == Known(req[a].list)
    <2>1. team = "there" /\ rows' = rows
        BY <1>5, <1>8 DEF Compare
    <2>2. s = rows
        BY <1>4, <1>8 DEF Compare, Alone, AloneOK
    <2>3. ASSUME req'[a].pc = "remove" PROVE req'[a].todo = Less(s, w)
        BY <1>1, <1>8, <2>3 DEF Compare, Plan, Raise, ReqType
    <2>4. s \in Counts /\ w \in Counts
        BY <1>1, KnownType DEF ReqType
    <2>5. \A u \in Users : Less(s, w)[u] > 0 => rows[u] > w[u]
        BY <2>2, <2>4 DEF Less, Counts
    <2>6. \A u \in Users : Less(s, w)[u] > 0 => u \in Surplus(a)'
        BY <2>1, <2>5, SyncFrame DEF Surplus
    <2> QED BY <2>1, <2>3, <2>6
<1>9. CASE Remove(a)
    BY <1>1, <1>9 DEF Remove, Raise, ReqType
<1>10. CASE Add(a)
    <2>1. team = "there"
        BY <1>5, <1>10 DEF Add
    <2>2. req'[a].pc # "remove"
        BY <1>1, <1>10 DEF Add, Raise, ReqType
    <2> QED BY <2>1, <2>2
<1>11. CASE Answer(a)
    BY <1>1, <1>5, <1>11 DEF Answer, ReqType
<1> QED BY <1>6, <1>7, <1>8, <1>9, <1>10, <1>11 DEF Sync

LEMMA SteadyNext == TypeOK /\ Alone /\ Steady /\ [Next]_vars => Steady'
<1> SUFFICES ASSUME TypeOK, Alone, Steady, [Next]_vars PROVE Steady'
    OBVIOUS
<1>1. ASSUME NEW a \in Admins, NEW list \in Lists, Create(a, list) PROVE Steady'
    BY <1>1, SteadyBegin DEF Create
<1>2. ASSUME NEW a \in Admins, NEW list \in Lists, Submit(a, list) PROVE Steady'
    BY <1>2, SteadyBegin DEF Submit
<1>3. ASSUME NEW a \in Admins, Retry(a) PROVE Steady'
    <2>1. team # "none"
        BY <1>3 DEF Retry, Steady, SteadyOK
    <2> QED BY <1>3, <2>1, SteadyBegin DEF Retry
<1>4. CASE DeleteTeam \/ \E u \in Users : DeleteUser(u)
    <2>1. \A b \in Admins : req'[b].undisturbed = FALSE /\ req'[b].pc = req[b].pc
        BY <1>4 DEF DeleteTeam, DeleteUser, Disturb, TypeOK
    <2>2. team # "none" => team' # "none"
        BY <1>4 DEF DeleteTeam, DeleteUser
    <2> QED BY <2>1, <2>2 DEF Steady, SteadyOK, Open
<1>5. CASE UNCHANGED vars
    BY <1>5 DEF vars, Steady, SteadyOK, Open, Surplus, Known
<1> QED BY <1>1, <1>2, <1>3, <1>4, <1>5, SteadySync DEF Next

\* While a list is sent and sent again with nothing in between, nobody gets
\* surplus rows, and an error leaves somebody without them.
ErrorsBringCloser ==
    \A a \in Admins :
        req'[a].undisturbed /\ req'[a].list = req[a].list =>
            /\ Surplus(a)' \subseteq Surplus(a)
            /\ req[a].pc # "raised" /\ req'[a].pc = "raised" =>
                 team = "gone" \/ Surplus(a)' # Surplus(a)

LEMMA SyncIsCloser ==
    ASSUME TypeOK, RowsHaveOwners, Alone, Steady, NEW a \in Admins, Sync(a),
           req[a].undisturbed
    PROVE  /\ Surplus(a)' \subseteq Surplus(a)
           /\ req'[a].pc = "raised" => team = "gone" \/ Surplus(a)' # Surplus(a)
<1> DEFINE w == Known(req[a].list)
<1>1. req \in [Admins -> ReqType] /\ rows \in Counts /\ w \in Counts
    BY KnownType DEF TypeOK, ReqType
<1>2. Known(req[a].list)' = w
    BY SyncFrame DEF Known
<1>3. \A u \in Users : u \in Surplus(a)' <=> rows'[u] > w[u]
    BY <1>2 DEF Surplus
<1>4. \A u \in Users : u \in Surplus(a) <=> rows[u] > w[u]
    BY DEF Surplus
<1>5. Surplus(a) \subseteq Users /\ Surplus(a)' \subseteq Users
    BY DEF Surplus
<1>6. ASSUME rows' = rows PROVE Surplus(a)' \subseteq Surplus(a)
    BY <1>3, <1>4, <1>5, <1>6
<1>7. CASE UpdateTeam(a)
    <2>1. team # "there" => team = "gone"
        BY <1>7 DEF UpdateTeam, Steady, SteadyOK, TypeOK
    <2>2. rows' = rows /\ (team = "there" => req'[a].pc = "read")
        BY <1>1, <1>7 DEF UpdateTeam, ReqType
    <2> QED BY <1>6, <2>1, <2>2
<1>8. CASE ReadMembers(a)
    BY <1>1, <1>6, <1>8 DEF ReadMembers, ReqType
<1>9. CASE Compare(a)
    <2>1. rows' = rows /\ req[a].todo = rows
        BY <1>9 DEF Compare, Alone, AloneOK
    <2>2. ~\E u \in Users \ users : req[a].todo[u] > 0
        BY <2>1 DEF RowsHaveOwners
    <2>3. req'[a].pc \in {"add", "remove"}
        BY <1>1, <1>9, <2>2 DEF Compare, Plan, ReqType
    <2> QED BY <1>6, <2>1, <2>3
<1>10. CASE Remove(a)
    <2>1. PICK v \in Users : req[a].todo[v] > 0 /\ rows' = [rows EXCEPT ![v] = 0]
        BY <1>10 DEF Remove
    <2>2. v \in Surplus(a)
        BY <1>10, <2>1 DEF Remove, Steady, SteadyOK
    <2>3. rows'[v] = 0 /\ w[v] \in Nat
        BY <1>1, <2>1 DEF Counts
    <2>4. v \notin Surplus(a)'
        BY <1>3, <2>3
    <2>5. ASSUME NEW u \in Users, u \in Surplus(a)' PROVE u \in Surplus(a)
        <3>1. u # v
            BY <2>4, <2>5
        <3>2. rows'[u] = rows[u]
            BY <1>1, <2>1, <3>1 DEF Counts
        <3> QED BY <1>3, <1>4, <2>5, <3>2
    <2>6. Surplus(a)' \subseteq Surplus(a)
        BY <1>5, <2>5
    <2> QED BY <2>2, <2>4, <2>6
<1>11. CASE Add(a)
    <2>1. PICK v \in Users :
            /\ req[a].todo[v] > 0
            /\ IF v \in users /\ team = "there"
                 THEN /\ rows' = [rows EXCEPT ![v] = @ + 1]
                      /\ req' = [req EXCEPT ![a].todo[v] = @ - 1]
                 ELSE Raise(a) /\ UNCHANGED rows
        BY <1>11 DEF Add
    <2>2. \A u \in Users : rows[u] + req[a].todo[u] = w[u]
        BY <1>11 DEF Add, Alone, AloneOK
    <2>3. rows[v] \in Nat /\ req[a].todo[v] \in Nat
        BY <1>1 DEF Counts, ReqType
    <2>4. v \in users
        <3>1. w[v] > 0
            BY <2>1, <2>2, <2>3
        <3> QED BY <3>1 DEF Known
    <2>5. team = "there"
        BY <1>11 DEF Add, Steady, SteadyOK
    <2>6. /\ rows' = [rows EXCEPT ![v] = @ + 1]
          /\ req' = [req EXCEPT ![a].todo[v] = @ - 1]
        BY <2>1, <2>4, <2>5
    <2>7. req'[a].pc = "add"
        BY <1>1, <1>11, <2>6 DEF Add, ReqType
    <2>8. ASSUME NEW u \in Users PROVE ~(rows'[u] > w[u])
        <3>1. rows[u] \in Nat /\ req[a].todo[u] \in Nat
            BY <1>1 DEF Counts, ReqType
        <3> QED BY <1>1, <2>1, <2>2, <2>6, <3>1 DEF Counts
    <2>9. Surplus(a)' = {}
        BY <1>3, <1>5, <2>8
    <2> QED BY <2>7, <2>9
<1>12. CASE Answer(a)
    BY <1>1, <1>6, <1>12 DEF Answer, ReqType
<1> QED BY <1>7, <1>8, <1>9, <1>10, <1>11, <1>12 DEF Sync

\* A request that starts finds what the error of the one before left.
LEMMA BeginIsCloser ==
    ASSUME TypeOK, NEW a \in Admins, NEW pc \in {"update", "read"}, NEW list,
           Begin(a, pc, list)
    PROVE  ErrorsBringCloser
<1> SUFFICES ASSUME NEW b \in Admins, req'[b].undisturbed, req'[b].list = req[b].list
             PROVE  /\ Surplus(b)' \subseteq Surplus(b) /\ req'[b].pc # "raised"
    BY DEF ErrorsBringCloser
<1>1. b = a
    BY DEF Begin, TypeOK
<1>2. req'[b].pc = pc
    BY <1>1 DEF Begin, Idle, TypeOK
<1>3. rows' = rows /\ users' = users
    BY DEF Begin
<1>4. Surplus(b)' = Surplus(b)
    BY <1>3 DEF Surplus, Known
<1> QED BY <1>2, <1>4

LEMMA CloserNext ==
    TypeOK /\ RowsHaveOwners /\ Alone /\ Steady /\ [Next]_vars => ErrorsBringCloser
<1> SUFFICES ASSUME TypeOK, RowsHaveOwners, Alone, Steady, [Next]_vars
             PROVE  ErrorsBringCloser
    OBVIOUS
<1>1. ASSUME NEW a \in Admins, NEW list \in Lists, Create(a, list) \/ Submit(a, list)
      PROVE  ErrorsBringCloser
    BY <1>1, BeginIsCloser DEF Create, Submit
<1>2. ASSUME NEW a \in Admins, Retry(a) PROVE ErrorsBringCloser
    BY <1>2, BeginIsCloser DEF Retry
<1>3. ASSUME NEW a \in Admins, Sync(a) PROVE ErrorsBringCloser
    <2> SUFFICES ASSUME NEW b \in Admins, req'[b].undisturbed
                 PROVE  /\ Surplus(b)' \subseteq Surplus(b)
                        /\ req[b].pc # "raised" /\ req'[b].pc = "raised" =>
                             team = "gone" \/ Surplus(b)' # Surplus(b)
        BY DEF ErrorsBringCloser
    <2>1. b = a
        BY <1>3, SyncFrame, OnlyOne
    <2> QED BY <1>3, <2>1, SyncFrame, SyncIsCloser
<1>4. CASE DeleteTeam \/ \E u \in Users : DeleteUser(u)
    <2>1. \A b \in Admins : req'[b].undisturbed = FALSE
        BY <1>4 DEF DeleteTeam, DeleteUser, Disturb, TypeOK
    <2> QED BY <2>1 DEF ErrorsBringCloser
<1>5. CASE UNCHANGED vars
    BY <1>5 DEF vars, ErrorsBringCloser, Surplus, Known
<1> QED BY <1>1, <1>2, <1>3, <1>4, <1>5 DEF Next

\* What makes who tries again succeed (RetriesSucceed): an undisturbed request
\* only fails because the team is gone or after it has removed all surplus
\* rows of a user, and until the list changes no user gets surplus again; so
\* there are at most as many errors as there are users.
THEOREM RetriesAdvance == Spec => [][ErrorsBringCloser]_vars
<1>1. Init => TypeOK /\ RowsHaveOwners /\ Alone /\ Steady
    BY InitType DEF Init, RowsHaveOwners, None, Alone, AloneOK, Steady, SteadyOK, Idle
<1>2. TypeOK /\ RowsHaveOwners /\ Alone /\ Steady /\ [Next]_vars
        => (TypeOK /\ RowsHaveOwners /\ Alone /\ Steady)'
    BY NextType, OwnersNext, AloneNext, SteadyNext
<1>3. TypeOK /\ RowsHaveOwners /\ Alone /\ Steady /\ [Next]_vars
        => [ErrorsBringCloser]_vars
    BY CloserNext
<1> QED BY <1>1, <1>2, <1>3, PTL DEF Spec

=============================================================================
