--------------------------- MODULE AccountsProofs ---------------------------
(***************************************************************************)
(* Proofs about Accounts, for any number of browsers, emails and users:    *)
(* types, who is logged in, who owns an email, who manages the users, and  *)
(* what an installation, a log-in and a log-out leave.                     *)
(***************************************************************************)
EXTENDS Accounts, TLAPS, FiniteSetTheorems

ReqType ==
    [kind : Kinds, pc : Places, target : {0} \cup UserIds,
     email : Emails \cup {"none"}, role : Roles, fits : BOOLEAN,
     me : {0} \cup UserIds, row : Rows]

\* What a request is when it arrives.
Starts ==
    {r \in ReqType :
       /\ r.me = 0
       /\ \/ r.kind = "install" /\ r.pc = "is_installed"
          \/ r.kind = "login" /\ r.pc = "find"
          \/ /\ r.kind \in {"create", "update", "profile", "delete", "logout"}
             /\ r.pc = "session"}

LEMMA IdleType == Idle \in ReqType /\ NoRow \in Rows
BY DEF Idle, ReqType, NoRow, Rows, Roles, Kinds, Managing, Places, UserIds

LEMMA Arrival ==
    ASSUME TypeOK, NEW c \in Clients, Arrive(c)
    PROVE  \E r \in Starts : Begin(c, r)
<1>1. last \in 0..MaxUsers /\ users \in [UserIds -> Rows]
    BY DEF TypeOK
<1>2. ASSUME NEW kind \in {"create", "update", "profile", "delete", "logout"},
             NEW u \in {0} \cup UserIds, NEW e \in Emails \cup {"none"},
             NEW r \in Roles, Ask(c, kind, u, e, r)
      PROVE  \E s \in Starts : Begin(c, s)
    <2> DEFINE s == [Idle EXCEPT !.kind = kind, !.pc = "session", !.target = u,
                                 !.email = e, !.role = r]
    <2>1. s \in Starts
        BY IdleType DEF Idle, ReqType, Starts, Kinds, Managing, Places
    <2> QED BY <1>2, <2>1 DEF Ask
<1>3. ASSUME NEW e \in Emails, NEW fits \in BOOLEAN, Install(c, e, fits)
      PROVE  \E s \in Starts : Begin(c, s)
    <2> DEFINE s == [Idle EXCEPT !.kind = "install", !.pc = "is_installed",
                                 !.email = e, !.fits = fits]
    <2>1. s \in Starts
        BY IdleType DEF Idle, ReqType, Starts, Kinds, Managing, Places
    <2> QED BY <1>3, <2>1 DEF Install
<1>4. ASSUME NEW u \in UserIds, Login(c, u) PROVE \E s \in Starts : Begin(c, s)
    <2> DEFINE s == [Idle EXCEPT !.kind = "login", !.pc = "find", !.target = u,
                                 !.email = users[u].email]
    <2>1. users[u].email \in Emails \cup {"none"}
        BY <1>1 DEF Rows
    <2>2. s \in Starts
        BY <2>1, IdleType DEF Idle, ReqType, Starts, Kinds, Managing, Places
    <2> QED BY <1>4, <2>2 DEF Login
<1>5. CASE Logout(c)
    BY <1>2, <1>5 DEF Logout, Roles
<1>6. ASSUME NEW e \in Emails, UpdateProfile(c, e) PROVE \E s \in Starts : Begin(c, s)
    BY <1>2, <1>6 DEF UpdateProfile, Roles
<1>7. ASSUME NEW e \in Emails, NEW r \in Roles, CreateUser(c, e, r)
      PROVE  \E s \in Starts : Begin(c, s)
    BY <1>2, <1>7 DEF CreateUser
<1>8. ASSUME NEW e \in Emails, NEW r \in Roles, NEW u \in UserIds, UpdateUser(c, u, e, r)
      PROVE  \E s \in Starts : Begin(c, s)
    BY <1>2, <1>8 DEF UpdateUser
<1>9. ASSUME NEW u \in UserIds, DeleteUser(c, u) PROVE \E s \in Starts : Begin(c, s)
    BY <1>2, <1>9 DEF DeleteUser, Roles
<1> QED BY <1>3, <1>4, <1>5, <1>6, <1>7, <1>8, <1>9 DEF Arrive

\* What every step does to the requests: they go on one at a time, and keep
\* what they are.
LEMMA Moves ==
    ASSUME TypeOK, NEW c \in Clients, Step(c) \/ Crash(c)
    PROVE  /\ Open(c)
           /\ req' \in [Clients -> ReqType]
           /\ \A d \in Clients \ {c} : req'[d] = req[d]
           /\ req'[c].kind = req[c].kind
           /\ UNCHANGED <<requests, quiet>>
<1>1. req \in [Clients -> ReqType] /\ users \in [UserIds -> Rows]
      /\ cookie \in [Clients -> [user : {0} \cup UserIds, token : 0..issued]]
    BY DEF TypeOK, ReqType
<1> DEFINE o == req[c]
           Good == /\ req' \in [Clients -> ReqType]
                   /\ \A d \in Clients \ {c} : req'[d] = req[d]
                   /\ req'[c].kind = o.kind
<1>2. o \in ReqType
    BY <1>1
<1>3. ASSUME NEW r \in ReqType, r.kind = o.kind, Turn(c, r) PROVE Good
    BY <1>1, <1>3 DEF Turn
<1>4. ASSUME NEW pc \in Places, Goto(c, pc) PROVE Good
    <2>1. [o EXCEPT !.pc = pc] \in ReqType /\ [o EXCEPT !.pc = pc].kind = o.kind
        BY <1>2 DEF ReqType
    <2> QED BY <1>4, <2>1, <1>3 DEF Goto
<1>5. ASSUME NEW pc \in Places, End(c, pc) PROVE Good
    <2> DEFINE r == [Idle EXCEPT !.kind = o.kind, !.pc = pc, !.me = o.me]
    <2>1. r \in ReqType /\ r.kind = o.kind
        BY <1>2, IdleType DEF ReqType, Idle
    <2> QED BY <1>5, <2>1, <1>3 DEF End
<1> HIDE DEF Good
<1>6. CASE Step(c)
    <2>1. ASSUME IsInstalled(c) \/ StoreConfigs(c) \/ CreateAdmin(c) \/ InsertUser(c)
                 \/ IsEmailUsed(c) \/ EraseUser(c) \/ ClearSessions(c)
                 \/ OpenSession(c) \/ ForgetSessions(c) \/ WriteUser(c)
          PROVE  Good
        BY <1>4, <1>5, <2>1 DEF Places, IsInstalled, StoreConfigs, CreateAdmin, InsertUser,
            IsEmailUsed, EraseUser, ClearSessions, OpenSession, ForgetSessions, WriteUser
    <2>2. ASSUME AuthSession(c) PROVE Good
        <3> DEFINE r == [o EXCEPT !.pc = "user", !.me = cookie[c].user]
        <3>1. r \in ReqType /\ r.kind = o.kind
            BY <1>1, <1>2 DEF ReqType, Places
        <3>2. ASSUME Turn(c, r) PROVE Good
            BY <1>3, <3>1, <3>2
        <3> QED BY <1>4, <1>5, <2>2, <3>2 DEF AuthSession, Places
    <2>3. ASSUME AuthUser(c) PROVE Good
        <3> DEFINE r == [o EXCEPT !.pc = "forget", !.me = 0]
                   s == [o EXCEPT !.pc = "email", !.target = o.me]
        <3>1. r \in ReqType /\ r.kind = o.kind /\ s \in ReqType /\ s.kind = o.kind
            BY <1>2 DEF ReqType, Places
        <3>2. ASSUME Turn(c, r) \/ Turn(c, s) PROVE Good
            BY <1>3, <3>1, <3>2
        <3> QED BY <1>4, <1>5, <2>3, <3>2 DEF AuthUser, Places
    <2>4. ASSUME ReadUser(c) PROVE Good
        <3> DEFINE u == users[o.target]
                   r == [o EXCEPT !.pc = "write", !.row = u,
                                  !.role = IF o.kind = "profile" THEN u.role ELSE @]
        <3>1. ASSUME o.target \in There PROVE r \in ReqType /\ r.kind = o.kind
            <4>1. u \in Rows /\ u.role \in Roles
                BY <1>1, <3>1 DEF There, Rows
            <4> QED BY <1>2, <4>1 DEF ReqType, Places
        <3>2. ASSUME o.target \in There, Turn(c, r) PROVE Good
            BY <1>3, <3>1, <3>2
        <3> QED BY <1>5, <2>4, <3>2 DEF ReadUser, Places
    <2>5. ASSUME FindUser(c) PROVE Good
        <3> DEFINE u == o.target
                   r == [o EXCEPT !.pc = "clear", !.me = u]
        <3>1. r \in ReqType /\ r.kind = o.kind
            BY <1>2 DEF ReqType, Places
        <3>2. ASSUME Turn(c, r) PROVE Good
            BY <1>3, <3>1, <3>2
        <3> QED BY <1>5, <2>5, <3>2 DEF FindUser, Places
    <2>6. Good
        BY <1>6, <2>1, <2>2, <2>3, <2>4, <2>5 DEF Step
    <2>7. Open(c) /\ UNCHANGED <<requests, quiet>>
        BY <1>6 DEF Step, Open, history, IsInstalled, StoreConfigs, CreateAdmin, InsertUser,
            IsEmailUsed, EraseUser, ClearSessions, OpenSession, ForgetSessions, WriteUser,
            AuthSession, AuthUser, ReadUser, FindUser
    <2> QED BY <2>6, <2>7 DEF Good
<1>7. CASE Crash(c)
    BY <1>5, <1>7 DEF Crash, Places, Good
<1> QED BY <1>6, <1>7

LEMMA InsertType ==
    ASSUME TypeOK, NEW e \in Emails \cup {"none"}, NEW r \in Roles, Insert(e, r)
    PROVE  last' \in 0..MaxUsers /\ users' \in [UserIds -> Rows]
<1>1. last \in Nat /\ MaxUsers \in Nat /\ users \in [UserIds -> Rows]
    BY BoundsAssumption DEF TypeOK
<1>2. last' \in 0..MaxUsers
    BY <1>1 DEF Insert
<1>3. [state |-> "there", email |-> e, role |-> r] \in Rows
    BY DEF Rows
<1> QED BY <1>1, <1>2, <1>3 DEF Insert

LEMMA InitType == Init => TypeOK
<1> SUFFICES ASSUME Init PROVE TypeOK
    OBVIOUS
<1>1. MaxUsers \in Nat /\ MaxUsers >= 1 /\ MaxRequests \in Nat /\ MaxCrashes \in Nat
    BY BoundsAssumption
<1>2. req \in [Clients -> ReqType]
    BY IdleType DEF Init
<1>3. /\ requests \in 0..MaxRequests /\ crashes \in 0..MaxCrashes
      /\ excuses = {} /\ contested = {} /\ quiet = {}
    BY <1>1 DEF Init
<1>4. /\ installed \in Nat /\ last \in 0..MaxUsers /\ issued \in Nat
      /\ users \in [UserIds -> Rows]
      /\ sessions \in [UserIds -> SUBSET (1..issued)]
      /\ cookie \in [Clients -> [user : {0} \cup UserIds, token : 0..issued]]
    <2>1. CASE /\ installed = 0 /\ last = 0 /\ issued = 0
               /\ users = [u \in UserIds |-> NoRow]
               /\ sessions = [u \in UserIds |-> {}]
               /\ cookie = [c \in Clients |-> NoCookie]
        BY <1>1, <2>1, IdleType DEF NoCookie
    <2>2. CASE ~(installed = 0 /\ last = 0 /\ issued = 0)
        <3>1. installed = 1 /\ last = 2 /\ issued = 2 /\ MaxUsers >= 2
            BY <2>2 DEF Init
        <3>2. 1 \in UserIds /\ 2 \in UserIds
            BY <1>1, <3>1 DEF UserIds
        <3>3. PICK e \in Emails, f \in Emails, r \in Roles :
                users = [u \in UserIds |->
                    CASE u = 1 -> [state |-> "there", email |-> e, role |-> "super"]
                      [] u = 2 -> [state |-> "there", email |-> f, role |-> r]
                      [] OTHER -> NoRow]
            BY <2>2 DEF Init
        <3>4. /\ [state |-> "there", email |-> e, role |-> "super"] \in Rows
              /\ [state |-> "there", email |-> f, role |-> r] \in Rows
            BY DEF Rows, Roles
        <3>5. users \in [UserIds -> Rows]
            BY <3>3, <3>4, IdleType
        <3>6. sessions = [u \in UserIds |-> IF u <= 2 THEN {u} ELSE {}]
            BY <2>2 DEF Init
        <3>7. sessions \in [UserIds -> SUBSET (1..issued)]
            BY <1>1, <3>1, <3>6 DEF UserIds
        <3>8. PICK c \in Clients, d \in Clients :
                cookie = [b \in Clients |->
                    CASE b = c -> [user |-> 1, token |-> 1]
                      [] b = d -> [user |-> 2, token |-> 2]
                      [] OTHER -> NoCookie]
            BY <2>2 DEF Init
        <3>9. cookie \in [Clients -> [user : {0} \cup UserIds, token : 0..issued]]
            BY <3>1, <3>2, <3>8 DEF NoCookie
        <3> QED BY <1>1, <3>1, <3>5, <3>7, <3>9
    <2> QED BY <2>1, <2>2 DEF Init
<1> QED BY <1>2, <1>3, <1>4 DEF TypeOK, ReqType

LEMMA BeginType ==
    ASSUME TypeOK, NEW c \in Clients, NEW r \in ReqType, Begin(c, r)
    PROVE  TypeOK'
<1>1. req' \in [Clients -> ReqType]
    BY DEF Begin, Turn, TypeOK, ReqType
<1>2. requests' \in 0..MaxRequests
    BY BoundsAssumption DEF Begin, TypeOK
<1>3. excuses' \subseteq {"overlap", "demotion", "crash", "refusal"}
      /\ quiet' \subseteq Clients
    BY DEF Begin, TypeOK
<1>4. UNCHANGED <<tables, cookie, crashes, contested>>
    BY DEF Begin
<1> QED BY <1>1, <1>2, <1>3, <1>4 DEF TypeOK, ReqType, tables

LEMMA StepType ==
    ASSUME TypeOK, NEW c \in Clients, Step(c)
    PROVE  TypeOK'
<1>1. req' \in [Clients -> ReqType] /\ UNCHANGED <<requests, quiet, crashes>>
    BY Moves DEF Step, IsInstalled, StoreConfigs, CreateAdmin, InsertUser, history,
        IsEmailUsed, EraseUser, ClearSessions, OpenSession, ForgetSessions, WriteUser,
        AuthSession, AuthUser, ReadUser, FindUser
<1>2. /\ installed \in Nat /\ last \in 0..MaxUsers /\ issued \in Nat
      /\ users \in [UserIds -> Rows]
      /\ sessions \in [UserIds -> SUBSET (1..issued)]
      /\ cookie \in [Clients -> [user : {0} \cup UserIds, token : 0..issued]]
      /\ excuses \subseteq {"overlap", "demotion", "crash", "refusal"}
      /\ contested \subseteq UserIds /\ quiet \subseteq Clients
      /\ req[c] \in ReqType /\ requests \in 0..MaxRequests /\ crashes \in 0..MaxCrashes
    BY DEF TypeOK, ReqType
<1> DEFINE Typed ==
      /\ installed' \in Nat /\ last' \in 0..MaxUsers /\ issued' \in Nat
      /\ users' \in [UserIds -> Rows]
      /\ sessions' \in [UserIds -> SUBSET (1..issued')]
      /\ cookie' \in [Clients -> [user : {0} \cup UserIds, token : 0..issued']]
      /\ excuses' \subseteq {"overlap", "demotion", "crash", "refusal"}
      /\ contested' \subseteq UserIds
<1>3. ASSUME IsInstalled(c) \/ AuthSession(c) \/ AuthUser(c) \/ IsEmailUsed(c) \/ ReadUser(c)
      PROVE  Typed
    BY <1>2, <1>3 DEF IsInstalled, AuthSession, AuthUser, IsEmailUsed, ReadUser, tables,
        history
<1>4. ASSUME StoreConfigs(c) PROVE Typed
    BY <1>2, <1>4 DEF StoreConfigs, history
<1>5. ASSUME CreateAdmin(c) PROVE Typed
    <2>1. last' \in 0..MaxUsers /\ users' \in [UserIds -> Rows]
        <3>1. req[c].email \in Emails \cup {"none"} /\ "super" \in Roles
            BY <1>2 DEF ReqType, Roles
        <3> QED BY <1>2, <1>5, <3>1, InsertType DEF CreateAdmin
    <2>2. excuses' \subseteq {"overlap", "demotion", "crash", "refusal"}
        BY <1>2, <1>5 DEF CreateAdmin
    <2> QED BY <1>2, <1>5, <2>1, <2>2 DEF CreateAdmin
<1>6. ASSUME InsertUser(c) PROVE Typed
    <2>1. req[c].email \in Emails \cup {"none"} /\ req[c].role \in Roles
        BY <1>2 DEF ReqType
    <2>2. last' \in 0..MaxUsers /\ users' \in [UserIds -> Rows]
        BY <1>6, <2>1, InsertType DEF InsertUser
    <2> QED BY <1>2, <1>6, <2>2 DEF InsertUser, history
<1>7. ASSUME WriteUser(c) PROVE Typed
    <2> DEFINE r == req[c]
               old == users[r.target]
               new == [old EXCEPT !.email = IF r.email = r.row.email THEN @ ELSE r.email,
                                  !.role  = IF r.role = r.row.role THEN @ ELSE r.role]
    <2>1. ASSUME r.target \in There PROVE new \in Rows
        BY <1>2, <2>1 DEF There, Rows, ReqType
    <2>2. users' \in [UserIds -> Rows]
        BY <1>2, <1>7, <2>1 DEF WriteUser
    <2>3. excuses' \subseteq {"overlap", "demotion", "crash", "refusal"}
        BY <1>2, <1>7 DEF WriteUser, Demotes
    <2> QED BY <1>2, <1>7, <2>2, <2>3 DEF WriteUser
<1>8. ASSUME EraseUser(c) PROVE Typed
    <2>1. [NoRow EXCEPT !.state = "gone"] \in Rows
        BY DEF NoRow, Rows, Roles
    <2> QED BY <1>2, <1>8, <2>1 DEF EraseUser, history
<1>9. ASSUME FindUser(c) PROVE Typed
    <2>1. req[c].target \in Owners(req[c].email) => req[c].target \in UserIds
        BY DEF Owners, There
    <2>2. contested' \subseteq UserIds
        BY <1>2, <1>9, <2>1 DEF FindUser
    <2> QED BY <1>2, <1>9, <2>2 DEF FindUser, tables
<1>10. ASSUME ClearSessions(c) \/ ForgetSessions(c) PROVE Typed
    <2>1. NoCookie \in [user : {0} \cup UserIds, token : 0..issued]
        BY <1>2 DEF NoCookie
    <2>2. CASE ClearSessions(c)
        BY <1>2, <2>2 DEF ClearSessions, history
    <2>3. CASE ForgetSessions(c)
        <3>1. issued' = issued /\ installed' = installed /\ last' = last /\ users' = users
              /\ UNCHANGED history
            BY <2>3 DEF ForgetSessions
        <3>2. sessions' \in [UserIds -> SUBSET (1..issued)]
            BY <1>2, <2>3 DEF ForgetSessions
        <3>3. cookie' \in [Clients -> [user : {0} \cup UserIds, token : 0..issued]]
            BY <1>2, <2>1, <2>3 DEF ForgetSessions
        <3> QED BY <1>2, <3>1, <3>2, <3>3 DEF history
    <2> QED BY <1>10, <2>2, <2>3
<1>11. ASSUME OpenSession(c) PROVE Typed
    <2>1. CASE req[c].me \in There
        <3>1. issued' = issued + 1 /\ issued' \in Nat /\ 1..issued \subseteq 1..issued'
              /\ 0..issued \subseteq 0..issued' /\ issued + 1 \in 1..issued'
            BY <1>2, <1>11, <2>1 DEF OpenSession
        <3>2. sessions' \in [UserIds -> SUBSET (1..issued')]
            BY <1>2, <1>11, <2>1, <3>1 DEF OpenSession
        <3>3. [user |-> req[c].me, token |-> issued + 1]
                \in [user : {0} \cup UserIds, token : 0..issued']
            BY <1>2, <2>1, <3>1 DEF There
        <3>4. cookie' \in [Clients -> [user : {0} \cup UserIds, token : 0..issued']]
            <4>1. cookie \in [Clients -> [user : {0} \cup UserIds, token : 0..issued']]
                BY <1>2, <3>1
            <4> QED BY <1>11, <2>1, <3>3, <4>1 DEF OpenSession
        <3> QED BY <1>2, <1>11, <3>1, <3>2, <3>4 DEF OpenSession, history
    <2>2. CASE req[c].me \notin There
        BY <1>2, <1>11, <2>2 DEF OpenSession, history
    <2> QED BY <2>1, <2>2
<1>12. Typed
    BY <1>3, <1>4, <1>5, <1>6, <1>7, <1>8, <1>9, <1>10, <1>11 DEF Step
<1> QED BY <1>1, <1>2, <1>12 DEF TypeOK, ReqType

LEMMA NextType == TypeOK /\ [Next]_vars => TypeOK'
<1> SUFFICES ASSUME TypeOK, [Next]_vars PROVE TypeOK'
    OBVIOUS
<1>1. ASSUME NEW c \in Clients, Arrive(c) PROVE TypeOK'
    <2>1. PICK r \in Starts : Begin(c, r)
        BY <1>1, Arrival
    <2> QED BY <2>1, BeginType DEF Starts
<1>2. ASSUME NEW c \in Clients, Step(c) PROVE TypeOK'
    BY <1>2, StepType
<1>3. ASSUME NEW c \in Clients, Crash(c) PROVE TypeOK'
    <2>1. req' \in [Clients -> ReqType]
        BY <1>3, Moves
    <2>2. crashes' \in 0..MaxCrashes
          /\ excuses' \subseteq {"overlap", "demotion", "crash", "refusal"}
        BY <1>3, BoundsAssumption DEF Crash, TypeOK
    <2> QED BY <1>3, <2>1, <2>2 DEF Crash, tables, TypeOK, ReqType
<1>4. CASE UNCHANGED vars
    BY <1>4 DEF vars, tables, history, TypeOK
<1> QED BY <1>1, <1>2, <1>3, <1>4 DEF Next

\* Tables, cookies and requests keep their types.
THEOREM AccountTypes == Spec => []TypeOK
<1>1. Init => TypeOK
    BY InitType
<1>2. TypeOK /\ [Next]_vars => TypeOK'
    BY NextType
<1> QED BY <1>1, <1>2, PTL DEF Spec

----------------------------------------------------------------------------
\* Where a request is, and who is logged in

\* Which requests come where, and what they know there.
PlacedOK(c) ==
    LET r == req[c]
    IN  /\ r.pc \in {"is_installed", "configs", "admin"} => r.kind = "install"
        /\ r.pc \in {"find", "clear", "open"} => r.kind = "login"
        /\ r.pc \in {"session", "user"} =>
             r.kind \in {"create", "update", "profile", "delete", "logout"}
        /\ r.pc = "email" => r.kind \in {"create", "update", "profile"}
        /\ r.pc = "insert" => r.kind = "create"
        /\ r.pc \in {"read", "write"} => r.kind \in {"update", "profile"}
        /\ r.pc = "erase" => r.kind = "delete"
        /\ r.pc = "forget" => r.kind = "logout"
        /\ r.pc \in {"clear", "open"} => r.me \in UserIds
        /\ r.pc = "write" /\ r.kind = "profile" => r.role = r.row.role

Placed == \A c \in Clients : PlacedOK(c)

\* Rows are there only up to last, and users only after an installation.
Counted ==
    /\ \A u \in UserIds : u > last => users[u].state = "none"
    /\ installed = 0 => last = 0
    /\ \A c \in Clients : /\ req[c].pc = "admin" => installed > 0
                          /\ req[c].pc \in {"user", "email", "insert"} => last > 0

Grounded == TypeOK /\ Placed /\ GoneAreOut /\ Counted

LEMMA Turned ==
    ASSUME TypeOK, NEW c \in Clients
    PROVE  /\ \A r : Turn(c, r) => req'[c] = r
           /\ \A pc \in Places :
                /\ Goto(c, pc) => req'[c] = [req[c] EXCEPT !.pc = pc]
                /\ End(c, pc) => req'[c] = [Idle EXCEPT !.kind = req[c].kind, !.pc = pc,
                                                        !.me = req[c].me]
BY DEF TypeOK, Turn, Goto, End

LEMMA PlacedNext ==
    ASSUME TypeOK, Placed, [Next]_vars
    PROVE  Placed'
<1>1. req \in [Clients -> ReqType]
    BY DEF TypeOK, ReqType
<1>2. ASSUME NEW d \in Clients, req'[d] = req[d] PROVE PlacedOK(d)'
    BY <1>2 DEF Placed, PlacedOK
<1>3. ASSUME NEW c \in Clients, NEW pc \in {"idle", "ok"}, End(c, pc) PROVE PlacedOK(c)'
    <2>0. pc \in Places
        BY DEF Places
    <2>1. req'[c].pc = pc
        <3>1. req'[c] = [Idle EXCEPT !.kind = req[c].kind, !.pc = pc, !.me = req[c].me]
            BY <1>3, <2>0, Turned
        <3> QED BY <3>1 DEF Idle
    <2> QED BY <2>1 DEF PlacedOK
<1>4. ASSUME NEW c \in Clients, Arrive(c) PROVE Placed'
    <2>1. PICK r \in Starts : Begin(c, r)
        BY <1>4, Arrival
    <2>2. req'[c] = r /\ \A d \in Clients \ {c} : req'[d] = req[d]
        BY <1>1, <2>1 DEF Begin, Turn
    <2>3. PlacedOK(c)'
        BY <2>2 DEF PlacedOK, Starts
    <2> QED BY <1>2, <2>2, <2>3 DEF Placed
<1>5. ASSUME NEW c \in Clients, Step(c) PROVE PlacedOK(c)'
    <2> DEFINE o == req[c]
    <2>1. o \in ReqType /\ PlacedOK(c)
        BY <1>1 DEF Placed
    <2>2. ASSUME NEW pc \in Places, Goto(c, pc)
          PROVE  req'[c].pc = pc /\ req'[c].kind = o.kind /\ req'[c].me = o.me
        <3>1. req'[c] = [o EXCEPT !.pc = pc]
            BY <2>2, Turned
        <3> QED BY <2>1, <3>1 DEF ReqType
    <2>3. CASE IsInstalled(c) \/ StoreConfigs(c)
        BY <1>3, <2>1, <2>2, <2>3 DEF IsInstalled, StoreConfigs, PlacedOK, Places
    <2>4. CASE \/ CreateAdmin(c) \/ InsertUser(c) \/ WriteUser(c) \/ EraseUser(c)
               \/ OpenSession(c) \/ ForgetSessions(c)
        BY <1>3, <2>4 DEF CreateAdmin, InsertUser, WriteUser, EraseUser, OpenSession,
            ForgetSessions
    <2>5. CASE AuthSession(c)
        <3>1. ASSUME Turn(c, [o EXCEPT !.pc = "user", !.me = cookie[c].user])
              PROVE  req'[c].pc = "user" /\ req'[c].kind = o.kind
            <4>1. req'[c] = [o EXCEPT !.pc = "user", !.me = cookie[c].user]
                BY <3>1, Turned
            <4> QED BY <2>1, <4>1 DEF ReqType
        <3> QED BY <1>3, <2>1, <2>2, <2>5, <3>1 DEF AuthSession, PlacedOK, Places
    <2>6. CASE AuthUser(c)
        <3>1. ASSUME Turn(c, [o EXCEPT !.pc = "forget", !.me = 0])
              PROVE  req'[c].pc = "forget" /\ req'[c].kind = o.kind
            <4>1. req'[c] = [o EXCEPT !.pc = "forget", !.me = 0]
                BY <3>1, Turned
            <4> QED BY <2>1, <4>1 DEF ReqType
        <3>2. ASSUME Turn(c, [o EXCEPT !.pc = "email", !.target = o.me])
              PROVE  req'[c].pc = "email" /\ req'[c].kind = o.kind
            <4>1. req'[c] = [o EXCEPT !.pc = "email", !.target = o.me]
                BY <3>2, Turned
            <4> QED BY <2>1, <4>1 DEF ReqType
        <3> QED BY <1>3, <2>1, <2>2, <2>6, <3>1, <3>2 DEF AuthUser, PlacedOK, Places
    <2>7. CASE IsEmailUsed(c)
        BY <1>3, <2>1, <2>2, <2>7 DEF IsEmailUsed, PlacedOK, Places
    <2>8. CASE ReadUser(c)
        <3> DEFINE u == users[o.target]
                   r == [o EXCEPT !.pc = "write", !.row = u,
                                  !.role = IF o.kind = "profile" THEN u.role ELSE @]
        <3>1. ASSUME Turn(c, r)
              PROVE  /\ req'[c].pc = "write" /\ req'[c].kind = o.kind
                     /\ req'[c].row = u /\ (o.kind = "profile" => req'[c].role = u.role)
            <4>1. req'[c] = r
                BY <3>1, Turned
            <4> QED BY <2>1, <4>1 DEF ReqType
        <3> QED BY <1>3, <2>1, <2>8, <3>1 DEF ReadUser, PlacedOK
    <2>9. CASE FindUser(c)
        <3>1. ASSUME o.target \in Owners(o.email),
                     Turn(c, [o EXCEPT !.pc = "clear", !.me = o.target])
              PROVE  req'[c].pc = "clear" /\ req'[c].kind = o.kind /\ req'[c].me \in UserIds
            <4>1. req'[c] = [o EXCEPT !.pc = "clear", !.me = o.target]
                BY <3>1, Turned
            <4> QED BY <2>1, <3>1, <4>1 DEF ReqType, Owners, There
        <3> QED BY <1>3, <2>1, <2>9, <3>1 DEF FindUser, PlacedOK
    <2>10. CASE ClearSessions(c)
        BY <1>3, <2>1, <2>2, <2>10 DEF ClearSessions, PlacedOK, Places
    <2> QED BY <1>5, <2>3, <2>4, <2>5, <2>6, <2>7, <2>8, <2>9, <2>10 DEF Step
<1>6. ASSUME NEW c \in Clients, Crash(c) PROVE PlacedOK(c)'
    BY <1>3, <1>6 DEF Crash
<1>7. ASSUME NEW c \in Clients, Step(c) \/ Crash(c) PROVE Placed'
    BY <1>2, <1>5, <1>6, <1>7, Moves DEF Placed
<1>8. CASE UNCHANGED vars
    BY <1>8 DEF vars, Placed, PlacedOK
<1> QED BY <1>4, <1>7, <1>8 DEF Next

\* How a request comes to where it is.
ReachedOK(c) ==
    LET o == req[c]
        n == req'[c]
    IN  /\ n.pc \in {"idle", "ok", "configs", "admin", "user", "email", "insert", "read",
                     "write", "erase", "clear", "open", "forget"}
        /\ n.pc = "configs" => IsInstalled(c) /\ ~installed > 0
        /\ n.pc = "admin" => StoreConfigs(c)
        /\ n.pc = "user" => AuthSession(c) /\ n.me \in UserIds /\ sessions[n.me] # {}
        /\ n.pc = "email" => AuthUser(c)
        /\ n.pc = "insert" => IsEmailUsed(c) /\ n.email = o.email /\ Owners(o.email) = {}
        /\ n.pc = "read" =>
             /\ IsEmailUsed(c) /\ n.email = o.email /\ n.target = o.target
             /\ Owners(o.email) = {} \/ o.target \in Owners(o.email)
        /\ n.pc = "write" => ReadUser(c) /\ n.email = o.email /\ n.target = o.target
        /\ n.pc = "erase" => AuthUser(c) /\ n.me = o.me /\ n.me \in Supers
        /\ n.pc = "clear" => FindUser(c) /\ n.me = o.target
        /\ n.pc = "open" => ClearSessions(c) /\ n.me = o.me /\ sessions' = [sessions EXCEPT ![n.me] = {}]
        /\ n.pc = "forget" => AuthSession(c) \/ AuthUser(c)
        /\ n.me = o.me \/ AuthSession(c) \/ AuthUser(c) \/ (FindUser(c) /\ n.pc = "clear")

LEMMA Reached ==
    ASSUME TypeOK, NEW c \in Clients, Step(c)
    PROVE  ReachedOK(c)
<1> DEFINE o == req[c]  n == req'[c]
<1>1. o \in ReqType
    BY DEF TypeOK, ReqType
<1>2. ASSUME NEW pc \in Places, Goto(c, pc)
      PROVE  n.pc = pc /\ n.me = o.me /\ n.email = o.email /\ n.target = o.target
    <2>1. n = [o EXCEPT !.pc = pc]
        BY <1>2, Turned
    <2> QED BY <1>1, <2>1 DEF ReqType
<1>3. ASSUME NEW pc \in Places, End(c, pc) PROVE n.pc = pc /\ n.me = o.me
    <2>1. n = [Idle EXCEPT !.kind = o.kind, !.pc = pc, !.me = o.me]
        BY <1>3, Turned
    <2> QED BY <2>1 DEF Idle
<1> HIDE DEF o, n
<1>4. CASE IsInstalled(c) \/ StoreConfigs(c)
    BY <1>2, <1>3, <1>4 DEF IsInstalled, StoreConfigs, ReachedOK, Places, o, n
<1>5. CASE CreateAdmin(c) \/ InsertUser(c) \/ WriteUser(c) \/ EraseUser(c) \/ ForgetSessions(c)
    BY <1>3, <1>5 DEF CreateAdmin, InsertUser, WriteUser, EraseUser, ForgetSessions,
        ReachedOK, Places, o, n
<1>6. CASE OpenSession(c)
    BY <1>3, <1>6 DEF OpenSession, ReachedOK, Places, o, n
<1>7. CASE AuthSession(c)
    <2> DEFINE k == cookie[c]
    <2>1. k.user \in {0} \cup UserIds
        BY DEF TypeOK
    <2>2. ASSUME Turn(c, [o EXCEPT !.pc = "user", !.me = k.user])
          PROVE  n.pc = "user" /\ n.me = k.user
        <3>1. n = [o EXCEPT !.pc = "user", !.me = k.user]
            BY <2>2, Turned DEF n
        <3> QED BY <1>1, <3>1 DEF ReqType
    <2>3. CASE k.user # 0 /\ k.token \in sessions[k.user]
        <3>1. Turn(c, [o EXCEPT !.pc = "user", !.me = k.user])
            BY <1>7, <2>3 DEF AuthSession, o
        <3> QED BY <1>7, <2>1, <2>2, <2>3, <3>1 DEF ReachedOK, n
    <2>4. CASE ~(k.user # 0 /\ k.token \in sessions[k.user])
        <3>1. Goto(c, "forget") \/ End(c, "idle")
            BY <1>7, <2>4 DEF AuthSession
        <3> QED BY <1>2, <1>3, <1>7, <3>1 DEF ReachedOK, Places, n
    <2> QED BY <2>3, <2>4
<1>8. CASE AuthUser(c)
    <2>1. ASSUME Turn(c, [o EXCEPT !.pc = "forget", !.me = 0]) PROVE n.pc = "forget"
        <3>1. n = [o EXCEPT !.pc = "forget", !.me = 0]
            BY <2>1, Turned DEF n
        <3> QED BY <1>1, <3>1 DEF ReqType
    <2>2. ASSUME Turn(c, [o EXCEPT !.pc = "email", !.target = o.me]) PROVE n.pc = "email"
        <3>1. n = [o EXCEPT !.pc = "email", !.target = o.me]
            BY <2>2, Turned DEF n
        <3> QED BY <1>1, <3>1 DEF ReqType
    <2>3. \/ n.pc \in {"forget", "email", "idle"}
          \/ n.pc = "erase" /\ n.me = o.me /\ o.me \in Supers
        <3>1. \/ Goto(c, "forget") \/ Goto(c, "email") \/ End(c, "idle")
              \/ Turn(c, [o EXCEPT !.pc = "forget", !.me = 0])
              \/ Turn(c, [o EXCEPT !.pc = "email", !.target = o.me])
              \/ o.me \in Supers /\ Goto(c, "erase")
            BY <1>8 DEF AuthUser, o
        <3>2. /\ Goto(c, "forget") => n.pc = "forget"
              /\ Goto(c, "email") => n.pc = "email"
              /\ Goto(c, "erase") => n.pc = "erase" /\ n.me = o.me
              /\ End(c, "idle") => n.pc = "idle"
            BY <1>2, <1>3 DEF Places
        <3> QED BY <2>1, <2>2, <3>1, <3>2
    <2> QED BY <1>8, <2>3 DEF ReachedOK, o, n
<1>9. CASE IsEmailUsed(c)
    <2>1. CASE End(c, "idle")
        BY <1>3, <1>9, <2>1 DEF ReachedOK, Places, o, n
    <2>2. CASE ~End(c, "idle")
        <3>1. /\ Owners(o.email) = {} \/ (o.kind # "create" /\ o.target \in Owners(o.email))
              /\ Goto(c, IF o.kind = "create" THEN "insert" ELSE "read")
            BY <1>9, <2>2 DEF IsEmailUsed, o
        <3>2. n.pc = (IF o.kind = "create" THEN "insert" ELSE "read")
              /\ n.me = o.me /\ n.email = o.email /\ n.target = o.target
            BY <1>2, <3>1 DEF Places
        <3> QED BY <1>9, <3>1, <3>2 DEF ReachedOK, o, n
    <2> QED BY <2>1, <2>2
<1>10. CASE ReadUser(c)
    <2> DEFINE u == users[o.target]
               r == [o EXCEPT !.pc = "write", !.row = u,
                              !.role = IF o.kind = "profile" THEN u.role ELSE @]
    <2>1. ASSUME Turn(c, r)
          PROVE  n.pc = "write" /\ n.me = o.me /\ n.email = o.email /\ n.target = o.target
        <3>1. n = r
            BY <2>1, Turned DEF n
        <3> QED BY <1>1, <3>1 DEF ReqType
    <2>2. Turn(c, r) \/ End(c, "idle")
        BY <1>10 DEF ReadUser, o
    <2> QED BY <1>3, <1>10, <2>1, <2>2 DEF ReachedOK, Places, o, n
<1>11. CASE FindUser(c)
    <2>1. ASSUME Turn(c, [o EXCEPT !.pc = "clear", !.me = o.target])
          PROVE  n.pc = "clear" /\ n.me = o.target
        <3>1. n = [o EXCEPT !.pc = "clear", !.me = o.target]
            BY <2>1, Turned DEF n
        <3> QED BY <1>1, <3>1 DEF ReqType
    <2>2. Turn(c, [o EXCEPT !.pc = "clear", !.me = o.target]) \/ End(c, "idle")
        BY <1>11 DEF FindUser, o
    <2> QED BY <1>3, <1>11, <2>1, <2>2 DEF ReachedOK, Places, o, n
<1>12. CASE ClearSessions(c)
    <2>1. \/ /\ Goto(c, "open") /\ sessions' = [sessions EXCEPT ![o.me] = {}]
          \/ End(c, "idle")
        BY <1>12 DEF ClearSessions, o
    <2> QED BY <1>2, <1>3, <1>12, <2>1 DEF ReachedOK, Places, o, n
<1> QED BY <1>4, <1>5, <1>6, <1>7, <1>8, <1>9, <1>10, <1>11, <1>12 DEF Step

\* Which steps change which table.
LEMMA Touched ==
    ASSUME NEW c \in Clients, Step(c)
    PROVE  /\ installed' = installed \/ StoreConfigs(c)
           /\ (last' = last /\ users' = users)
                \/ CreateAdmin(c) \/ InsertUser(c) \/ WriteUser(c) \/ EraseUser(c)
           /\ sessions' = sessions
                \/ EraseUser(c) \/ ClearSessions(c) \/ OpenSession(c) \/ ForgetSessions(c)
           /\ cookie' = cookie \/ OpenSession(c) \/ ForgetSessions(c)
           /\ excuses' = excuses \/ CreateAdmin(c) \/ WriteUser(c)
           /\ contested' = contested \/ FindUser(c)
BY DEF Step, tables, history, IsInstalled, StoreConfigs, CreateAdmin, InsertUser,
    IsEmailUsed, EraseUser, ClearSessions, OpenSession, ForgetSessions, WriteUser,
    AuthSession, AuthUser, ReadUser, FindUser

LEMMA GoneOutNext ==
    ASSUME TypeOK, Placed, Counted, GoneAreOut, [Next]_vars
    PROVE  GoneAreOut'
<1>1. /\ users \in [UserIds -> Rows] /\ last \in Nat
      /\ sessions \in [UserIds -> SUBSET (1..issued)]
    BY BoundsAssumption DEF TypeOK
<1>2. ASSUME users' = users, sessions' = sessions PROVE GoneAreOut'
    BY <1>2 DEF GoneAreOut, There
<1>3. ASSUME NEW c \in Clients, Step(c) PROVE GoneAreOut'
    <2>1. ASSUME NEW e, NEW r, Insert(e, r), sessions' = sessions PROVE GoneAreOut'
        BY <1>1, <2>1 DEF Insert, GoneAreOut, There
    <2>2. CASE CreateAdmin(c)
        BY <1>2, <2>1, <2>2 DEF CreateAdmin
    <2>3. CASE InsertUser(c)
        BY <2>1, <2>3 DEF InsertUser
    <2>4. CASE WriteUser(c)
        <3> DEFINE r == req[c]
                   old == users[r.target]
                   new == [old EXCEPT !.email = IF r.email = r.row.email THEN @ ELSE r.email,
                                      !.role  = IF r.role = r.row.role THEN @ ELSE r.role]
        <3>1. ASSUME r.target \in There PROVE new.state = "there"
            BY <1>1, <3>1 DEF There, Rows
        <3>2. \A u \in There : users'[u].state = "there"
            BY <1>1, <2>4, <3>1 DEF WriteUser, There
        <3>3. sessions' = sessions
            BY <2>4 DEF WriteUser
        <3> QED BY <3>2, <3>3 DEF GoneAreOut, There
    <2>5. CASE EraseUser(c)
        BY <1>1, <2>5 DEF EraseUser, GoneAreOut, There
    <2>6. CASE ClearSessions(c)
        BY <1>1, <2>6 DEF ClearSessions, GoneAreOut, There
    <2>7. CASE ForgetSessions(c)
        BY <1>1, <2>7 DEF ForgetSessions, GoneAreOut, There
    <2>8. CASE OpenSession(c)
        BY <1>1, <2>8 DEF OpenSession, GoneAreOut, There
    <2> QED BY <1>2, <1>3, <2>2, <2>3, <2>4, <2>5, <2>6, <2>7, <2>8, Touched
<1>4. ASSUME NEW c \in Clients, Arrive(c) \/ Crash(c) PROVE GoneAreOut'
    <2>1. ASSUME NEW r, Begin(c, r) PROVE users' = users /\ sessions' = sessions
        BY <2>1 DEF Begin, tables
    <2> QED BY <1>2, <1>4, <2>1, Arrival DEF Crash, tables
<1> QED BY <1>2, <1>3, <1>4 DEF Next, vars, tables

LEMMA CountedNext ==
    ASSUME TypeOK, Placed, Counted, GoneAreOut, [Next]_vars
    PROVE  Counted'
<1>1. /\ users \in [UserIds -> Rows] /\ last \in Nat /\ installed \in Nat
      /\ req \in [Clients -> ReqType]
    BY BoundsAssumption DEF TypeOK, ReqType
<1>2. ASSUME NEW c \in Clients, Step(c) PROVE Counted'
    <2>1. ReachedOK(c) /\ PlacedOK(c)
        BY <1>2, Reached DEF Placed
    <2>2. \/ installed' = installed /\ last' = last
          \/ installed' = installed + 1 /\ last' = last
          \/ installed' = installed /\ last' = last + 1 /\ req[c].pc \in {"admin", "insert"}
        BY <1>2, Touched DEF CreateAdmin, InsertUser, WriteUser, EraseUser, StoreConfigs, Insert
    <2>3. installed' = 0 => last' = 0
        BY <1>1, <2>2 DEF Counted
    <2>4. ASSUME NEW u \in UserIds, u > last' PROVE users'[u].state = "none"
        <3>1. u > last /\ users[u].state = "none"
            BY <1>1, <2>2, <2>4 DEF Counted, UserIds
        <3>2. ASSUME NEW e, NEW r, Insert(e, r) PROVE users'[u].state = "none"
            BY <1>1, <2>4, <3>1, <3>2 DEF Insert, UserIds
        <3>3. CASE CreateAdmin(c)
            BY <3>1, <3>2, <3>3 DEF CreateAdmin
        <3>4. CASE InsertUser(c)
            BY <3>2, <3>4 DEF InsertUser
        <3>5. CASE WriteUser(c)
            BY <1>1, <3>1, <3>5 DEF WriteUser, There, Rows
        <3>6. CASE EraseUser(c)
            BY <1>1, <3>1, <3>6 DEF EraseUser, There
        <3> QED BY <1>2, <3>1, <3>3, <3>4, <3>5, <3>6, Touched
    <2>5. req'[c].pc = "admin" => installed' > 0
        BY <1>1, <2>1 DEF ReachedOK, StoreConfigs
    <2>6. req'[c].pc = "user" => last' > 0
        <3>1. ASSUME req'[c].pc = "user" PROVE req'[c].me \in There
            BY <2>1, <3>1 DEF ReachedOK, GoneAreOut
        <3>2. There # {} => last > 0
            BY <1>1 DEF Counted, There, UserIds
        <3> QED BY <1>1, <2>2, <3>1, <3>2
    <2>7. req'[c].pc \in {"email", "insert"} => last' > 0
        <3>1. ASSUME req'[c].pc \in {"email", "insert"} PROVE req[c].pc \in {"user", "email"}
            BY <2>1, <3>1 DEF ReachedOK, AuthUser, IsEmailUsed
        <3> QED BY <1>1, <2>2, <3>1 DEF Counted
    <2>8. ASSUME NEW d \in Clients \ {c}
          PROVE  /\ req'[d].pc = "admin" => installed' > 0
                 /\ req'[d].pc \in {"user", "email", "insert"} => last' > 0
        <3>1. req'[d] = req[d]
            BY <1>2, Moves
        <3> QED BY <1>1, <2>2, <3>1 DEF Counted
    <2> QED BY <2>3, <2>4, <2>5, <2>6, <2>7, <2>8 DEF Counted
<1>3. ASSUME UNCHANGED <<users, last, installed>>,
             \A d \in Clients :
               req'[d].pc \in {"admin", "user", "email", "insert"} => req'[d].pc = req[d].pc
      PROVE  Counted'
    BY <1>3 DEF Counted
<1>4. ASSUME NEW c \in Clients, Arrive(c) PROVE Counted'
    <2>1. PICK r \in Starts : Begin(c, r)
        BY <1>4, Arrival
    <2> QED BY <1>1, <1>3, <2>1 DEF Begin, Turn, Starts, tables
<1>5. ASSUME NEW c \in Clients, Crash(c) PROVE Counted'
    <2>1. req'[c] = [Idle EXCEPT !.kind = req[c].kind, !.pc = "idle", !.me = req[c].me]
        BY <1>5, Turned DEF Crash, Places
    <2>2. req'[c].pc = "idle"
        BY <2>1 DEF Idle
    <2> QED BY <1>3, <1>5, <2>2, Moves DEF Crash, tables
<1> QED BY <1>2, <1>3, <1>4, <1>5 DEF Next, vars, tables

LEMMA InitGrounded == Init => Grounded
<1> SUFFICES ASSUME Init PROVE Grounded
    OBVIOUS
<1>1. TypeOK
    BY InitType
<1>2. \A c \in Clients : req[c].pc = "idle"
    BY DEF Init, Idle
<1>3. Placed
    BY <1>2 DEF Placed, PlacedOK
<1>4. /\ \A u \in UserIds : u > last => users[u].state = "none"
      /\ installed = 0 => last = 0
      /\ \A u \in UserIds : sessions[u] # {} => u \in There
    <2>1. CASE /\ installed = 0 /\ last = 0
               /\ users = [u \in UserIds |-> NoRow]
               /\ sessions = [u \in UserIds |-> {}]
        BY <2>1 DEF NoRow
    <2>2. CASE ~(installed = 0 /\ last = 0)
        <3>1. installed = 1 /\ last = 2
              /\ sessions = [u \in UserIds |-> IF u <= 2 THEN {u} ELSE {}]
            BY <2>2 DEF Init
        <3>2. PICK e \in Emails, f \in Emails, r \in Roles :
                users = [u \in UserIds |->
                    CASE u = 1 -> [state |-> "there", email |-> e, role |-> "super"]
                      [] u = 2 -> [state |-> "there", email |-> f, role |-> r]
                      [] OTHER -> NoRow]
            BY <2>2 DEF Init
        <3>3. ASSUME NEW u \in UserIds
              PROVE  /\ u > 2 => users[u].state = "none"
                     /\ u <= 2 => users[u].state = "there"
            <4>1. u \in Nat /\ u >= 1
                BY DEF UserIds
            <4>2. CASE u = 1
                BY <3>2, <4>2
            <4>3. CASE u = 2
                BY <3>2, <4>3
            <4>4. CASE u > 2
                <5>1. u # 1 /\ u # 2
                    BY <4>1, <4>4
                <5>2. users[u] = NoRow
                    BY <3>2, <5>1
                <5> QED BY <4>1, <4>4, <5>2 DEF NoRow
            <4> QED BY <4>1, <4>2, <4>3, <4>4
        <3> QED BY <3>1, <3>3 DEF There
    <2> QED BY <2>1, <2>2 DEF Init
<1> QED BY <1>1, <1>2, <1>3, <1>4 DEF Grounded, Counted, GoneAreOut

LEMMA GroundedNext == Grounded /\ [Next]_vars => Grounded'
BY NextType, PlacedNext, GoneOutNext, CountedNext DEF Grounded

LEMMA AlwaysGrounded == Spec => []Grounded
<1>1. Init => Grounded
    BY InitGrounded
<1>2. Grounded /\ [Next]_vars => Grounded'
    BY GroundedNext
<1> QED BY <1>1, <1>2, PTL DEF Spec

\* A session has its user: a log-in that is overtaken by the deletion of its
\* user leaves none behind.
THEOREM GoneStayOut == Spec => []GoneAreOut
<1>1. Grounded => GoneAreOut
    BY DEF Grounded
<1> QED BY <1>1, AlwaysGrounded, PTL

\* Only a super's update changes a role, whatever profile is saved meanwhile.
THEOREM RolesStay == Spec => RolesAreGiven
<1> DEFINE A == \A u \in There :
         users'[u].state = "there" /\ users'[u].role # users[u].role =>
           \E c \in Clients :
             /\ req[c].pc = "write" /\ req[c].kind = "update"
             /\ req[c].target = u /\ req[c].role = users'[u].role
<1>1. ASSUME Grounded, [Next]_vars PROVE [A]_vars
    <2>1. SUFFICES ASSUME NEW u \in There, users'[u].state = "there",
                          users'[u].role # users[u].role
                   PROVE  \E c \in Clients :
                            /\ req[c].pc = "write" /\ req[c].kind = "update"
                            /\ req[c].target = u /\ req[c].role = users'[u].role
        OBVIOUS
    <2>2. users \in [UserIds -> Rows] /\ u \in UserIds /\ users[u].state = "there"
          /\ last \in Nat /\ TypeOK
        BY <1>1, BoundsAssumption DEF Grounded, TypeOK, There
    <2>3. users' # users
        BY <2>1
    <2>4. PICK c \in Clients : Step(c)
        <3>1. ASSUME NEW c \in Clients, NEW r, Begin(c, r) PROVE users' = users
            BY <3>1 DEF Begin, tables
        <3> QED BY <1>1, <2>2, <2>3, <3>1, Arrival DEF Next, Crash, vars, tables
    <2>5. ASSUME NEW e, NEW r, Insert(e, r) PROVE FALSE
        <3>1. u # last + 1
            BY <1>1, <2>2 DEF Grounded, Counted, UserIds
        <3> QED BY <2>1, <2>2, <2>5, <3>1 DEF Insert
    <2>6. CASE CreateAdmin(c)
        BY <2>3, <2>5, <2>6 DEF CreateAdmin
    <2>7. CASE InsertUser(c)
        BY <2>5, <2>7 DEF InsertUser
    <2>8. CASE EraseUser(c)
        BY <2>1, <2>2, <2>8 DEF EraseUser, NoRow
    <2>9. CASE WriteUser(c)
        <3> DEFINE r == req[c]
                   old == users[r.target]
                   new == [old EXCEPT !.email = IF r.email = r.row.email THEN @ ELSE r.email,
                                      !.role  = IF r.role = r.row.role THEN @ ELSE r.role]
        <3>1. r.pc = "write" /\ r.target \in There
              /\ users' = [users EXCEPT ![r.target] = new]
            BY <2>3, <2>9 DEF WriteUser
        <3>2. r.target = u
            BY <2>1, <2>2, <3>1
        <3>3. old \in Rows
            BY <2>2, <3>2
        <3>4. new.role = IF r.role = r.row.role THEN old.role ELSE r.role
            BY <3>3 DEF Rows
        <3>5. users'[u] = new
            BY <2>2, <3>1, <3>2
        <3>6. r.role # r.row.role /\ users'[u].role = r.role
            BY <2>1, <3>2, <3>4, <3>5
        <3>7. r.kind = "update"
            BY <1>1, <3>1, <3>6 DEF Grounded, Placed, PlacedOK
        <3> QED BY <3>1, <3>2, <3>6, <3>7
    <2> QED BY <2>3, <2>4, <2>6, <2>7, <2>8, <2>9, Touched
<1>2. Spec => []Grounded
    BY AlwaysGrounded
<1> QED BY <1>1, <1>2, PTL DEF Spec, RolesAreGiven

----------------------------------------------------------------------------
\* Emails, installations and managers

\* While requests that manage users come one after another, each finds what
\* it has read as it was.
WorkOK(c) ==
    LET r == req[c]
    IN  /\ r.pc = "configs" => installed = 0
        /\ r.pc = "admin" => last = 0
        /\ r.pc = "insert" => Owners(r.email) = {}
        /\ r.pc \in {"read", "write"} => Owners(r.email) \subseteq {r.target}
        /\ r.pc = "erase" => r.me \in Supers

Manages(c) == Open(c) /\ req[c].kind \in Managing

OneByOne == \A c, d \in Clients : Manages(c) /\ Manages(d) => c = d

Unique == \A u, v \in There : users[u].email = users[v].email => u = v

InTurn ==
    "overlap" \notin excuses =>
        /\ OneByOne /\ Unique /\ installed <= 1
        /\ \A c \in Clients : WorkOK(c)

LEMMA EmptyBefore ==
    ASSUME Grounded, last = 0
    PROVE  There = {}
BY BoundsAssumption DEF Grounded, Counted, There, UserIds

LEMMA UniqueNext ==
    ASSUME Grounded, Unique, NEW c \in Clients, Step(c), WorkOK(c)
    PROVE  Unique'
<1>1. users \in [UserIds -> Rows] /\ last \in Nat /\ req[c] \in ReqType
    BY BoundsAssumption DEF Grounded, TypeOK, ReqType
<1>2. ASSUME NEW e, NEW r, Insert(e, r), Owners(e) = {} PROVE Unique'
    <2>1. ASSUME NEW u \in UserIds, u # last + 1 PROVE users'[u] = users[u]
        BY <1>1, <1>2, <2>1 DEF Insert
    <2>2. last + 1 \in UserIds => users'[last + 1].email = e
        BY <1>1, <1>2 DEF Insert
    <2>3. ASSUME NEW u \in UserIds, u # last + 1, users'[u].state = "there"
          PROVE  u \in There /\ users[u].email # e
        BY <1>2, <2>1, <2>3 DEF Owners, There
    <2> QED BY <2>1, <2>2, <2>3 DEF Unique, There
<1>3. CASE CreateAdmin(c)
    <2>1. Owners(req[c].email) = {}
        BY <1>3, EmptyBefore DEF CreateAdmin, WorkOK, Owners
    <2> QED BY <1>2, <1>3, <2>1 DEF CreateAdmin, Unique, There
<1>4. CASE InsertUser(c)
    BY <1>2, <1>4 DEF InsertUser, WorkOK
<1>5. CASE WriteUser(c)
    <2> DEFINE r == req[c]
               old == users[r.target]
               new == [old EXCEPT !.email = IF r.email = r.row.email THEN @ ELSE r.email,
                                  !.role  = IF r.role = r.row.role THEN @ ELSE r.role]
    <2>1. CASE r.target \in There
        <3>1. Owners(r.email) \subseteq {r.target} /\ users' = [users EXCEPT ![r.target] = new]
            BY <1>5, <2>1 DEF WriteUser, WorkOK
        <3>2. old \in Rows /\ r.target \in UserIds /\ old.state = "there"
            BY <1>1, <2>1 DEF There
        <3>3. new.email \in {r.email, old.email} /\ new.state = "there"
            BY <3>2 DEF Rows
        <3>4. users'[r.target] = new
              /\ \A u \in UserIds \ {r.target} : users'[u] = users[u]
            BY <1>1, <3>1, <3>2
        <3>5. ASSUME NEW u \in There, u # r.target PROVE users'[u].email # new.email
            BY <2>1, <3>1, <3>3, <3>4, <3>5 DEF Unique, Owners, There
        <3>6. ASSUME NEW u \in There' PROVE u \in There
            <4>1. u \in UserIds /\ users'[u].state = "there"
                BY DEF There
            <4> QED BY <3>2, <3>4, <4>1 DEF There
        <3> HIDE DEF new
        <3>7. ASSUME NEW u \in There', NEW v \in There', users'[u].email = users'[v].email
              PROVE  u = v
            <4>1. u \in There /\ v \in There /\ u \in UserIds /\ v \in UserIds
                BY <3>6 DEF There
            <4>2. CASE u # r.target /\ v # r.target
                BY <3>4, <3>7, <4>1, <4>2 DEF Unique
            <4>3. CASE u = r.target \/ v = r.target
                BY <3>4, <3>5, <3>7, <4>1, <4>3
            <4> QED BY <4>2, <4>3
        <3> QED BY <3>7 DEF Unique
    <2>2. CASE r.target \notin There
        BY <1>5, <2>2 DEF WriteUser, Unique, There
    <2> QED BY <2>1, <2>2
<1>6. CASE EraseUser(c)
    BY <1>1, <1>6 DEF EraseUser, NoRow, Unique, There
<1> QED BY <1>3, <1>4, <1>5, <1>6, Touched DEF Unique, There

LEMMA WorkNext ==
    ASSUME Grounded, Unique, NEW c \in Clients, Step(c), WorkOK(c)
    PROVE  WorkOK(c)'
<1>1. ReachedOK(c) /\ installed \in Nat
    BY Reached DEF Grounded, TypeOK
<1> DEFINE n == req'[c]
<1>2. ASSUME n.pc \in {"configs", "insert", "read", "write", "erase"}
      PROVE  UNCHANGED <<installed, users, last>>
    BY <1>1, <1>2 DEF ReachedOK, IsInstalled, IsEmailUsed, ReadUser, AuthUser, tables
<1>3. ASSUME users' = users, req'[c].email = req[c].email
      PROVE  Owners(req[c].email)' = Owners(req[c].email)
    BY <1>3 DEF Owners, There
<1>4. n.pc = "configs" => installed' = 0
    <2>1. ASSUME n.pc = "configs" PROVE installed' = installed /\ ~installed > 0
        BY <1>1, <1>2, <2>1 DEF ReachedOK
    <2> QED BY <1>1, <2>1
<1>5. n.pc = "admin" => last' = 0
    BY <1>1 DEF ReachedOK, StoreConfigs, WorkOK, Grounded, Counted
<1>6. n.pc = "insert" => Owners(req[c].email)' = {}
    <2>1. ASSUME n.pc = "insert" PROVE Owners(req[c].email) = {} /\ n.email = req[c].email
        BY <1>1, <2>1 DEF ReachedOK
    <2> QED BY <1>2, <1>3, <2>1
<1>7. n.pc \in {"read", "write"} => Owners(req[c].email)' \subseteq {n.target}
    <2>1. ASSUME n.pc = "read"
          PROVE  Owners(req[c].email) \subseteq {n.target} /\ n.email = req[c].email
        BY <1>1, <2>1 DEF ReachedOK, Unique, Owners
    <2>2. ASSUME n.pc = "write"
          PROVE  Owners(req[c].email) \subseteq {n.target} /\ n.email = req[c].email
        BY <1>1, <2>2 DEF ReachedOK, ReadUser, WorkOK
    <2> QED BY <1>2, <1>3, <2>1, <2>2
<1>8. n.pc = "erase" => n.me \in Supers'
    <2>1. ASSUME n.pc = "erase" PROVE n.me \in Supers /\ users' = users
        BY <1>1, <1>2, <2>1 DEF ReachedOK
    <2> QED BY <2>1 DEF Supers, There
<1> QED BY <1>4, <1>5, <1>6, <1>7, <1>8 DEF WorkOK

LEMMA InTurnNext ==
    ASSUME Grounded, InTurn, [Next]_vars
    PROVE  InTurn'
<1>1. SUFFICES ASSUME "overlap" \notin excuses'
               PROVE  OneByOne' /\ Unique' /\ installed' <= 1 /\ \A d \in Clients : WorkOK(d)'
    BY DEF InTurn
<1>2. TypeOK /\ Placed /\ Placed' /\ req \in [Clients -> ReqType] /\ installed \in Nat
    BY GroundedNext DEF Grounded, TypeOK, ReqType
<1>3. "overlap" \notin excuses
    <2>1. ASSUME NEW c \in Clients, NEW r, Begin(c, r) PROVE excuses \subseteq excuses'
        BY <2>1 DEF Begin
    <2>2. ASSUME NEW c \in Clients, Step(c) PROVE excuses \subseteq excuses'
        BY <2>2, Touched DEF CreateAdmin, WriteUser, Demotes
    <2>3. ASSUME NEW c \in Clients, Crash(c) PROVE excuses \subseteq excuses'
        BY <2>3 DEF Crash
    <2> QED BY <1>1, <1>2, <2>1, <2>2, <2>3, Arrival DEF Next, vars, history
<1>4. OneByOne /\ Unique /\ installed <= 1 /\ \A d \in Clients : WorkOK(d)
    BY <1>3 DEF InTurn
<1>5. ASSUME UNCHANGED <<installed, users, last>> PROVE Unique' /\ installed' <= 1
    BY <1>4, <1>5 DEF Unique, There
<1>6. ASSUME UNCHANGED <<installed, users, last>>, NEW d \in Clients, req'[d] = req[d]
      PROVE  WorkOK(d)'
    <2>1. WorkOK(d)
        BY <1>4
    <2> QED BY <1>6, <2>1 DEF WorkOK, Owners, Supers, There
<1>7. ASSUME NEW d \in Clients,
             req'[d].pc \in {"idle", "ok", "is_installed", "session", "find"}
      PROVE  WorkOK(d)'
    BY <1>7 DEF WorkOK
<1>8. ASSUME NEW c \in Clients, Arrive(c)
      PROVE  OneByOne' /\ Unique' /\ installed' <= 1 /\ \A d \in Clients : WorkOK(d)'
    <2>1. PICK r \in Starts : Begin(c, r)
        BY <1>2, <1>8, Arrival
    <2>2. req'[c] = r /\ \A d \in Clients \ {c} : req'[d] = req[d]
        BY <1>2, <2>1 DEF Begin, Turn
    <2>3. UNCHANGED <<installed, users, last>>
        BY <2>1 DEF Begin, tables
    <2>4. WorkOK(c)'
        BY <1>7, <2>2 DEF Starts
    <2>5. r.kind \in Managing => \A d \in Clients \ {c} : ~Manages(d)
        BY <1>1, <2>1 DEF Begin, Others, Manages
    <2>6. OneByOne'
        BY <1>4, <2>2, <2>5 DEF OneByOne, Manages, Open
    <2> QED BY <1>5, <1>6, <2>2, <2>3, <2>4, <2>6
<1>9. ASSUME NEW c \in Clients, Step(c) \/ Crash(c) PROVE OneByOne'
    <2>1. Open(c) /\ req'[c].kind = req[c].kind /\ \A d \in Clients \ {c} : req'[d] = req[d]
        BY <1>2, <1>9, Moves
    <2> QED BY <1>4, <2>1 DEF OneByOne, Manages, Open
<1>10. ASSUME NEW c \in Clients, Step(c)
       PROVE  Unique' /\ installed' <= 1 /\ \A d \in Clients : WorkOK(d)'
    <2>1. Open(c) /\ req'[c].kind = req[c].kind /\ \A d \in Clients \ {c} : req'[d] = req[d]
        BY <1>2, <1>10, Moves
    <2>2. Unique' /\ WorkOK(c)'
        BY <1>4, <1>10, UniqueNext, WorkNext
    <2>3. installed' <= 1
        BY <1>2, <1>4, <1>10, Touched DEF StoreConfigs, WorkOK
    <2>4. ASSUME NEW d \in Clients \ {c} PROVE WorkOK(d)'
        <3>1. CASE req[c].kind \in Managing
            <4>1. ~Manages(d)
                BY <1>4, <2>1, <3>1 DEF OneByOne, Manages
            <4>2. PlacedOK(d)
                BY <1>2 DEF Placed
            <4>3. req[d].pc \notin {"configs", "admin", "insert", "read", "write", "erase"}
                BY <4>1, <4>2 DEF Manages, Open, PlacedOK, Managing
            <4> QED BY <2>1, <4>3 DEF WorkOK
        <3>2. CASE req[c].kind \notin Managing
            <4>1. PlacedOK(c)
                BY <1>2 DEF Placed
            <4>2. req[c].pc \notin {"configs", "admin", "insert", "write", "erase"}
                BY <3>2, <4>1 DEF PlacedOK, Managing
            <4>3. UNCHANGED <<installed, users, last>>
                BY <1>10, <4>2, Touched DEF StoreConfigs, CreateAdmin, InsertUser, WriteUser,
                    EraseUser
            <4> QED BY <1>6, <2>1, <4>3
        <3> QED BY <3>1, <3>2
    <2> QED BY <2>2, <2>3, <2>4
<1>11. ASSUME NEW c \in Clients, Crash(c)
       PROVE  Unique' /\ installed' <= 1 /\ \A d \in Clients : WorkOK(d)'
    <2>1. \A d \in Clients \ {c} : req'[d] = req[d]
        BY <1>2, <1>11, Moves
    <2>2. req'[c] = [Idle EXCEPT !.kind = req[c].kind, !.pc = "idle", !.me = req[c].me]
        BY <1>2, <1>11, Turned DEF Crash, Places
    <2>3. WorkOK(c)'
        BY <1>7, <2>2 DEF Idle
    <2> QED BY <1>5, <1>6, <1>11, <2>1, <2>3 DEF Crash, tables
<1>12. CASE UNCHANGED vars
    BY <1>4, <1>5, <1>6, <1>12 DEF vars, tables, OneByOne, Manages, Open
<1> QED BY <1>8, <1>9, <1>10, <1>11, <1>12 DEF Next

LEMMA InitUsers ==
    ASSUME Init
    PROVE  /\ Unique
           /\ installed <= 1
           /\ installed > 0 => Supers # {}
<1>1. CASE installed = 0 /\ users = [u \in UserIds |-> NoRow]
    BY <1>1 DEF Unique, There, NoRow
<1>2. CASE ~(installed = 0 /\ users = [u \in UserIds |-> NoRow])
    <2>1. PICK e \in Emails, f \in Emails, r \in Roles :
            /\ e # f
            /\ users = [u \in UserIds |->
                CASE u = 1 -> [state |-> "there", email |-> e, role |-> "super"]
                  [] u = 2 -> [state |-> "there", email |-> f, role |-> r]
                  [] OTHER -> NoRow]
        BY <1>2 DEF Init
    <2>2. installed = 1 /\ 1 \in UserIds /\ 2 \in UserIds
        BY <1>2, BoundsAssumption DEF Init, UserIds
    <2>3. users[1] = [state |-> "there", email |-> e, role |-> "super"]
        BY <2>1, <2>2
    <2>4. users[2] = [state |-> "there", email |-> f, role |-> r]
        BY <2>1, <2>2
    <2>5. ASSUME NEW u \in There PROVE u = 1 \/ u = 2
        <3>1. SUFFICES ASSUME u # 1, u # 2 PROVE users[u].state = "none"
            BY DEF There
        <3>2. users[u] = NoRow
            BY <2>1, <3>1 DEF There
        <3> QED BY <3>2 DEF NoRow
    <2>6. Unique
        BY <2>1, <2>3, <2>4, <2>5 DEF Unique
    <2>7. 1 \in Supers
        BY <2>2, <2>3 DEF Supers, There
    <2> QED BY <2>2, <2>6, <2>7
<1> QED BY <1>1, <1>2

LEMMA AlwaysInTurn == Spec => [](Grounded /\ InTurn)
<1>1. Init => Grounded /\ InTurn
    <2> SUFFICES ASSUME Init PROVE Grounded /\ InTurn
        OBVIOUS
    <2>1. \A c \in Clients : req[c].pc = "idle"
        BY DEF Init, Idle
    <2>2. OneByOne /\ \A c \in Clients : WorkOK(c)
        BY <2>1 DEF OneByOne, Manages, Open, WorkOK
    <2> QED BY <2>2, InitUsers, InitGrounded DEF InTurn
<1>2. Grounded /\ InTurn /\ [Next]_vars => (Grounded /\ InTurn)'
    BY GroundedNext, InTurnNext
<1> QED BY <1>1, <1>2, PTL DEF Spec

\* As long as requests that write users come one after another, an email has
\* one owner.
THEOREM EmailsStayUnique == Spec => []EmailsUnique
<1>1. Grounded /\ InTurn => EmailsUnique
    BY DEF InTurn, Unique, EmailsUnique
<1> QED BY <1>1, AlwaysInTurn, PTL

\* The application is installed a second time only if two installations, or
\* an installation and a change of the users, overlap.
THEOREM InstalledOnlyOnce == Spec => []InstalledOnce
<1>1. Grounded /\ InTurn => InstalledOnce
    BY DEF InTurn, InstalledOnce, Grounded, TypeOK
<1> QED BY <1>1, AlwaysInTurn, PTL

\* Somebody manages the users, or an installation is about to create who does.
Manned ==
    excuses = {} /\ installed > 0 /\ (\A c \in Clients : req[c].pc # "admin") => Supers # {}

LEMMA MannedNext ==
    ASSUME Grounded, InTurn, Manned, [Next]_vars
    PROVE  Manned'
<1>1. SUFFICES ASSUME excuses' = {}, installed' > 0, \A c \in Clients : req'[c].pc # "admin"
               PROVE  Supers' # {}
    BY DEF Manned
<1>2. TypeOK /\ Placed /\ users \in [UserIds -> Rows] /\ last \in Nat /\ installed \in Nat
      /\ req \in [Clients -> ReqType]
    BY BoundsAssumption DEF Grounded, TypeOK, ReqType
<1>3. ASSUME UNCHANGED <<installed, users>>, excuses = {}, \A c \in Clients : req[c].pc # "admin"
      PROVE  Supers' # {}
    <2>1. Supers # {}
        BY <1>1, <1>3 DEF Manned
    <2> QED BY <1>3, <2>1 DEF Supers, There
<1>4. ASSUME NEW c \in Clients, Arrive(c) PROVE Supers' # {}
    <2>1. PICK r \in Starts : Begin(c, r)
        BY <1>2, <1>4, Arrival
    <2>2. req'[c] = r /\ (\A d \in Clients \ {c} : req'[d] = req[d]) /\ ~Open(c)
        BY <1>2, <2>1 DEF Begin, Turn
    <2>3. excuses = {}
        BY <1>1, <2>1 DEF Begin
    <2>4. \A d \in Clients : req[d].pc # "admin"
        BY <1>1, <2>2 DEF Open
    <2> QED BY <1>3, <2>1, <2>3, <2>4 DEF Begin, tables
<1>5. ASSUME NEW c \in Clients, Crash(c) PROVE Supers' # {}
    <2>1. excuses = {} /\ req[c].kind # "install"
        BY <1>1, <1>5 DEF Crash
    <2>2. req[c].pc # "admin"
        BY <1>2, <2>1 DEF Placed, PlacedOK
    <2>3. \A d \in Clients : req[d].pc # "admin"
        BY <1>1, <1>2, <1>5, <2>2, Moves
    <2> QED BY <1>3, <1>5, <2>1, <2>3 DEF Crash, tables
<1>6. ASSUME NEW c \in Clients, Step(c) PROVE Supers' # {}
    <2>1. \A d \in Clients \ {c} : req'[d] = req[d]
        BY <1>2, <1>6, Moves
    <2>2. excuses = {}
        BY <1>1, <1>6, Touched DEF CreateAdmin, WriteUser, Demotes
    <2>3. CASE CreateAdmin(c)
        <3>1. Insert(req[c].email, "super")
            BY <1>1, <2>3 DEF CreateAdmin
        <3>2. last + 1 \in UserIds
              /\ users'[last + 1] = [state |-> "there", email |-> req[c].email, role |-> "super"]
            BY <1>2, <3>1, BoundsAssumption DEF Insert, UserIds
        <3>3. last + 1 \in Supers'
            BY <3>2 DEF Supers, There
        <3> QED BY <3>3
    <2>4. CASE ~CreateAdmin(c)
        <3>1. req[c].pc # "admin"
            BY <1>6, <2>4 DEF Step, IsInstalled, StoreConfigs, InsertUser, IsEmailUsed, EraseUser,
                ClearSessions, OpenSession, ForgetSessions, WriteUser, AuthSession, AuthUser,
                ReadUser, FindUser
        <3>2. \A d \in Clients : req[d].pc # "admin"
            BY <1>1, <2>1, <3>1
        <3>3. installed' = installed
            <4>1. ASSUME StoreConfigs(c) PROVE req'[c].pc = "admin"
                <5>1. req'[c] = [req[c] EXCEPT !.pc = "admin"]
                    BY <1>2, <4>1, Turned DEF StoreConfigs, Places
                <5> QED BY <1>2, <5>1 DEF ReqType
            <4> QED BY <1>1, <1>6, <4>1, Touched
        <3>4. Supers # {}
            BY <1>1, <2>2, <3>2, <3>3 DEF Manned
        <3>5. CASE InsertUser(c)
            <4>1. ASSUME NEW u \in UserIds, u <= last PROVE users'[u] = users[u]
                BY <1>2, <3>5, <4>1 DEF InsertUser, Insert, UserIds
            <4>2. \A u \in There : u <= last
                BY <1>2 DEF Grounded, Counted, There, UserIds
            <4> QED BY <3>4, <4>1, <4>2 DEF Supers, There
        <3>6. CASE EraseUser(c)
            <4>1. req[c].me \in Supers
                BY <2>2, <3>6 DEF EraseUser, InTurn, WorkOK
            <4>2. req[c].me \in Supers'
                BY <1>2, <3>6, <4>1 DEF EraseUser, Supers, There
            <4> QED BY <4>2
        <3>7. CASE WriteUser(c)
            <4> DEFINE r == req[c]
                       old == users[r.target]
                       new == [old EXCEPT !.email = IF r.email = r.row.email THEN @ ELSE r.email,
                                          !.role  = IF r.role = r.row.role THEN @ ELSE r.role]
            <4>1. PICK u \in Supers : TRUE
                BY <3>4
            <4>2. u \in UserIds /\ users[u].state = "there" /\ users[u].role = "super"
                BY DEF Supers, There
            <4>3. ASSUME r.target = u PROVE new.state = "there" /\ new.role \in Roles
                BY <1>2, <4>2, <4>3 DEF Rows, ReqType
            <4>4. ASSUME r.target = u, r.target \in There
                  PROVE  users'[u] = new /\ new.role # "regular"
                BY <1>1, <1>2, <2>2, <3>7, <4>2, <4>4 DEF WriteUser, Demotes
            <4>5. u \in Supers'
                <5>1. CASE r.target = u
                    <6>1. r.target \in There
                        BY <4>2, <5>1 DEF There
                    <6>2. users'[u].state = "there" /\ users'[u].role = "super"
                        BY <4>3, <4>4, <5>1, <6>1 DEF Roles
                    <6> QED BY <4>2, <6>2 DEF Supers, There
                <5>2. CASE r.target # u
                    <6>1. users'[u] = users[u]
                        BY <1>2, <3>7, <4>2, <5>2 DEF WriteUser
                    <6> QED BY <4>2, <6>1 DEF Supers, There
                <5> QED BY <5>1, <5>2
            <4> QED BY <4>5
        <3> QED BY <1>3, <1>6, <2>2, <2>4, <3>2, <3>3, <3>5, <3>6, <3>7, Touched
    <2> QED BY <2>3, <2>4
<1>7. CASE UNCHANGED vars
    BY <1>1, <1>3, <1>7 DEF vars, tables, history
<1> QED BY <1>4, <1>5, <1>6, <1>7 DEF Next

\* Somebody manages the users, whatever one request after another does.
THEOREM SomebodyStays == Spec => []SomebodyManages
<1>1. Init => Manned
    BY InitUsers DEF Manned
<1>2. Grounded /\ InTurn /\ Manned /\ [Next]_vars => Manned'
    BY MannedNext
<1>3. Grounded /\ Manned => SomebodyManages
    BY DEF Grounded, Manned, SomebodyManages, Placed, PlacedOK, Open
<1> QED BY <1>1, <1>2, <1>3, AlwaysInTurn, PTL DEF Spec

----------------------------------------------------------------------------
\* Log-ins and log-outs

\* A user who logs in from one browser at a time has no session between the
\* two statements of authenticate, and one after them.
LogsIn(c, u) == Open(c) /\ req[c].kind = "login" /\ req[c].me = u

SignedOK(u) ==
    /\ \A c, d \in Clients : LogsIn(c, u) /\ LogsIn(d, u) => c = d
    /\ \A c \in Clients : req[c].pc = "open" /\ req[c].me = u => sessions[u] = {}
    /\ sessions[u] = {} \/ \E k \in sessions[u] : sessions[u] = {k}

Signed == \A u \in UserIds \ contested : SignedOK(u)

LEMMA SignedNext ==
    ASSUME Grounded, Signed, [Next]_vars
    PROVE  Signed'
<1>1. TypeOK /\ Placed /\ req \in [Clients -> ReqType]
      /\ sessions \in [UserIds -> SUBSET (1..issued)] /\ users \in [UserIds -> Rows]
    BY DEF Grounded, TypeOK, ReqType
<1>2. ASSUME NEW u \in UserIds, SignedOK(u), sessions'[u] = sessions[u],
             \A d \in Clients : LogsIn(d, u)' => LogsIn(d, u),
             \A d \in Clients : req'[d].pc = "open" /\ req'[d].me = u =>
                                  req[d].pc = "open" /\ req[d].me = u
      PROVE  SignedOK(u)'
    BY <1>2 DEF SignedOK
<1>3. ASSUME NEW c \in Clients, Arrive(c), NEW u \in UserIds, SignedOK(u) PROVE SignedOK(u)'
    <2>1. PICK r \in Starts : Begin(c, r)
        BY <1>1, <1>3, Arrival
    <2>2. req'[c] = r /\ \A d \in Clients \ {c} : req'[d] = req[d]
        BY <1>1, <2>1 DEF Begin, Turn
    <2>3. r.me # u /\ r.pc # "open"
        BY DEF Starts, UserIds
    <2> QED BY <1>2, <1>3, <2>1, <2>2, <2>3 DEF Begin, tables, LogsIn, Open
<1>4. ASSUME NEW c \in Clients, Crash(c), NEW u \in UserIds, SignedOK(u) PROVE SignedOK(u)'
    <2>1. \A d \in Clients \ {c} : req'[d] = req[d]
        BY <1>1, <1>4, Moves
    <2>2. req'[c] = [Idle EXCEPT !.kind = req[c].kind, !.pc = "idle", !.me = req[c].me]
        BY <1>1, <1>4, Turned DEF Crash, Places
    <2>3. req'[c].pc = "idle"
        BY <2>2 DEF Idle
    <2> QED BY <1>2, <1>4, <2>1, <2>3 DEF Crash, tables, LogsIn, Open
<1>5. ASSUME NEW c \in Clients, Step(c), NEW u \in UserIds \ contested', SignedOK(u)
      PROVE  SignedOK(u)'
    <2> DEFINE o == req[c]  n == req'[c]
    <2>1. /\ ReachedOK(c) /\ Open(c) /\ n.kind = o.kind
          /\ \A d \in Clients \ {c} : req'[d] = req[d]
        BY <1>1, <1>5, Reached, Moves
    <2>2. PlacedOK(c)
        BY <1>1 DEF Placed
    <2>3. CASE FindUser(c)
        <3>1. sessions' = sessions
            BY <2>3 DEF FindUser, tables
        <3>2. n.pc # "open"
            BY <2>1, <2>3 DEF ReachedOK, ClearSessions, FindUser
        <3>3. CASE n.pc = "clear" /\ n.me = u
            <4>1. n.me = o.target /\ Open(c)'
                BY <2>1, <3>3 DEF ReachedOK, Open
            <4>2. u \notin contested /\ \A d \in Others(c, {"login"}) : req[d].me # u
                <5>1. ~End(c, "idle")
                    <6>1. SUFFICES ASSUME End(c, "idle") PROVE FALSE
                        OBVIOUS
                    <6>2. n = [Idle EXCEPT !.kind = o.kind, !.pc = "idle", !.me = o.me]
                        BY <1>1, <6>1, Turned DEF Places
                    <6> QED BY <3>3, <6>2 DEF Idle
                <5> QED BY <1>5, <2>3, <3>3, <4>1, <5>1 DEF FindUser
            <4>3. \A d \in Clients \ {c} : ~LogsIn(d, u)'
                BY <2>1, <4>2 DEF Others, LogsIn, Open
            <4>4. \A d \in Clients : req'[d].pc = "open" /\ req'[d].me = u =>
                                       req[d].pc = "open" /\ req[d].me = u
                BY <2>1, <3>2
            <4> QED BY <1>5, <3>1, <4>3, <4>4 DEF SignedOK
        <3>4. CASE ~(n.pc = "clear" /\ n.me = u)
            <4>1. LogsIn(c, u)' => LogsIn(c, u)
                BY <2>1, <2>3, <3>4 DEF ReachedOK, LogsIn, AuthSession, AuthUser, FindUser
            <4>2. \A d \in Clients \ {c} : LogsIn(d, u)' => LogsIn(d, u)
                BY <2>1 DEF LogsIn, Open
            <4> QED BY <1>2, <1>5, <2>1, <3>1, <3>2, <4>1, <4>2
        <3> QED BY <3>3, <3>4
    <2>4. CASE ~FindUser(c)
        <3>1. \A d \in Clients : LogsIn(d, u)' => LogsIn(d, u)
            <4>1. LogsIn(c, u)' => LogsIn(c, u)
                BY <2>1, <2>2, <2>4 DEF ReachedOK, LogsIn, AuthSession, AuthUser, PlacedOK
            <4> QED BY <2>1, <4>1 DEF LogsIn, Open
        <3>2. CASE ClearSessions(c)
            <4>1. n.me = o.me /\ o.kind = "login" /\ o.me \in UserIds
                BY <2>1, <2>2, <3>2 DEF ReachedOK, ClearSessions, PlacedOK, AuthSession, AuthUser,
                    FindUser
            <4>2. sessions'[u] = sessions[u] \/ sessions'[u] = {}
                BY <1>1, <3>2 DEF ClearSessions
            <4>3. n.pc = "open" /\ n.me = u => sessions'[u] = {}
                BY <1>1, <2>1 DEF ReachedOK
            <4>4. ASSUME NEW d \in Clients, req'[d].pc = "open", req'[d].me = u
                  PROVE  sessions'[u] = {}
                BY <1>5, <2>1, <4>2, <4>3, <4>4 DEF SignedOK
            <4>5. \A d, b \in Clients : LogsIn(d, u)' /\ LogsIn(b, u)' => d = b
                BY <1>5, <3>1 DEF SignedOK
            <4> QED BY <1>5, <4>2, <4>4, <4>5 DEF SignedOK
        <3>3. CASE OpenSession(c)
            <4>1. n.pc # "open" /\ o.pc = "open" /\ o.kind = "login"
                BY <2>1, <2>2, <3>3 DEF ReachedOK, OpenSession, ClearSessions, PlacedOK
            <4>2. CASE o.me = u
                <5>1. \A d \in Clients \ {c} : ~(req'[d].pc = "open" /\ req'[d].me = u)
                    <6>1. ASSUME NEW d \in Clients \ {c}, req[d].pc = "open", req[d].me = u
                          PROVE  FALSE
                        <7>1. LogsIn(d, u) /\ LogsIn(c, u)
                            BY <1>1, <2>1, <4>1, <4>2, <6>1 DEF LogsIn, Open, Placed, PlacedOK
                        <7> QED BY <1>5, <7>1 DEF SignedOK
                    <6> QED BY <2>1, <6>1
                <5>2. sessions[u] = {}
                    BY <1>5, <4>1, <4>2 DEF SignedOK
                <5>3. sessions'[u] = {} \/ sessions'[u] = {issued + 1}
                    BY <1>1, <3>3, <4>2, <5>2 DEF OpenSession
                <5>4. \A d, b \in Clients : LogsIn(d, u)' /\ LogsIn(b, u)' => d = b
                    BY <1>5, <3>1 DEF SignedOK
                <5> QED BY <4>1, <5>1, <5>3, <5>4 DEF SignedOK
            <4>3. CASE o.me # u
                <5>1. sessions'[u] = sessions[u]
                    BY <1>1, <3>3, <4>3 DEF OpenSession
                <5> QED BY <1>2, <1>5, <2>1, <3>1, <4>1, <5>1
            <4> QED BY <4>2, <4>3
        <3>4. CASE ~ClearSessions(c) /\ ~OpenSession(c)
            <4>1. n.pc # "open"
                BY <2>1, <3>4 DEF ReachedOK
            <4>2. sessions'[u] = sessions[u] \/ sessions'[u] = {}
                BY <1>1, <1>5, <3>4, Touched DEF EraseUser, ForgetSessions
            <4>3. \A d, b \in Clients : LogsIn(d, u)' /\ LogsIn(b, u)' => d = b
                BY <1>5, <3>1 DEF SignedOK
            <4> QED BY <1>5, <2>1, <4>1, <4>2, <4>3 DEF SignedOK
        <3> QED BY <3>2, <3>3, <3>4
    <2> QED BY <2>3, <2>4
<1>6. contested \subseteq contested'
    <2>1. ASSUME NEW c \in Clients, NEW r, Begin(c, r) PROVE contested' = contested
        BY <2>1 DEF Begin
    <2>2. ASSUME NEW c \in Clients, Step(c) PROVE contested \subseteq contested'
        BY <2>2, Touched DEF FindUser
    <2> QED BY <1>1, <2>1, <2>2, Arrival DEF Next, Crash, vars, history
<1>7. SUFFICES ASSUME NEW u \in UserIds \ contested' PROVE SignedOK(u)'
    BY DEF Signed
<1>8. SignedOK(u)
    BY <1>6 DEF Signed
<1>9. CASE UNCHANGED vars
    BY <1>8, <1>9 DEF vars, tables, SignedOK, LogsIn, Open
<1> QED BY <1>3, <1>4, <1>5, <1>8, <1>9 DEF Next

LEMMA InitSigned == Init => Signed
<1> SUFFICES ASSUME Init PROVE Signed
    OBVIOUS
<1>1. \A c \in Clients : req[c].pc = "idle"
    BY DEF Init, Idle
<1>2. ASSUME NEW u \in UserIds
      PROVE  sessions[u] = {} \/ \E k \in sessions[u] : sessions[u] = {k}
    BY DEF Init
<1> QED BY <1>1, <1>2 DEF Signed, SignedOK, LogsIn, Open

\* Whoever logs in from one browser at a time has one session.
THEOREM SessionsStaySingle == Spec => []OneSession
<1>1. Grounded /\ Signed /\ [Next]_vars => Signed'
    BY SignedNext
<1>2. Signed => OneSession
    <2>1. ASSUME NEW u \in UserIds, SignedOK(u) PROVE Cardinality(sessions[u]) <= 1
        <3>1. CASE sessions[u] = {}
            BY <3>1, FS_EmptySet
        <3>2. ASSUME NEW k \in sessions[u], sessions[u] = {k}
              PROVE  Cardinality(sessions[u]) <= 1
            <4>1. Cardinality({k}) = 1
                BY FS_Singleton
            <4> QED BY <3>2, <4>1
        <3> QED BY <2>1, <3>1, <3>2 DEF SignedOK
    <2> QED BY <2>1 DEF Signed, OneSession
<1> QED BY <1>1, <1>2, InitSigned, AlwaysGrounded, PTL DEF Spec

\* The same for the browser whose log-in or log-out nobody came near.
QuietOK(c) ==
    /\ req[c].kind \in {"login", "logout"}
    /\ \A d \in Clients \ {c} : Open(d) => req[d].kind \notin Signing
    /\ req[c].pc = "open" => sessions[req[c].me] = {}

Quieted == \A c \in quiet : QuietOK(c)

LEMMA QuietNext ==
    ASSUME Grounded, Quieted, LastWordCounts, [Next]_vars
    PROVE  Quieted' /\ LastWordCounts'
<1>1. TypeOK /\ Placed /\ req \in [Clients -> ReqType] /\ quiet \subseteq Clients
      /\ sessions \in [UserIds -> SUBSET (1..issued)]
      /\ cookie \in [Clients -> [user : {0} \cup UserIds, token : 0..issued]]
    BY DEF Grounded, TypeOK, ReqType
<1> DEFINE Word(c) ==
      req[c].pc = "ok" =>
        /\ req[c].kind = "login" =>
             cookie[c].user = req[c].me /\ sessions[req[c].me] = {cookie[c].token}
        /\ req[c].kind = "logout" =>
             cookie[c] = NoCookie /\ (req[c].me # 0 => sessions[req[c].me] = {})
<1>2. ASSUME NEW c \in quiet PROVE QuietOK(c) /\ Word(c)
    BY <1>2 DEF Quieted, LastWordCounts
<1>3. SUFFICES ASSUME NEW c \in quiet' PROVE QuietOK(c)' /\ Word(c)'
    BY DEF Quieted, LastWordCounts
<1>4. ASSUME c \in quiet, c \in Clients, req'[c] = req[c], cookie'[c] = cookie[c],
             sessions' = sessions,
             \A d \in Clients \ {c} : Open(d)' => req'[d].kind \notin Signing
      PROVE  QuietOK(c)' /\ Word(c)'
    BY <1>2, <1>4 DEF QuietOK
<1>5. ASSUME NEW b \in Clients, Arrive(b) PROVE QuietOK(c)' /\ Word(c)'
    <2>1. PICK r \in Starts : Begin(b, r)
        BY <1>1, <1>5, Arrival
    <2>2. /\ req'[b] = r /\ (\A d \in Clients \ {b} : req'[d] = req[d])
          /\ sessions' = sessions /\ cookie' = cookie
        BY <1>1, <2>1 DEF Begin, Turn, tables
    <2>3. CASE c = b
        <3>1. r.kind \in {"login", "logout"} /\ Others(b, Signing) = {}
            BY <2>1, <2>3 DEF Begin, Signing
        <3>2. r.pc \notin {"open", "ok"}
            BY DEF Starts
        <3>3. \A d \in Clients \ {c} : Open(d)' => req'[d].kind \notin Signing
            BY <2>2, <2>3, <3>1 DEF Others, Open
        <3> QED BY <2>2, <2>3, <3>1, <3>2, <3>3 DEF QuietOK
    <2>4. CASE c # b
        <3>1. c \in quiet /\ r.kind \notin Signing
            BY <2>1, <2>4 DEF Begin
        <3>2. \A d \in Clients \ {c} : Open(d)' => req'[d].kind \notin Signing
            BY <1>2, <2>2, <3>1 DEF QuietOK, Open
        <3> QED BY <1>1, <1>4, <2>2, <2>4, <3>1, <3>2
    <2> QED BY <2>3, <2>4
<1>6. ASSUME NEW b \in Clients, Step(b) \/ Crash(b) PROVE QuietOK(c)' /\ Word(c)'
    <2>1. /\ Open(b) /\ req'[b].kind = req[b].kind /\ quiet' = quiet
          /\ \A d \in Clients \ {b} : req'[d] = req[d]
        BY <1>1, <1>6, Moves
    <2>2. c \in quiet /\ c \in Clients /\ QuietOK(c) /\ Word(c) /\ PlacedOK(b)
        BY <1>1, <1>2, <2>1 DEF Placed
    <2>3. \A d \in Clients \ {c} : Open(d)' => req'[d].kind \notin Signing
        BY <2>1, <2>2 DEF QuietOK, Open
    <2>4. CASE c # b
        <3>1. req[b].kind \notin Signing
            BY <2>1, <2>2, <2>4 DEF QuietOK
        <3>2. sessions' = sessions /\ cookie'[c] = cookie[c]
            <4>1. req[b].pc \notin {"erase", "clear", "open", "forget"}
                BY <2>2, <3>1 DEF PlacedOK, Signing
            <4> QED BY <1>6, <4>1, Touched DEF EraseUser, ClearSessions, OpenSession,
                ForgetSessions, Crash, tables
        <3> QED BY <1>4, <2>1, <2>2, <2>3, <2>4, <3>2
    <2>5. CASE c = b
        <3> DEFINE o == req[c]  n == req'[c]
        <3>1. n.kind = o.kind /\ o.kind \in {"login", "logout"}
            BY <2>1, <2>2, <2>5 DEF QuietOK
        <3>2. n.pc = "open" => sessions'[n.me] = {}
            <4>1. ASSUME n.pc = "open" PROVE Step(c)
                <5>1. ASSUME Crash(c) PROVE n.pc = "idle"
                    <6>1. n = [Idle EXCEPT !.kind = o.kind, !.pc = "idle", !.me = o.me]
                        BY <1>1, <5>1, Turned DEF Crash, Places
                    <6> QED BY <6>1 DEF Idle
                <5> QED BY <1>6, <2>5, <4>1, <5>1
            <4>2. ASSUME n.pc = "open" PROVE n.me \in UserIds
                <5>1. Placed'
                    BY GroundedNext DEF Grounded
                <5> QED BY <2>2, <4>2, <5>1 DEF Placed, PlacedOK
            <4>3. ASSUME n.pc = "open" PROVE sessions' = [sessions EXCEPT ![n.me] = {}]
                BY <1>1, <2>2, <4>1, <4>3, Reached DEF ReachedOK
            <4> QED BY <1>1, <4>2, <4>3
        <3>3. QuietOK(c)'
            BY <2>3, <3>1, <3>2 DEF QuietOK
        <3>4. Word(c)'
            <4>1. SUFFICES ASSUME n.pc = "ok" PROVE Word(c)'
                OBVIOUS
            <4>2. ASSUME NEW pc \in Places, End(c, pc) PROVE n.pc = pc /\ n.me = o.me
                <5>1. n = [Idle EXCEPT !.kind = o.kind, !.pc = pc, !.me = o.me]
                    BY <1>1, <2>2, <4>2, Turned
                <5> QED BY <5>1 DEF Idle
            <4>3. ASSUME NEW pc \in Places, Goto(c, pc) PROVE n.pc = pc
                <5>1. n = [o EXCEPT !.pc = pc]
                    BY <1>1, <2>2, <4>3, Turned
                <5> QED BY <1>1, <2>2, <5>1 DEF ReqType
            <4>4. Step(c)
                BY <1>6, <2>5, <4>1, <4>2 DEF Crash, Places
            <4>5. OpenSession(c) \/ ForgetSessions(c)
                <5>1. o.pc \in {"session", "user", "find", "clear", "open", "forget"}
                    BY <2>1, <2>2, <2>5, <3>1, <4>4 DEF PlacedOK, Step, IsInstalled, StoreConfigs,
                        CreateAdmin, InsertUser, IsEmailUsed, EraseUser, ClearSessions, OpenSession,
                        ForgetSessions, WriteUser, AuthSession, AuthUser, ReadUser, FindUser
                <5>2. ~ClearSessions(c)
                    BY <4>1, <4>2, <4>3 DEF ClearSessions, Places
                <5>3. ~AuthSession(c) /\ ~AuthUser(c) /\ ~FindUser(c)
                    <6>1. ASSUME NEW r, Turn(c, r) PROVE n = r
                        BY <1>1, <2>2, <6>1, Turned
                    <6>2. ASSUME NEW u, NEW t, NEW pc \in Places \ {"ok"},
                                 \/ Turn(c, [o EXCEPT !.pc = pc, !.me = u])
                                 \/ Turn(c, [o EXCEPT !.pc = pc, !.target = t])
                          PROVE  FALSE
                        <7>1. o \in ReqType
                            BY <1>1, <2>2
                        <7>2. n.pc = pc
                            BY <6>1, <6>2, <7>1 DEF ReqType
                        <7> QED BY <4>1, <7>2
                    <6>3. ~AuthSession(c)
                        BY <4>1, <4>2, <4>3, <6>2 DEF AuthSession, Places
                    <6>4. ~AuthUser(c)
                        BY <4>1, <4>2, <4>3, <6>2 DEF AuthUser, Places
                    <6>5. ~FindUser(c)
                        BY <4>1, <4>2, <4>3, <6>2 DEF FindUser, Places
                    <6> QED BY <6>3, <6>4, <6>5
                <5> QED BY <4>4, <5>1, <5>2, <5>3 DEF Step, IsInstalled, StoreConfigs,
                    CreateAdmin, InsertUser, IsEmailUsed, EraseUser, WriteUser, ReadUser
            <4>6. CASE OpenSession(c)
                <5>1. o.pc = "open" /\ o.kind = "login" /\ o.me \in UserIds
                    BY <2>2, <2>5, <4>6 DEF OpenSession, PlacedOK
                <5>2. o.me \in There
                    BY <4>1, <4>2, <4>6 DEF OpenSession, Places
                <5>3. sessions[o.me] = {}
                    BY <2>2, <5>1 DEF QuietOK
                <5>4. /\ sessions'[o.me] = {issued + 1}
                      /\ cookie'[c] = [user |-> o.me, token |-> issued + 1]
                    BY <1>1, <2>2, <4>6, <5>1, <5>2, <5>3 DEF OpenSession
                <5>5. n.me = o.me
                    BY <4>2, <4>6, <5>2 DEF OpenSession, Places
                <5> QED BY <3>1, <5>1, <5>4, <5>5
            <4>7. CASE ForgetSessions(c)
                <5>1. o.pc = "forget" /\ o.kind = "logout"
                    BY <2>2, <2>5, <4>7 DEF ForgetSessions, PlacedOK
                <5>2. n.me = o.me /\ n.me \in {0} \cup UserIds
                    BY <1>1, <2>2, <4>2, <4>7 DEF ForgetSessions, Places, ReqType
                <5>3. cookie'[c] = NoCookie
                    BY <1>1, <2>2, <4>7 DEF ForgetSessions
                <5>4. n.me # 0 => sessions'[n.me] = {}
                    BY <4>7, <5>2 DEF ForgetSessions
                <5> QED BY <3>1, <5>1, <5>3, <5>4
            <4> QED BY <4>5, <4>6, <4>7
        <3> QED BY <3>3, <3>4
    <2> QED BY <2>4, <2>5
<1>7. CASE UNCHANGED vars
    BY <1>1, <1>2, <1>7 DEF vars, tables, history, QuietOK, Open
<1> QED BY <1>5, <1>6, <1>7 DEF Next

\* A log-in or log-out that nobody came near leaves what it says.
THEOREM LastWordStays == Spec => []LastWordCounts
<1>1. Init => Quieted /\ LastWordCounts
    BY DEF Init, Quieted, LastWordCounts
<1>2. Grounded /\ Quieted /\ LastWordCounts /\ [Next]_vars => (Quieted /\ LastWordCounts)'
    BY QuietNext
<1> QED BY <1>1, <1>2, AlwaysGrounded, PTL DEF Spec

=============================================================================
