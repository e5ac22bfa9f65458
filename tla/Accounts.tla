------------------------------ MODULE Accounts ------------------------------
(***************************************************************************)
(* The installation of the application, its users and their sessions, and  *)
(* the requests that create, change and delete them (misc_controller.ex,   *)
(* user_controller.ex, profile_controller.ex, auth_service.ex).  A step is *)
(* one statement on the database; no request holds a transaction over two. *)
(*                                                                         *)
(* No column is unique, although the migrations say so (an option of add   *)
(* that PostgreSQL's adapter does not know): an email is looked up, then   *)
(* written.  Sessions have a foreign key on their user.                    *)
(*                                                                         *)
(* Left out: names, passwords (each user has one of their own), the other  *)
(* settings, the time a session expires (nothing reads it) and API keys.   *)
(***************************************************************************)
EXTENDS Integers, FiniteSets

CONSTANTS
    Clients,        \* browsers, one request at a time each
    Emails,
    MaxUsers,       \* bound: users ever inserted
    MaxRequests,    \* bound: requests ever sent
    MaxCrashes      \* bound: requests that end with their process

UserIds == 1..MaxUsers
Roles   == {"super", "regular"}

ASSUME EmailsAssumption == "none" \notin Emails /\ Emails # {}
ASSUME BoundsAssumption ==
    MaxUsers \in Nat \ {0} /\ MaxRequests \in Nat /\ MaxCrashes \in Nat

VARIABLES
    installed,  \* rows of configs with the name is_installed
    users,      \* the rows of users, by id
    last,       \* users inserted so far
    sessions,   \* the sessions of each user
    issued,     \* sessions inserted so far
    cookie,     \* the session each browser has in its cookie
    req,        \* the request of each browser, or its last one
    requests,   \* sent so far
    crashes,
    excuses,    \* history: what happened that nothing in the code prevents
    contested,  \* history: users who logged in twice at the same time
    quiet       \* history: browsers alone with their log-in or log-out

tables  == <<installed, users, last, sessions, issued>>
history == <<excuses, contested, quiet>>
vars    == <<tables, cookie, req, requests, crashes, history>>

NoRow    == [state |-> "none", email |-> "none", role |-> "regular"]
NoCookie == [user |-> 0, token |-> 0]

There       == {u \in UserIds : users[u].state = "there"}
Supers      == {u \in There : users[u].role = "super"}
Owners(e)   == {u \in There : users[u].email = e}

\* What is asked for (target, email, role; fits: the model of the user takes
\* the name), who asks once that is known, and the row that was read.
Idle == [kind |-> "none", pc |-> "idle", target |-> 0, email |-> "none",
         role |-> "regular", fits |-> TRUE, me |-> 0, row |-> NoRow]

Open(c) == req[c].pc \notin {"idle", "ok"}

Managing == {"install", "create", "update", "profile", "delete"}
Signing  == {"login", "logout", "delete"}

\* Before the installation, or after it with two users that are logged in
\* from two browsers.
Init ==
    /\ \/ /\ installed = 0 /\ last = 0 /\ issued = 0
          /\ users = [u \in UserIds |-> NoRow]
          /\ sessions = [u \in UserIds |-> {}]
          /\ cookie = [c \in Clients |-> NoCookie]
       \/ /\ installed = 1 /\ last = 2 /\ issued = 2 /\ MaxUsers >= 2
          /\ \E e, f \in Emails, r \in Roles :
               /\ e # f
               /\ users = [u \in UserIds |->
                    CASE u = 1 -> [state |-> "there", email |-> e, role |-> "super"]
                      [] u = 2 -> [state |-> "there", email |-> f, role |-> r]
                      [] OTHER -> NoRow]
          /\ sessions = [u \in UserIds |-> IF u <= 2 THEN {u} ELSE {}]
          /\ \E c, d \in Clients :
               /\ c # d
               /\ cookie = [b \in Clients |->
                    CASE b = c -> [user |-> 1, token |-> 1]
                      [] b = d -> [user |-> 2, token |-> 2]
                      [] OTHER -> NoCookie]
    /\ req = [c \in Clients |-> Idle]
    /\ requests = 0 /\ crashes = 0
    /\ excuses = {} /\ contested = {} /\ quiet = {}

----------------------------------------------------------------------------
\* Requests arrive

Others(c, kinds) == {d \in Clients \ {c} : Open(d) /\ req[d].kind \in kinds}

Turn(c, r) == req' = [req EXCEPT ![c] = r]

Begin(c, r) ==
    /\ ~Open(c) /\ requests < MaxRequests
    /\ requests' = requests + 1
    /\ Turn(c, r)
    /\ excuses' = IF r.kind \in Managing /\ Others(c, Managing) # {}
                    THEN excuses \cup {"overlap"} ELSE excuses
    /\ quiet' = (IF r.kind \in Signing THEN {} ELSE quiet \ {c}) \cup
                (IF r.kind \in {"login", "logout"} /\ Others(c, Signing) = {}
                   THEN {c} ELSE {})
    /\ UNCHANGED <<tables, cookie, crashes, contested>>

Install(c, e, fits) ==
    Begin(c, [Idle EXCEPT !.kind = "install", !.pc = "is_installed",
                          !.email = e, !.fits = fits])

\* With the email and the password of one user.
Login(c, u) ==
    /\ u \in There
    /\ Begin(c, [Idle EXCEPT !.kind = "login", !.pc = "find", !.target = u,
                             !.email = users[u].email])

\* What starts with the session in the cookie.
Ask(c, kind, u, e, r) ==
    Begin(c, [Idle EXCEPT !.kind = kind, !.pc = "session", !.target = u,
                          !.email = e, !.role = r])

Logout(c) == Ask(c, "logout", 0, "none", "regular")

CreateUser(c, e, r) == Ask(c, "create", 0, e, r)

UpdateUser(c, u, e, r) == u <= last /\ Ask(c, "update", u, e, r)

UpdateProfile(c, e) == Ask(c, "profile", 0, e, "regular")

DeleteUser(c, u) == u <= last /\ Ask(c, "delete", u, "none", "regular")

----------------------------------------------------------------------------
\* Their steps

Goto(c, pc) == Turn(c, [req[c] EXCEPT !.pc = pc])

\* Answered, or raised: what was asked for no longer matters.
End(c, pc) ==
    Turn(c, [Idle EXCEPT !.kind = req[c].kind, !.pc = pc, !.me = req[c].me])

Insert(e, r) ==
    /\ last < MaxUsers /\ last' = last + 1
    /\ users' = [users EXCEPT ![last + 1] =
                   [state |-> "there", email |-> e, role |-> r]]

\* Fault: whoever asks may install.
NotAsked(c) ==
    /\ req[c].pc = "is_installed"
    /\ Goto(c, "configs")
    /\ UNCHANGED <<tables, cookie, requests, crashes, history>>

IsInstalled(c) ==
    /\ req[c].pc = "is_installed"
    /\ IF installed > 0 THEN End(c, "idle") ELSE Goto(c, "configs")
    /\ UNCHANGED <<tables, cookie, requests, crashes, history>>

\* is_installed is the first row; the others follow without being looked at.
StoreConfigs(c) ==
    /\ req[c].pc = "configs"
    /\ installed' = installed + 1
    /\ Goto(c, "admin")
    /\ UNCHANGED <<users, last, sessions, issued, cookie, requests, crashes,
                   history>>

\* Fault: the first user is one like any other.
CreateAdminRegular(c) ==
    /\ req[c].pc = "admin"
    /\ IF req[c].fits
         THEN Insert(req[c].email, "regular") /\ UNCHANGED excuses
         ELSE excuses' = excuses \cup {"refusal"} /\ UNCHANGED <<users, last>>
    /\ End(c, "ok")
    /\ UNCHANGED <<installed, sessions, issued, cookie, requests, crashes,
                   contested, quiet>>

\* Whether the administrator was inserted or refused, the answer is the same.
CreateAdmin(c) ==
    /\ req[c].pc = "admin"
    /\ IF req[c].fits
         THEN Insert(req[c].email, "super") /\ UNCHANGED excuses
         ELSE excuses' = excuses \cup {"refusal"} /\ UNCHANGED <<users, last>>
    /\ End(c, "ok")
    /\ UNCHANGED <<installed, sessions, issued, cookie, requests, crashes,
                   contested, quiet>>

\* The middleware looks the session up ...
AuthSession(c) ==
    LET k     == cookie[c]
        valid == k.user # 0 /\ k.token \in sessions[k.user]
    IN  /\ req[c].pc = "session"
        /\ \/ valid /\ Turn(c, [req[c] EXCEPT !.pc = "user", !.me = k.user])
           \/ ~valid /\ req[c].kind = "logout" /\ Goto(c, "forget")
           \/ ~valid /\ req[c].kind # "logout" /\ End(c, "idle")
        /\ UNCHANGED <<tables, cookie, requests, crashes, history>>

\* ... and then its user; the actions on users are for supers.
AuthUser(c) ==
    LET u    == req[c].me
        kind == req[c].kind
    IN  /\ req[c].pc = "user"
        /\ \/ kind = "logout" /\ u \in There /\ Goto(c, "forget")
           \/ /\ kind = "logout" /\ u \notin There
              /\ Turn(c, [req[c] EXCEPT !.pc = "forget", !.me = 0])
           \/ /\ kind = "profile" /\ u \in There
              /\ Turn(c, [req[c] EXCEPT !.pc = "email", !.target = u])
           \/ kind \in {"create", "update"} /\ u \in Supers /\ Goto(c, "email")
           \/ kind = "delete" /\ u \in Supers /\ Goto(c, "erase")
           \/ /\ kind # "logout" /\ u \notin (IF kind = "profile" THEN There ELSE Supers)
              /\ End(c, "idle")
        /\ UNCHANGED <<tables, cookie, requests, crashes, history>>

\* Fault: the email is not looked up.
EmailNotUsed(c) ==
    /\ req[c].pc = "email"
    /\ Goto(c, IF req[c].kind = "create" THEN "insert" ELSE "read")
    /\ UNCHANGED <<tables, cookie, requests, crashes, history>>

\* One of the owners of the email is looked up, if there is one.
IsEmailUsed(c) ==
    LET r == req[c]
    IN  /\ r.pc = "email"
        /\ \/ /\ \E v \in Owners(r.email) : r.kind = "create" \/ v # r.target
              /\ End(c, "idle")
           \/ /\ Owners(r.email) = {} \/ (r.kind # "create" /\ r.target \in Owners(r.email))
              /\ Goto(c, IF r.kind = "create" THEN "insert" ELSE "read")
        /\ UNCHANGED <<tables, cookie, requests, crashes, history>>

InsertUser(c) ==
    /\ req[c].pc = "insert"
    /\ Insert(req[c].email, req[c].role)
    /\ End(c, "ok")
    /\ UNCHANGED <<installed, sessions, issued, cookie, requests, crashes, history>>

\* update_user reads the row; a profile keeps the role it has ...
ReadUser(c) ==
    LET r == req[c]
        u == users[r.target]
    IN  /\ r.pc = "read"
        /\ IF r.target \in There
             THEN Turn(c, [r EXCEPT !.pc = "write", !.row = u,
                               !.role = IF r.kind = "profile" THEN u.role ELSE @])
             ELSE End(c, "idle")
        /\ UNCHANGED <<tables, cookie, requests, crashes, history>>

Demotes(c, new) ==
    excuses' = IF users[req[c].target].role = "super" /\ new.role = "regular"
                 THEN excuses \cup {"demotion"} ELSE excuses

\* Fault: all columns are written.
WriteAll(c) ==
    LET r   == req[c]
        new == [users[r.target] EXCEPT !.email = r.email, !.role = r.role]
    IN  /\ r.pc = "write"
        /\ IF r.target \in There
             THEN users' = [users EXCEPT ![r.target] = new] /\ Demotes(c, new)
             ELSE UNCHANGED <<users, excuses>>
        /\ End(c, "ok")
        /\ UNCHANGED <<installed, last, sessions, issued, cookie, requests, crashes,
                       contested, quiet>>

\* ... and writes the columns that differ from what was read.  A row that is
\* gone makes it raise.
WriteUser(c) ==
    LET r   == req[c]
        old == users[r.target]
        new == [old EXCEPT !.email = IF r.email = r.row.email THEN @ ELSE r.email,
                           !.role  = IF r.role = r.row.role THEN @ ELSE r.role]
    IN  /\ r.pc = "write"
        /\ IF r.target \in There
             THEN users' = [users EXCEPT ![r.target] = new] /\ Demotes(c, new)
             ELSE UNCHANGED <<users, excuses>>
        /\ End(c, "ok")
        /\ UNCHANGED <<installed, last, sessions, issued, cookie, requests, crashes,
                       contested, quiet>>

\* "User can't delete his own account!"  The sessions go with the user.
EraseUser(c) ==
    LET u == req[c].target
    IN  /\ req[c].pc = "erase"
        /\ IF u # req[c].me /\ u \in There
             THEN /\ users' = [users EXCEPT ![u] = [NoRow EXCEPT !.state = "gone"]]
                  /\ sessions' = [sessions EXCEPT ![u] = {}]
             ELSE UNCHANGED <<users, sessions>>
        /\ End(c, "ok")
        /\ UNCHANGED <<installed, last, issued, cookie, requests, crashes, history>>

\* One user with the email is found; the password is that of the target.
FindUser(c) ==
    LET u == req[c].target
    IN  /\ req[c].pc = "find"
        /\ \/ /\ u \in Owners(req[c].email)
              /\ Turn(c, [req[c] EXCEPT !.pc = "clear", !.me = u])
              /\ contested' = IF \E d \in Others(c, {"login"}) : req[d].me = u
                                THEN contested \cup {u} ELSE contested
           \/ /\ Owners(req[c].email) \ {u} # {} \/ Owners(req[c].email) = {}
              /\ End(c, "idle") /\ UNCHANGED contested
        /\ UNCHANGED <<tables, cookie, requests, crashes, excuses, quiet>>

\* Fault: old sessions stay.
ClearNothing(c) ==
    /\ req[c].pc = "clear"
    /\ IF req[c].me \in There THEN Goto(c, "open") ELSE End(c, "idle")
    /\ UNCHANGED <<tables, cookie, requests, crashes, history>>

\* "Clear old sessions"; before that last_seen is written, which raises for a
\* user who is gone.
ClearSessions(c) ==
    /\ req[c].pc = "clear"
    /\ IF req[c].me \in There
         THEN /\ sessions' = [sessions EXCEPT ![req[c].me] = {}]
              /\ Goto(c, "open")
         ELSE End(c, "idle") /\ UNCHANGED sessions
    /\ UNCHANGED <<installed, users, last, issued, cookie, requests, crashes, history>>

\* Fault: the table has no foreign key.
OpenAnyway(c) ==
    LET u == req[c].me
    IN  /\ req[c].pc = "open"
        /\ issued' = issued + 1
        /\ sessions' = [sessions EXCEPT ![u] = @ \cup {issued + 1}]
        /\ cookie' = [cookie EXCEPT ![c] = [user |-> u, token |-> issued + 1]]
        /\ End(c, "ok")
        /\ UNCHANGED <<installed, users, last, requests, crashes, history>>

\* The new session, which needs its user, and the cookie with the answer.
OpenSession(c) ==
    LET u == req[c].me
    IN  /\ req[c].pc = "open"
        /\ IF u \in There
             THEN /\ issued' = issued + 1
                  /\ sessions' = [sessions EXCEPT ![u] = @ \cup {issued + 1}]
                  /\ cookie' = [cookie EXCEPT ![c] = [user |-> u, token |-> issued + 1]]
                  /\ End(c, "ok")
             ELSE End(c, "idle") /\ UNCHANGED <<issued, sessions, cookie>>
        /\ UNCHANGED <<installed, users, last, requests, crashes, history>>

\* Fault: only the cookie goes.
ForgetCookie(c) ==
    /\ req[c].pc = "forget"
    /\ cookie' = [cookie EXCEPT ![c] = NoCookie]
    /\ End(c, "ok")
    /\ UNCHANGED <<tables, requests, crashes, history>>

\* All sessions of who is logged in, and the cookie in any case.
ForgetSessions(c) ==
    /\ req[c].pc = "forget"
    /\ sessions' = [u \in UserIds |-> IF u = req[c].me THEN {} ELSE sessions[u]]
    /\ cookie' = [cookie EXCEPT ![c] = NoCookie]
    /\ End(c, "ok")
    /\ UNCHANGED <<installed, users, last, issued, requests, crashes, history>>

\* The process of a request ends where it is; nobody goes on with it.
Crash(c) ==
    /\ Open(c) /\ crashes < MaxCrashes
    /\ crashes' = crashes + 1
    /\ excuses' = IF req[c].kind = "install" THEN excuses \cup {"crash"} ELSE excuses
    /\ End(c, "idle")
    /\ UNCHANGED <<tables, cookie, requests, contested, quiet>>

----------------------------------------------------------------------------
Arrive(c) ==
    \/ Logout(c)
    \/ \E e \in Emails, fits \in BOOLEAN : Install(c, e, fits)
    \/ \E e \in Emails : UpdateProfile(c, e)
    \/ \E e \in Emails, r \in Roles :
         \/ CreateUser(c, e, r)
         \/ \E u \in UserIds : UpdateUser(c, u, e, r)
    \/ \E u \in UserIds : Login(c, u) \/ DeleteUser(c, u)

Step(c) ==
    \/ IsInstalled(c) \/ StoreConfigs(c) \/ CreateAdmin(c)
    \/ AuthSession(c) \/ AuthUser(c)
    \/ IsEmailUsed(c) \/ InsertUser(c) \/ ReadUser(c) \/ WriteUser(c) \/ EraseUser(c)
    \/ FindUser(c) \/ ClearSessions(c) \/ OpenSession(c) \/ ForgetSessions(c)

Next == \E c \in Clients : Arrive(c) \/ Step(c) \/ Crash(c)

Spec == Init /\ [][Next]_vars

----------------------------------------------------------------------------
\* Properties

Rows == [state : {"none", "there", "gone"}, email : Emails \cup {"none"}, role : Roles]

Kinds == {"none", "login", "logout"} \cup Managing

Places == {"idle", "ok", "is_installed", "configs", "admin", "session", "user",
           "email", "insert", "read", "write", "erase", "find", "clear", "open",
           "forget"}

\* The variables have the types of the tables and of the requests.
TypeOK ==
    /\ installed \in Nat /\ last \in 0..MaxUsers /\ issued \in Nat
    /\ users \in [UserIds -> Rows]
    /\ sessions \in [UserIds -> SUBSET (1..issued)]
    /\ cookie \in [Clients -> [user : {0} \cup UserIds, token : 0..issued]]
    /\ req \in [Clients ->
         [kind : Kinds, pc : Places, target : {0} \cup UserIds,
          email : Emails \cup {"none"}, role : Roles, fits : BOOLEAN,
          me : {0} \cup UserIds, row : Rows]]
    /\ requests \in 0..MaxRequests /\ crashes \in 0..MaxCrashes
    /\ excuses \subseteq {"overlap", "demotion", "crash", "refusal"}
    /\ contested \subseteq UserIds /\ quiet \subseteq Clients

\* An email has one owner, unless two requests that write users overlapped
\* (is_email_used? against insert and update).
EmailsUnique ==
    "overlap" \notin excuses =>
        \A u, v \in There : users[u].email = users[v].email => u = v

\* The application is installed once, unless two installations overlapped
\* (is_installed against store_configs).
InstalledOnce == installed > 1 => "overlap" \in excuses

\* After an installation there is always somebody who manages users, unless
\* the administrator was refused, the installation crashed, a super was made
\* a regular user, or two requests overlapped: two supers may delete each
\* other ("User can't delete his own account!").
SomebodyManages ==
    installed > 0 /\ excuses = {} /\ (\A c \in Clients : Open(c) => req[c].kind # "install")
        => Supers # {}

\* A user has one session, unless two log-ins of this user overlapped
\* (authenticate: "Clear old sessions").
OneSession == \A u \in UserIds \ contested : Cardinality(sessions[u]) <= 1

\* A log-in leaves exactly its own session and a log-out none, as long as no
\* other log-in, log-out or deletion came near.
LastWordCounts ==
    \A c \in quiet :
        req[c].pc = "ok" =>
          LET u == req[c].me
          IN  /\ req[c].kind = "login" =>
                   cookie[c].user = u /\ sessions[u] = {cookie[c].token}
              /\ req[c].kind = "logout" =>
                   cookie[c] = NoCookie /\ (u # 0 => sessions[u] = {})

\* Nobody who was deleted is logged in, whatever log-in was under way.
GoneAreOut == \A u \in UserIds : sessions[u] # {} => u \in There

\* The role of a user changes only to one that a super asked for: a profile
\* that is saved while the role is changed does not bring the old one back.
RolesAreGiven ==
    [][\A u \in There :
         users'[u].state = "there" /\ users'[u].role # users[u].role =>
           \E c \in Clients :
             /\ req[c].pc = "write" /\ req[c].kind = "update"
             /\ req[c].target = u /\ req[c].role = users'[u].role]_vars

\* "Application installed successfully" (install): an administrator has been
\* created by then.
InstalledMeansAdmin ==
    \A c \in Clients : req[c].kind = "install" /\ req[c].pc = "ok" => last > 0

=============================================================================
