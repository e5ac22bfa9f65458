------------------------------ MODULE WebPage ------------------------------
(***************************************************************************)
(* One page of the web client in a browser (backend.js), the requests it   *)
(* has sent, and the rows of the server it shows and changes.              *)
(*                                                                         *)
(* Nothing orders two requests of a page: the server may take them in any  *)
(* order, the answers may come in any order, and each runs the callback    *)
(* that was registered when its request was sent.  A request may fail      *)
(* (refused, connection lost) before or after the server has acted, and a  *)
(* document that is loaded again forgets the callbacks of the old one but  *)
(* cannot take back what was already sent.                                 *)
(*                                                                         *)
(* Rows are numbered in the order they were inserted, no two of them in    *)
(* the same second; lists show the newest first.  What a row holds is left *)
(* out: a form knows the row whose details are in it, whatever the user    *)
(* changes then, and so does the request that saves it.                    *)
(***************************************************************************)
EXTENDS Integers, FiniteSets, Screens

CONSTANTS
    Pages,          \* the pages a browser may open
    Kinds,          \* the kinds of screens on them that are looked at
    Limit,          \* rows of a list page, 10 in the code
    FirstCount,     \* totalCount before the first answer, 5 in the code
    InitialRows,    \* rows there are at first
    MaxRows,        \* bound: rows ever inserted
    MaxKeys,        \* bound: rotations of the API key
    MaxWire         \* bound: requests in flight when another is sent

Rows == 1..MaxRows

ASSUME PagesAssumption == Pages \subseteq PageNames
ASSUME LimitAssumption ==
    Limit \in Nat \ {0} /\ FirstCount \in 1..Limit
ASSUME RowsAssumption ==
    MaxRows \in Nat /\ InitialRows \in 0..MaxRows
ASSUME BoundsAssumption == MaxKeys \in Nat /\ MaxWire \in Nat \ {0}

VARIABLES
    page,       \* the page the browser has opened
    list,       \* its list: current page, rows, their total, where they are from
    edit,       \* its edit form: the hidden uuid, the action, the fields
    choices,    \* the screens whose choices have been loaded
    busy,       \* the screens with isInProgress = TRUE
    apiKey,     \* the key shown, 0 for the asterisks
    reloading,  \* a reload is due
    wire,       \* the requests sent and not yet settled
    last,       \* server: rows inserted so far
    live,       \* server: the rows there are
    key,        \* server: the valid API key
    raced,      \* history: channels whose newest answer failed or was overtaken
    made,       \* history: rows made of what is in each form
    lost        \* history: forms an answer to which got lost

pageVars    == <<list, edit, choices, busy, apiKey, reloading>>
serverVars  == <<last, live, key>>
historyVars == <<raced, made, lost>>
vars == <<page, pageVars, wire, serverVars, historyVars>>

----------------------------------------------------------------------------
\* Screens of the page

Screens   == {s \in ScreensOf[page] : s.kind \in Kinds}
OfKind(k) == {s \in Screens : s.kind = k}
Elements  == {s.el : s \in Screens}
HasList   == OfKind("list") # {}

----------------------------------------------------------------------------
\* Requests

Reads  == {"list", "details", "choices", "show"}
Writes == {"save", "create", "post", "delete", "rotate"}

\* Those that set isInProgress when they are sent.
Submissions == {"save", "create", "post", "show", "rotate"}

\* Requests whose answers write to the same place.
Channel(k) ==
    CASE k \in {"show", "rotate"} -> "key"
      [] k \in {"list", "details"} -> k
      [] OTHER -> "none"

\* A saved form: the row its fields are from, the choice of its select.
\* History: the fields may be from another row, as the details were still
\* awaited, had failed or had been overtaken; the choices came after them.
Body == [base : {0} \cup Rows, choice : {"none", "first", "own"},
         hurried : BOOLEAN, late : BOOLEAN]

NoBody == [base |-> 0, choice |-> "none", hurried |-> FALSE, late |-> FALSE]

\* Of which screen, about which page or row, what is sent; the answer.
Request(k, el, of, body, c) ==
    [kind |-> k, el |-> el, of |-> of, body |-> body, copy |-> c,
     newest |-> TRUE, phase |-> "sent", answer |-> 0, rows |-> {}]

On(ch) == {r \in wire : Channel(r.kind) = ch}

\* A new request makes those before it on its channel old.
Aged(ch) ==
    {IF ch # "none" /\ Channel(r.kind) = ch
       THEN [r EXCEPT !.newest = FALSE] ELSE r : r \in wire}

\* Numbers not taken by requests that are the same.
FreeCopies(k, el, of, body) ==
    {c \in 1..MaxWire : \A r \in wire :
       <<r.kind, r.el, r.of, r.body>> = <<k, el, of, body>> => r.copy # c}

Send(k, el, of, body) ==
    /\ Cardinality(wire) < MaxWire
    /\ \E c \in FreeCopies(k, el, of, body) :
         /\ \A d \in FreeCopies(k, el, of, body) : c <= d
         /\ wire' = Aged(Channel(k)) \cup {Request(k, el, of, body, c)}
    /\ raced' = IF Channel(k) = "key" /\ On("key") # {}
                  THEN raced \cup {"key"} ELSE raced \ {Channel(k)}

----------------------------------------------------------------------------
\* Lists

\* Fault: pages are counted from 0.
OffsetFromZero(p) == p * Limit

Offset(p) == (p - 1) * Limit

TotalPages(n) == (n + Limit - 1) \div Limit

\* The rows the server answers: newest first, Limit of them from offset on.
Slice(offset) ==
    {r \in live : Cardinality({s \in live : s > r}) \in offset..(offset + Limit - 1)}

BlankList == [cur |-> 1, total |-> FirstCount, rows |-> {}, shown |-> 0]

\* Action 0 is the template with "UUID" in it, uuid 0 and base 0 are empty.
BlankEdit == [uuid |-> 0, action |-> 0, base |-> 0, choice |-> "none", late |-> FALSE]

\* What the mounted functions send.
MountRequests ==
    {Request("list", s.el, 1, NoBody, 1) : s \in OfKind("list")}
    \cup {Request("choices", s.el, 0, NoBody, 1) :
            s \in {t \in Screens : t.choices # "none"}}

Init ==
    /\ page \in Pages
    /\ list = BlankList /\ edit = BlankEdit
    /\ choices = {} /\ busy = {} /\ apiKey = 0 /\ reloading = FALSE
    /\ wire = MountRequests
    /\ last = InitialRows /\ live = 1..InitialRows
    /\ key = 1 /\ raced = {} /\ lost = {}
    /\ made = [el \in Elements |-> 0]

\* Fault: the first page has a previous page.
LoadBeforeFirst(s) ==
    /\ s \in OfKind("list") /\ list.cur > 0
    /\ list' = [list EXCEPT !.cur = @ - 1]
    /\ Send("list", s.el, list.cur - 1, NoBody)
    /\ UNCHANGED <<page, edit, choices, busy, apiKey, reloading, serverVars,
                   made, lost>>

LoadPreviousPage(s) ==
    /\ s \in OfKind("list") /\ list.cur > 1
    /\ list' = [list EXCEPT !.cur = @ - 1]
    /\ Send("list", s.el, list.cur - 1, NoBody)
    /\ UNCHANGED <<page, edit, choices, busy, apiKey, reloading, serverVars,
                   made, lost>>

\* Fault: the data are loaded before the page is turned.
LoadThenTurn(s) ==
    /\ s \in OfKind("list") /\ list.cur < TotalPages(list.total)
    /\ list' = [list EXCEPT !.cur = @ + 1]
    /\ Send("list", s.el, list.cur, NoBody)
    /\ UNCHANGED <<page, edit, choices, busy, apiKey, reloading, serverVars,
                   made, lost>>

LoadNextPage(s) ==
    /\ s \in OfKind("list") /\ list.cur < TotalPages(list.total)
    /\ list' = [list EXCEPT !.cur = @ + 1]
    /\ Send("list", s.el, list.cur + 1, NoBody)
    /\ UNCHANGED <<page, edit, choices, busy, apiKey, reloading, serverVars,
                   made, lost>>

Delete(s, r) ==
    /\ s \in OfKind("list") /\ r \in list.rows
    /\ Send("delete", s.el, r, NoBody)
    /\ UNCHANGED <<page, pageVars, serverVars, made, lost>>

----------------------------------------------------------------------------
\* Forms

\* The template gets the id; an action that has an id gets "UUID" back first,
\* found by the id in the hidden field.
ActionFor(r) ==
    LET template == IF edit.uuid # 0 /\ edit.action = edit.uuid
                      THEN 0 ELSE edit.action
    IN  IF template = 0 THEN r ELSE template

\* Fault: the action keeps the first id it was given.
EditKept(s, r) ==
    /\ s \in OfKind("edit") /\ r \in list.rows
    /\ edit' = [edit EXCEPT !.uuid = r, !.action = IF @ = 0 THEN r ELSE @]
    /\ Send("details", s.el, r, NoBody)
    /\ UNCHANGED <<page, list, choices, busy, apiKey, reloading, serverVars,
                   made, lost>>

Edit(s, r) ==
    /\ s \in OfKind("edit") /\ r \in list.rows
    /\ edit' = [edit EXCEPT !.uuid = r, !.action = ActionFor(r)]
    /\ Send("details", s.el, ActionFor(r), NoBody)
    /\ UNCHANGED <<page, list, choices, busy, apiKey, reloading, serverVars,
                   made, lost>>

\* Fault: the button is not disabled.
NeverLocked(s) == TRUE

Free(s) == ~(s.locks /\ s.el \in busy)

\* The fields are required: the form has been filled once, and its select
\* has a choice.  Data of another row than the action's are in it while the
\* details are awaited, and after they failed or were overtaken.
SubmitEdit(s) ==
    /\ s \in OfKind("edit") /\ Free(s)
    /\ edit.base # 0 /\ (s.choices # "none" => edit.choice # "none")
    /\ busy' = busy \cup {s.el}
    /\ Send("save", s.el, edit.action,
            [base |-> edit.base, choice |-> edit.choice, late |-> edit.late,
             hurried |-> On("details") # {} \/ "details" \in raced])
    /\ UNCHANGED <<page, list, edit, choices, apiKey, reloading, serverVars,
                   made, lost>>

Submit(s) ==
    /\ s \in OfKind("form") /\ Free(s)
    /\ s.choices # "none" => s.el \in choices
    /\ busy' = busy \cup {s.el}
    /\ Send(IF HasList THEN "create" ELSE "post", s.el, 0, NoBody)
    /\ UNCHANGED <<page, list, edit, choices, apiKey, reloading, serverVars,
                   made, lost>>

ShowApiKey(s) ==
    /\ s \in OfKind("key")
    /\ busy' = busy \cup {s.el}
    /\ Send("show", s.el, 0, NoBody)
    /\ UNCHANGED <<page, list, edit, choices, apiKey, reloading, serverVars,
                   made, lost>>

RotateApiKey(s) ==
    /\ s \in OfKind("key")
    /\ busy' = busy \cup {s.el}
    /\ Send("rotate", s.el, 0, NoBody)
    /\ UNCHANGED <<page, list, edit, choices, apiKey, reloading, serverVars,
                   made, lost>>

----------------------------------------------------------------------------
\* The server

\* The server has acted on a request; nobody waits for the answer to one
\* whose document is gone.
Answered(r, a, rows) ==
    wire' = (wire \ {r}) \cup
              IF r.phase = "orphan" THEN {}
              ELSE {[r EXCEPT !.phase = "done", !.answer = a, !.rows = rows]}

Due(r, k) == r.kind = k /\ r.phase \in {"sent", "orphan"}

ServeList(r) ==
    /\ Due(r, "list")
    /\ Answered(r, Cardinality(live), Slice(Offset(r.of)))
    /\ UNCHANGED <<page, pageVars, serverVars, historyVars>>

ServeDetails(r) ==
    /\ Due(r, "details") /\ r.of \in live
    /\ Answered(r, r.of, {})
    /\ UNCHANGED <<page, pageVars, serverVars, historyVars>>

\* What the choices are, and what is done with a form without rows, is left
\* out.
ServeOther(r) ==
    /\ Due(r, "choices") \/ Due(r, "post")
    /\ Answered(r, 0, {})
    /\ UNCHANGED <<page, pageVars, serverVars, historyVars>>

ServeSave(r) ==
    /\ Due(r, "save") /\ r.of \in live
    /\ Answered(r, 0, {})
    /\ UNCHANGED <<page, pageVars, serverVars, historyVars>>

ServeCreate(r) ==
    /\ Due(r, "create") /\ last < MaxRows
    /\ last' = last + 1 /\ live' = live \cup {last + 1}
    /\ made' = [made EXCEPT ![r.el] = @ + 1]
    /\ Answered(r, 0, {})
    /\ UNCHANGED <<page, pageVars, key, raced, lost>>

ServeDelete(r) ==
    /\ Due(r, "delete") /\ r.of \in live
    /\ live' = live \ {r.of}
    /\ Answered(r, 0, {})
    /\ UNCHANGED <<page, pageVars, last, key, historyVars>>

ServeShow(r) ==
    /\ Due(r, "show")
    /\ Answered(r, key, {})
    /\ UNCHANGED <<page, pageVars, serverVars, historyVars>>

\* Fault: the key that is replaced is answered.
ServeRotateOld(r) ==
    /\ Due(r, "rotate") /\ key <= MaxKeys
    /\ key' = key + 1
    /\ Answered(r, key, {})
    /\ UNCHANGED <<page, pageVars, last, live, historyVars>>

ServeRotate(r) ==
    /\ Due(r, "rotate") /\ key <= MaxKeys
    /\ key' = key + 1
    /\ Answered(r, key + 1, {})
    /\ UNCHANGED <<page, pageVars, last, live, historyVars>>

Serve(r) ==
    \/ ServeList(r) \/ ServeDetails(r) \/ ServeOther(r) \/ ServeSave(r)
    \/ ServeCreate(r) \/ ServeDelete(r) \/ ServeShow(r) \/ ServeRotate(r)

\* Somebody else deletes a row.
DeleteElsewhere(r) ==
    /\ HasList /\ r \in live
    /\ live' = live \ {r}
    /\ UNCHANGED <<page, pageVars, wire, last, key, historyVars>>

----------------------------------------------------------------------------
\* Callbacks

\* The answer of r reaches the page.  It was overtaken by a newer one of its
\* channel if that has already been here.
Settle(r) ==
    /\ r.phase = "done"
    /\ wire' = wire \ {r}
    /\ raced' = IF Channel(r.kind) # "none" /\ ~r.newest
                     /\ \A q \in On(Channel(r.kind)) : ~q.newest
                  THEN raced \cup {Channel(r.kind)} ELSE raced

ReceiveList(r) ==
    /\ r.kind = "list" /\ Settle(r)
    /\ list' = [list EXCEPT !.rows = r.rows, !.total = r.answer, !.shown = r.of]
    /\ UNCHANGED <<page, edit, choices, busy, apiKey, reloading, serverVars,
                   made, lost>>

Loaded(el) ==
    el \in choices \/ \A s \in Screens : s.el = el => s.choices = "none"

\* Fault: the select is left as it was.
ReceiveFieldsOnly(r) ==
    /\ r.kind = "details" /\ Settle(r)
    /\ edit' = [edit EXCEPT !.base = r.answer, !.late = ~Loaded(r.el)]
    /\ UNCHANGED <<page, list, choices, busy, apiKey, reloading, serverVars,
                   made, lost>>

\* The value of the row can only be selected among choices that are there.
ReceiveDetails(r) ==
    /\ r.kind = "details" /\ Settle(r)
    /\ edit' = [edit EXCEPT !.base = r.answer,
                            !.choice = IF Loaded(r.el) THEN "own" ELSE "none",
                            !.late = ~Loaded(r.el)]
    /\ UNCHANGED <<page, list, choices, busy, apiKey, reloading, serverVars,
                   made, lost>>

\* A select of one that has no choice yet takes the first that comes.
ReceiveChoices(r) ==
    /\ r.kind = "choices" /\ Settle(r)
    /\ choices' = choices \cup {r.el}
    /\ edit' = IF edit.choice = "none"
                    /\ \E s \in OfKind("edit") : s.el = r.el /\ s.choices = "one"
                 THEN [edit EXCEPT !.choice = "first"] ELSE edit
    /\ UNCHANGED <<page, list, busy, apiKey, reloading, serverVars,
                   made, lost>>

ReceiveKey(r) ==
    /\ r.kind \in {"show", "rotate"} /\ Settle(r)
    /\ apiKey' = r.answer
    /\ UNCHANGED <<page, list, edit, choices, busy, reloading, serverVars,
                   made, lost>>

\* Fault: only the notification is shown.
ReceiveSavedStay(r) ==
    /\ r.kind \in {"save", "create", "post"} /\ Settle(r)
    /\ made' = [made EXCEPT ![r.el] = 0]
    /\ UNCHANGED <<page, pageVars, serverVars, lost>>

\* isInProgress stays TRUE after a success.
ReceiveSaved(r) ==
    /\ r.kind \in {"save", "create", "post"} /\ Settle(r)
    /\ reloading' = (reloading \/ \E s \in Screens : s.el = r.el /\ s.reloads)
    /\ made' = [made EXCEPT ![r.el] = 0]
    /\ UNCHANGED <<page, list, edit, choices, busy, apiKey, serverVars,
                   lost>>

ReceiveDeleted(r) ==
    /\ r.kind = "delete" /\ Settle(r)
    /\ reloading' = TRUE
    /\ UNCHANGED <<page, list, edit, choices, busy, apiKey, serverVars,
                   made, lost>>

Receive(r) ==
    \/ ReceiveList(r) \/ ReceiveDetails(r) \/ ReceiveChoices(r)
    \/ ReceiveKey(r) \/ ReceiveSaved(r) \/ ReceiveDeleted(r)

\* Refused, or the connection broke before or after the server has acted, or
\* will act all the same.
Fail(r) ==
    /\ r.phase \in {"sent", "done"}
    /\ \E late \in BOOLEAN :
         /\ late => r.phase = "sent" /\ r.kind \in Writes
         /\ wire' = (wire \ {r}) \cup
                      IF late THEN {[r EXCEPT !.phase = "orphan"]} ELSE {}
         /\ lost' = IF r.kind = "create" /\ (late \/ r.phase = "done")
                      THEN lost \cup {r.el} ELSE lost
    /\ busy' = IF r.kind \in Submissions THEN busy \ {r.el} ELSE busy
    /\ raced' = IF r.newest /\ Channel(r.kind) # "none"
                  THEN raced \cup {Channel(r.kind)} ELSE raced
    /\ UNCHANGED <<page, list, edit, choices, apiKey, reloading, serverVars,
                   made>>

\* What nobody waits for any more gets lost.
Drop(r) ==
    /\ r.phase = "orphan"
    /\ wire' = wire \ {r}
    /\ UNCHANGED <<page, pageVars, serverVars, historyVars>>

Orphans ==
    {[r EXCEPT !.phase = "orphan"] :
       r \in {q \in wire : q.kind \in Writes /\ q.phase # "done"}}

\* Fault: the screens start again in the same document, where the answers
\* that are still on their way arrive.
ReloadInPlace ==
    /\ reloading
    /\ list' = BlankList /\ edit' = BlankEdit
    /\ choices' = {} /\ busy' = {} /\ apiKey' = 0 /\ reloading' = FALSE
    /\ wire' = wire \cup MountRequests
    /\ UNCHANGED <<page, serverVars, historyVars>>

\* location.reload(), at once or after two seconds.
Reload ==
    /\ reloading
    /\ list' = BlankList /\ edit' = BlankEdit
    /\ choices' = {} /\ busy' = {} /\ apiKey' = 0 /\ reloading' = FALSE
    /\ wire' = Orphans \cup MountRequests
    /\ raced' = {}
    /\ lost' = lost \cup {r.el : r \in {q \in wire : q.kind = "create"}}
    /\ UNCHANGED <<page, serverVars, made>>

----------------------------------------------------------------------------
User ==
    \E s \in Screens :
      \/ LoadPreviousPage(s) \/ LoadNextPage(s)
      \/ \E r \in Rows : Edit(s, r) \/ Delete(s, r)
      \/ SubmitEdit(s) \/ Submit(s) \/ ShowApiKey(s) \/ RotateApiKey(s)

Network == \E r \in wire : Serve(r) \/ Receive(r) \/ Fail(r) \/ Drop(r)

Next == User \/ Network \/ Reload \/ \E r \in Rows : DeleteElsewhere(r)

Spec == Init /\ [][Next]_vars

\* Every submission is served, answered or fails in the end, and timers
\* fire; nobody has to click.
Ends(k, c) ==
    \E r \in wire :
      r.kind = k /\ r.copy = c /\ (Serve(r) \/ Receive(r) \/ Fail(r) \/ Drop(r))

Fairness ==
    /\ WF_vars(Reload)
    /\ \A k \in {"save", "create", "post"}, c \in 1..MaxWire : WF_vars(Ends(k, c))

FairSpec == Spec /\ Fairness

----------------------------------------------------------------------------
\* Properties

Requests ==
    [kind : Reads \cup Writes, el : Elements, of : Nat, body : Body,
     copy : 1..MaxWire, newest : BOOLEAN, phase : {"sent", "done", "orphan"},
     answer : Nat, rows : SUBSET Rows]

RequestOK(r) ==
    /\ r \in Requests
    /\ r.kind \in Reads => r.phase # "orphan"
    /\ r.kind \in {"details", "delete"} => r.of \in Rows
    /\ r.kind = "save" => r.body.base \in Rows
    /\ r.kind = "details" /\ r.phase = "done" => r.answer = r.of
    /\ r.kind \in {"show", "rotate"} => r.answer \in 0..MaxKeys + 1

\* The variables have the types of the page and of the tables behind it.
TypeOK ==
    /\ page \in Pages
    /\ list \in [cur : Nat \ {0}, total : Nat, rows : SUBSET Rows, shown : Nat]
    /\ edit \in [uuid : {0} \cup Rows, action : {0} \cup Rows, base : {0} \cup Rows,
                 choice : {"none", "first", "own"}, late : BOOLEAN]
    /\ choices \subseteq Elements /\ busy \subseteq Elements
    /\ apiKey \in 0..MaxKeys + 1 /\ reloading \in BOOLEAN
    /\ \A r \in wire : RequestOK(r)
    /\ last \in 0..MaxRows /\ live \subseteq 1..last
    /\ key \in 1..MaxKeys + 1
    /\ raced \subseteq {"list", "details", "key"}
    /\ made \in [Elements -> Nat] /\ lost \subseteq Elements

\* Once every list request is settled, the rows under "page n" are an answer
\* for page n, unless the answer for page n failed or came before an older
\* one (loadDataAction against its own callbacks).
RowsMatchPage ==
    HasList /\ On("list") = {} /\ "list" \notin raced => list.shown = list.cur

\* Turning the pages from the first to the last shows every row, and none on
\* two pages (offset, limit and totalPages of the lists).
PagesShowEveryRow ==
    LET P == 1..TotalPages(Cardinality(live))
    IN  /\ UNION {Slice(Offset(p)) : p \in P} = live
        /\ \A p, q \in P : p # q => Slice(Offset(p)) \cap Slice(Offset(q)) = {}

\* No save writes the fields of one row to another, unless it was submitted
\* before the details of the row were in the form (editTeamAction changes the
\* action at once and the fields later).
MisfiledNeedsHaste ==
    \A r \in wire : r.kind = "save" /\ r.body.base # r.of => r.body.hurried

\* A host group goes to the first team of the select without being asked to
\* only if its details were there before the teams (editGroupAction against
\* loadDataAction of the modal).
MovedNeedsLateChoices ==
    \A r \in wire : r.kind = "save" /\ r.body.choice = "first" => r.body.late

\* What was entered in a form once is inserted once, unless the answer of
\* the first attempt got lost (isInProgress and the disabled button).
TwiceNeedsLoss == \A el \in Elements : made[el] > 1 => el \in lost

\* When no key request is open the key on the page is hidden or the valid
\* one, unless two of them overlapped or the last failed (showApiKeyAction
\* and rotateApiKeyAction).
KeyShownIsValid == On("key") = {} /\ "key" \notin raced => apiKey \in {0, key}

\* When a reload is due, the rows that are gone leave the page for good: no
\* answer that is still on its way brings one back (location.reload after a
\* deletion).
DeletedLeaves ==
    \A r \in Rows :
        reloading /\ r \in 1..last \ live ~> [](r \notin list.rows)

\* A form that reloads can be submitted again in the end: its submission
\* fails or the document is loaded again.
FormsComeBack ==
    \A s \in UNION {ScreensOf[p] : p \in Pages} :
        s.reloads /\ s.kind \in {"form", "edit"} \cap Kinds =>
            (s.el \in busy ~> s.el \notin busy)

=============================================================================
