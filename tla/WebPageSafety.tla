--------------------------- MODULE WebPageSafety ---------------------------
(***************************************************************************)
(* What a page shows, saves and reveals, for every order of requests,      *)
(* answers, failures and reloads.  The answers of a channel matter only    *)
(* through the newest request: either it is still in flight, and asks for  *)
(* what the page is about, or it has been answered, or it went wrong.      *)
(* What is inserted depends on the lock of the button, and the pages of a  *)
(* list on the number of rows before each.  Behind the two promises of     *)
(* progress: a deleted row never comes back, and a busy form always has    *)
(* something under way that frees it.                                      *)
(***************************************************************************)
EXTENDS WebPageProofs

Channels == {"list", "details", "key"}

\* The list: the newest request is for the current page.
ListOK ==
    HasList =>
      /\ \A r \in On("list") : r.newest => r.of = list.cur
      /\ "list" \notin raced =>
           list.shown = list.cur \/ \E r \in On("list") : r.newest

\* The form: its action and the newest request are for the row with its
\* uuid, and the choice of its select is the row's or came late.
FormOK ==
    /\ edit.action = edit.uuid
    /\ \A r \in On("details") : r.newest => r.of = edit.uuid
    /\ "details" \notin raced =>
         edit.base = edit.uuid \/ \E r \in On("details") : r.newest
    /\ edit.base # 0 /\ edit.choice # "own" => edit.late

\* The key: at most one request has somebody who waits for it, and its
\* answer is the valid key; or the page has just been loaded.
KeyOK ==
    "key" \notin raced =>
      \/ apiKey = 0 /\ \A r \in On("key") : r.phase = "orphan"
      \/ /\ \A q, r \in On("key") : q = r
         /\ \A r \in On("key") : /\ r.phase # "orphan" /\ r.newest
                                 /\ r.phase = "done" => r.answer = key
         /\ On("key") = {} => apiKey \in {0, key}

\* Steps that leave a channel alone, or what the newest request says.
Apart(ch) == On(ch)' = On(ch) /\ (ch \in raced' <=> ch \in raced)

Kept(ch) ==
    /\ \A q \in On(ch)' : \E p \in On(ch) : q.of = p.of /\ q.newest = p.newest
    /\ ch \notin raced' =>
         /\ ch \notin raced
         /\ (\E p \in On(ch) : p.newest) => \E q \in On(ch)' : q.newest

\* Steps after which no save is in flight that was not before.
SavesKept ==
    \A q \in wire' : q.kind = "save" =>
        \E p \in wire : p.kind = "save" /\ q.of = p.of /\ q.body = p.body

LEMMA ApartKept == \A ch : Apart(ch) => Kept(ch)
BY DEF Apart, Kept

LEMMA ChannelFacts ==
    /\ Channel("list") = "list" /\ Channel("details") = "details"
    /\ Channel("show") = "key" /\ Channel("rotate") = "key"
    /\ \A k \in {"choices", "save", "create", "post", "delete"} : Channel(k) = "none"
    /\ \A k \in Reads \cup Writes :
         /\ Channel(k) = "list" => k = "list"
         /\ Channel(k) = "details" => k = "details"
         /\ Channel(k) = "key" => k \in {"show", "rotate"}
BY DEF Channel, Reads, Writes

\* The fields a step may change keep the others.
Same(q, p) == q.kind = p.kind /\ q.of = p.of /\ q.body = p.body

LEMMA AgedFields ==
    ASSUME NEW r, RequestOK(r)
    PROVE  Same([r EXCEPT !.newest = FALSE], r) /\ [r EXCEPT !.newest = FALSE].newest = FALSE
BY DEF RequestOK, Requests, Same

LEMMA OrphanFields ==
    ASSUME NEW r, RequestOK(r)
    PROVE  /\ Same([r EXCEPT !.phase = "orphan"], r)
           /\ [r EXCEPT !.phase = "orphan"].newest = r.newest
           /\ [r EXCEPT !.phase = "orphan"].phase = "orphan"
BY DEF RequestOK, Requests, Same

Done(r, a, rows) == [r EXCEPT !.phase = "done", !.answer = a, !.rows = rows]

LEMMA DoneFields ==
    ASSUME NEW r, RequestOK(r), NEW a, NEW rows
    PROVE  /\ Same(Done(r, a, rows), r)
           /\ Done(r, a, rows).newest = r.newest
           /\ Done(r, a, rows).phase = "done" /\ Done(r, a, rows).answer = a
BY DEF RequestOK, Requests, Same, Done

\* A request that is sent leaves the other channels alone.
LEMMA SendElsewhere ==
    ASSUME TypeOK, NEW k, NEW el, NEW of, NEW body, Send(k, el, of, body)
    PROVE  /\ \A ch \in Channels : Channel(k) # ch => Apart(ch)
           /\ k # "save" => SavesKept
<1>1. PICK c : wire' = Aged(Channel(k)) \cup {Request(k, el, of, body, c)}
    BY DEF Send
<1>2. \A r \in wire : RequestOK(r)
    BY DEF TypeOK
<1>3. ASSUME NEW q \in Aged(Channel(k))
      PROVE  \E p \in wire :
               /\ Same(q, p)
               /\ Channel(p.kind) # Channel(k) \/ Channel(k) = "none" => q = p
    BY <1>2, AgedFields DEF Aged, Same
<1>4. ASSUME NEW ch \in Channels, Channel(k) # ch PROVE Apart(ch)
    <2>1. \A p \in On(ch) : p \in Aged(Channel(k))
        BY <1>4 DEF On, Aged
    <2>2. \A q \in On(ch)' : q \in On(ch)
        BY <1>1, <1>3, <1>4 DEF On, Channels, Same, Request
    <2>3. \A p \in On(ch) : p \in On(ch)'
        BY <1>1, <2>1 DEF On
    <2>4. ch \in raced' <=> ch \in raced
        BY <1>4 DEF Send, Channels
    <2> QED BY <2>2, <2>3, <2>4 DEF Apart
<1>5. ASSUME k # "save" PROVE SavesKept
    BY <1>1, <1>3, <1>5 DEF SavesKept, Same, Request
<1> QED BY <1>4, <1>5

\* On its own channel it is the newest, and the others are not.
LEMMA SendHere ==
    ASSUME TypeOK, NEW ch \in Channels, NEW k, Channel(k) = ch,
           NEW el, NEW of, NEW body, Send(k, el, of, body)
    PROVE  /\ \A q \in On(ch)' : q.newest => q.of = of
           /\ \E q \in On(ch)' : q.newest
           /\ On(ch) = {} => \E q : On(ch)' = {q} /\ q.newest /\ q.phase = "sent"
           /\ ch # "key" => ch \notin raced'
           /\ ch = "key" => (ch \in raced' <=> On(ch) # {})
<1>1. PICK c : wire' = Aged(ch) \cup {Request(k, el, of, body, c)}
    BY DEF Send
<1> DEFINE new == Request(k, el, of, body, c)
<1>2. new.kind = k /\ new.of = of /\ new.newest /\ new.phase = "sent"
    BY DEF Request
<1> HIDE DEF new
<1>3. \A r \in wire : RequestOK(r)
    BY DEF TypeOK
<1>4. ch # "none"
    BY DEF Channels
<1>5. ASSUME NEW q \in Aged(ch), Channel(q.kind) = ch
      PROVE  q.newest = FALSE /\ On(ch) # {}
    <2>1. PICK r \in wire : q = IF Channel(r.kind) = ch
                                  THEN [r EXCEPT !.newest = FALSE] ELSE r
        BY <1>4 DEF Aged
    <2>2. CASE Channel(r.kind) = ch
        BY <1>3, <2>1, <2>2, AgedFields DEF On
    <2>3. CASE Channel(r.kind) # ch
        BY <1>5, <2>1, <2>3
    <2> QED BY <2>2, <2>3
<1>6. new \in On(ch)'
    BY <1>1, <1>2 DEF On, new
<1>7. \A q \in On(ch)' : q = new \/ (q.newest = FALSE /\ On(ch) # {})
    BY <1>1, <1>5 DEF On, new
<1>8. ch \in Channels /\ (raced' = IF ch = "key" /\ On("key") # {}
                                     THEN raced \cup {"key"} ELSE raced \ {ch})
    BY DEF Send
<1>9. On(ch) = {} => On(ch)' = {new}
    BY <1>6, <1>7
<1> QED BY <1>2, <1>6, <1>7, <1>8, <1>9

\* Reads are not orphans, and each kind of request has one channel.
LEMMA WireFacts ==
    TypeOK => \A r \in wire :
                /\ RequestOK(r)
                /\ Channel(r.kind) \in {"list", "details"} => r.phase # "orphan"
                /\ r.kind = "save" => \A ch \in Channels : Channel(r.kind) # ch
BY ChannelFacts DEF TypeOK, RequestOK, Requests, Reads, Writes, Channels

\* What the server does.
LEMMA AnsweredKept ==
    ASSUME TypeOK, NEW r \in wire, NEW a, NEW rows, Answered(r, a, rows),
           raced' = raced
    PROVE  /\ \A ch \in Channels : Channel(r.kind) # ch => Apart(ch)
           /\ Kept("list") /\ Kept("details") /\ SavesKept
           /\ r.phase # "orphan" => wire' = (wire \ {r}) \cup {Done(r, a, rows)}
           /\ r.phase = "orphan" => wire' = wire \ {r}
<1>1. /\ Same(Done(r, a, rows), r)
      /\ Done(r, a, rows).newest = r.newest
    BY WireFacts, DoneFields
<1>2. /\ r.phase # "orphan" => wire' = (wire \ {r}) \cup {Done(r, a, rows)}
      /\ r.phase = "orphan" => wire' = wire \ {r}
    BY DEF Answered, Done
<1>3. \A ch \in Channels : Channel(r.kind) # ch => Apart(ch)
    BY <1>1, <1>2 DEF Apart, On, Same
<1>4. ASSUME NEW ch \in {"list", "details"} PROVE Kept(ch)
    <2>1. \A q \in On(ch)' : \E p \in On(ch) : q.of = p.of /\ q.newest = p.newest
        BY <1>1, <1>2 DEF On, Same
    <2>2. \A p \in On(ch) : \E q \in On(ch)' : q.newest = p.newest
        BY <1>1, <1>2, WireFacts DEF On, Same
    <2> QED BY <2>1, <2>2 DEF Kept
<1>5. SavesKept
    BY <1>1, <1>2 DEF SavesKept, Same
<1> QED BY <1>2, <1>3, <1>4, <1>5

\* What a callback does.
LEMMA SettleKept ==
    ASSUME TypeOK, NEW r \in wire, Settle(r)
    PROVE  /\ \A ch \in Channels : Channel(r.kind) # ch => Apart(ch)
           /\ SavesKept
           /\ \A ch \in Channels : Channel(r.kind) = ch =>
                 /\ On(ch)' = On(ch) \ {r} /\ r \in On(ch)
                 /\ ch \notin raced' =>
                      ch \notin raced /\ (r.newest \/ \E q \in On(ch)' : q.newest)
<1>1. wire' = wire \ {r}
    BY DEF Settle
<1>2. ASSUME NEW ch \in Channels, Channel(r.kind) # ch PROVE Apart(ch)
    <2>1. On(ch)' = On(ch)
        BY <1>1, <1>2 DEF On
    <2>2. ch \in raced' <=> ch \in raced
        BY <1>2 DEF Settle
    <2> QED BY <2>1, <2>2 DEF Apart
<1>3. ASSUME NEW ch \in Channels, Channel(r.kind) = ch
      PROVE  /\ On(ch)' = On(ch) \ {r} /\ r \in On(ch)
             /\ ch \notin raced' =>
                  ch \notin raced /\ (r.newest \/ \E q \in On(ch)' : q.newest)
    <2>1. On(ch)' = On(ch) \ {r} /\ r \in On(ch)
        BY <1>1, <1>3 DEF On
    <2>2. raced' = IF ~r.newest /\ \A q \in On(ch) : ~q.newest
                     THEN raced \cup {ch} ELSE raced
        BY <1>3 DEF Settle, Channels
    <2> QED BY <2>1, <2>2
<1>4. SavesKept
    BY <1>1 DEF SavesKept
<1> QED BY <1>2, <1>3, <1>4

\* What a failure does.
LEMMA FailKept ==
    ASSUME TypeOK, NEW r \in wire, Fail(r) \/ Drop(r)
    PROVE  /\ Kept("list") /\ Kept("details") /\ SavesKept
           /\ Channel(r.kind) # "key" => Apart("key")
<1>1. PICK late \in BOOLEAN :
        /\ late => r.phase = "sent" /\ r.kind \in Writes
        /\ wire' = (wire \ {r}) \cup
                     IF late THEN {[r EXCEPT !.phase = "orphan"]} ELSE {}
    <2>1. CASE Fail(r)
        BY <2>1 DEF Fail
    <2>2. CASE Drop(r)
        <3>1. /\ FALSE \in BOOLEAN
              /\ wire' = (wire \ {r}) \cup
                           IF FALSE THEN {[r EXCEPT !.phase = "orphan"]} ELSE {}
            BY <2>2 DEF Drop
        <3> QED BY <3>1
    <2> QED BY <2>1, <2>2
<1>2. Same([r EXCEPT !.phase = "orphan"], r)
    BY WireFacts, OrphanFields
<1>3. /\ \A ch \in Channels : Channel(r.kind) # ch => (ch \in raced' <=> ch \in raced)
      /\ \A ch \in Channels : ch \in raced => ch \in raced'
      /\ Channel(r.kind) \in {"list", "details"} /\ r.newest
           => Channel(r.kind) \in raced'
    <2>1. CASE Fail(r)
        BY <2>1 DEF Fail, Channels
    <2>2. CASE Drop(r)
        BY <2>2, WireFacts DEF Drop, historyVars
    <2> QED BY <2>1, <2>2
<1>4. ASSUME NEW ch \in Channels, Channel(r.kind) # ch PROVE Apart(ch)
    <2>1. \A q \in wire' : q \in wire \/ Same(q, r)
        BY <1>1, <1>2
    <2>2. \A q \in wire : q # r => q \in wire'
        BY <1>1
    <2>3. On(ch)' = On(ch)
        BY <1>4, <2>1, <2>2 DEF On, Same
    <2> QED BY <1>3, <1>4, <2>3 DEF Apart
<1>5. ASSUME NEW ch \in {"list", "details"}, Channel(r.kind) = ch PROVE Kept(ch)
    <2>1. ~late
        BY <1>1, <1>5, WireFacts, ChannelFacts DEF Reads, Writes
    <2>2. On(ch)' = On(ch) \ {r}
        BY <1>1, <2>1 DEF On
    <2>3. ch \in raced => ch \in raced'
        BY <1>3 DEF Channels
    <2> QED BY <1>3, <1>5, <2>2, <2>3 DEF Kept
<1>6. SavesKept
    BY <1>1, <1>2 DEF SavesKept, Same
<1> QED BY <1>4, <1>5, <1>6, ApartKept DEF Channels

\* A reload leaves the writes, and asks for the first page.
LEMMA ReloadFacts ==
    ASSUME TypeOK, Reload
    PROVE  /\ \A r \in On("list")' : r.of = 1
           /\ HasList => \E r \in On("list")' : r.newest
           /\ On("details")' = {}
           /\ \A r \in On("key")' : r.phase = "orphan"
           /\ SavesKept
<1>1. wire' = Orphans \cup MountRequests
    BY DEF Reload
<1>2. ASSUME NEW q \in Orphans
      PROVE  \E p \in wire : Same(q, p) /\ p.kind \in Writes /\ q.phase = "orphan"
    <2>1. PICK p \in wire : p.kind \in Writes /\ q = [p EXCEPT !.phase = "orphan"]
        BY <1>2 DEF Orphans
    <2> QED BY <2>1, WireFacts, OrphanFields
<1>3. \A q \in MountRequests :
        \/ q.kind = "list" /\ q.of = 1 /\ q.newest
        \/ q.kind = "choices"
    BY DEF MountRequests, Request
<1>4. \A k \in Writes : Channel(k) \in {"key", "none"}
    BY ChannelFacts DEF Writes
<1>5. \A r \in On("list")' : r.of = 1
    BY <1>1, <1>2, <1>3, <1>4, ChannelFacts DEF On, Same
<1>6. HasList => \E r \in On("list")' : r.newest
    <2>1. SUFFICES ASSUME HasList PROVE \E r \in On("list")' : r.newest
        OBVIOUS
    <2>2. PICK s \in OfKind("list") : Request("list", s.el, 1, NoBody, 1) \in MountRequests
        BY <2>1 DEF HasList, MountRequests
    <2>3. Request("list", s.el, 1, NoBody, 1) \in On("list")'
        BY <1>1, <2>2, ChannelFacts DEF On, Request
    <2> QED BY <2>3 DEF Request
<1>7. On("details")' = {}
    BY <1>1, <1>2, <1>3, <1>4, ChannelFacts DEF On, Same
<1>8. \A r \in On("key")' : r.phase = "orphan"
    BY <1>1, <1>2, <1>3, ChannelFacts DEF On
<1>9. SavesKept
    BY <1>1, <1>2, <1>3 DEF SavesKept, Same
<1> QED BY <1>5, <1>6, <1>7, <1>8, <1>9

----------------------------------------------------------------------------
\* The list.

LEMMA ListKept ==
    ASSUME ListOK, Kept("list"), page' = page, list' = list
    PROVE  ListOK'
BY SamePage DEF ListOK, Kept

LEMMA ListUser == TypeOK /\ ListOK /\ User => ListOK'
<1> SUFFICES ASSUME TypeOK, ListOK, User PROVE ListOK'
    OBVIOUS
<1>1. PICK s \in Screens :
        \/ LoadPreviousPage(s) \/ LoadNextPage(s)
        \/ \E r \in Rows : Edit(s, r) \/ Delete(s, r)
        \/ SubmitEdit(s) \/ Submit(s) \/ ShowApiKey(s) \/ RotateApiKey(s)
    BY DEF User
<1>2. ASSUME NEW n, Send("list", s.el, n, NoBody), list'.cur = n PROVE ListOK'
    BY <1>2, SendHere, ChannelFacts DEF ListOK, Channels
<1>3. ASSUME NEW k, NEW of, NEW body, Send(k, s.el, of, body),
             Channel(k) # "list", page' = page, list' = list
      PROVE  ListOK'
    BY <1>3, SendElsewhere, ApartKept, ListKept DEF Channels
<1>4. CASE LoadPreviousPage(s)
    BY <1>2, <1>4, TypeParts DEF LoadPreviousPage, ListType
<1>5. CASE LoadNextPage(s)
    BY <1>2, <1>5, TypeParts DEF LoadNextPage, ListType
<1>6. ASSUME NEW r \in Rows, Edit(s, r) PROVE ListOK'
    BY <1>3, <1>6, ChannelFacts DEF Edit
<1>7. ASSUME NEW r \in Rows, Delete(s, r) PROVE ListOK'
    BY <1>3, <1>7, ChannelFacts DEF Delete, pageVars
<1>8. CASE SubmitEdit(s)
    BY <1>3, <1>8, ChannelFacts DEF SubmitEdit
<1>9. CASE Submit(s)
    <2>1. \E k \in {"create", "post"} : Send(k, s.el, 0, NoBody)
        BY <1>9 DEF Submit
    <2> QED BY <1>3, <1>9, <2>1, ChannelFacts DEF Submit
<1>10. CASE ShowApiKey(s)
    BY <1>3, <1>10, ChannelFacts DEF ShowApiKey
<1>11. CASE RotateApiKey(s)
    BY <1>3, <1>11, ChannelFacts DEF RotateApiKey
<1> QED BY <1>1, <1>4, <1>5, <1>6, <1>7, <1>8, <1>9, <1>10, <1>11

\* Whatever the server does, it answers or stays silent.
LEMMA ServeFacts ==
    ASSUME TypeOK, NEW r \in wire, Serve(r)
    PROVE  /\ Kept("list") /\ Kept("details") /\ SavesKept
           /\ Channel(r.kind) # "key" => Apart("key") /\ key' = key
           /\ page' = page /\ list' = list /\ edit' = edit /\ apiKey' = apiKey
           /\ raced' = raced
<1>1. /\ \E a, rows : Answered(r, a, rows)
      /\ UNCHANGED <<page, pageVars, raced>>
    BY DEF Serve, ServeList, ServeDetails, ServeOther, ServeSave, ServeCreate,
           ServeDelete, ServeShow, ServeRotate, historyVars
<1>2. Channel(r.kind) # "key" => key' = key
    BY ChannelFacts DEF Serve, ServeList, ServeDetails, ServeOther, ServeSave,
       ServeCreate, ServeDelete, ServeShow, ServeRotate, serverVars, Due
<1> QED BY <1>1, <1>2, AnsweredKept DEF pageVars, Channels

LEMMA ListReceive ==
    ASSUME TypeOK, ListOK, NEW r \in wire, Receive(r)
    PROVE  ListOK'
<1>1. Settle(r) /\ page' = page
    BY DEF Receive, ReceiveList, ReceiveDetails, ReceiveChoices, ReceiveKey,
           ReceiveSaved, ReceiveDeleted
<1>2. CASE r.kind = "list"
    <2>1. list' = [list EXCEPT !.rows = r.rows, !.total = r.answer, !.shown = r.of]
        BY <1>2 DEF Receive, ReceiveList, ReceiveDetails, ReceiveChoices,
           ReceiveKey, ReceiveSaved, ReceiveDeleted
    <2>2. list'.cur = list.cur /\ list'.shown = r.of
        BY <2>1, TypeParts DEF ListType
    <2>3. /\ On("list")' = On("list") \ {r} /\ r \in On("list")
          /\ "list" \notin raced' =>
               "list" \notin raced /\ (r.newest \/ \E q \in On("list")' : q.newest)
        BY <1>1, <1>2, SettleKept, ChannelFacts DEF Channels
    <2> QED BY <1>1, <2>2, <2>3, SamePage DEF ListOK
<1>3. CASE r.kind # "list"
    <2>1. list' = list
        BY <1>3 DEF Receive, ReceiveList, ReceiveDetails, ReceiveChoices,
           ReceiveKey, ReceiveSaved, ReceiveDeleted, pageVars
    <2>2. Channel(r.kind) # "list"
        BY <1>3, WireFacts, ChannelFacts DEF RequestOK, Requests
    <2> QED BY <1>1, <2>1, <2>2, SettleKept, ApartKept, ListKept DEF Channels
<1> QED BY <1>2, <1>3

LEMMA ListNext == TypeOK /\ ListOK /\ [Next]_vars => ListOK'
<1> SUFFICES ASSUME TypeOK, ListOK, [Next]_vars PROVE ListOK'
    OBVIOUS
<1>1. CASE User
    BY <1>1, ListUser
<1>2. ASSUME NEW r \in wire, Serve(r) PROVE ListOK'
    BY <1>2, ServeFacts, ListKept
<1>3. ASSUME NEW r \in wire, Receive(r) PROVE ListOK'
    BY <1>3, ListReceive
<1>4. ASSUME NEW r \in wire, Fail(r) \/ Drop(r) PROVE ListOK'
    BY <1>4, FailKept, ListKept DEF Fail, Drop, pageVars
<1>5. CASE Reload
    <2>1. list'.cur = 1 /\ page' = page
        BY <1>5 DEF Reload, BlankList
    <2> QED BY <1>5, <2>1, ReloadFacts, SamePage DEF ListOK
<1>6. CASE (\E r \in Rows : DeleteElsewhere(r)) \/ UNCHANGED vars
    BY <1>6, SamePage
       DEF DeleteElsewhere, vars, pageVars, historyVars, ListOK, On
<1> QED BY <1>1, <1>2, <1>3, <1>4, <1>5, <1>6 DEF Next, Network

LEMMA ListInit == Init => ListOK
<1> SUFFICES ASSUME Init PROVE ListOK
    OBVIOUS
<1>1. \A r \in On("list") : r.of = 1
    BY ChannelFacts DEF Init, On, MountRequests, Request
<1>2. HasList => \E r \in On("list") : r.newest
    <2>1. SUFFICES ASSUME HasList PROVE \E r \in On("list") : r.newest
        OBVIOUS
    <2>2. PICK s \in OfKind("list") : Request("list", s.el, 1, NoBody, 1) \in wire
        BY <2>1 DEF HasList, MountRequests, Init
    <2>3. Request("list", s.el, 1, NoBody, 1) \in On("list")
        BY <2>2, ChannelFacts DEF On, Request
    <2> QED BY <2>3 DEF Request
<1> QED BY <1>1, <1>2 DEF Init, BlankList, ListOK

\* Whatever the order of requests and answers, a list that waits for nothing
\* shows the page it says it shows, or the last word on that page was lost.
THEOREM ListsMatch == Spec => []RowsMatchPage
<1>1. Init => TypeOK /\ ListOK
    BY InitType, ListInit
<1>2. TypeOK /\ ListOK /\ [Next]_vars => (TypeOK /\ ListOK)'
    BY NextType, ListNext
<1>3. ListOK => RowsMatchPage
    BY DEF ListOK, RowsMatchPage
<1> QED BY <1>1, <1>2, <1>3, PTL DEF Spec

----------------------------------------------------------------------------
\* The form.

SavesOK == MisfiledNeedsHaste /\ MovedNeedsLateChoices

LEMMA FormKept ==
    ASSUME FormOK, Kept("details"), edit' = edit
    PROVE  FormOK'
BY DEF FormOK, Kept

LEMMA SavesStay == SavesOK /\ SavesKept => SavesOK'
BY DEF SavesOK, SavesKept, MisfiledNeedsHaste, MovedNeedsLateChoices

\* The id goes back to the template before the next one is put in.
LEMMA ActionIsRow == FormOK => \A r \in Rows : ActionFor(r) = r
BY DEF FormOK, ActionFor

LEMMA SaveSent ==
    ASSUME TypeOK, FormOK, SavesOK, NEW s \in Screens, SubmitEdit(s)
    PROVE  SavesOK'
<1> DEFINE body == [base |-> edit.base, choice |-> edit.choice, late |-> edit.late,
                    hurried |-> On("details") # {} \/ "details" \in raced]
<1>1. PICK c : wire' = Aged("none") \cup {Request("save", s.el, edit.action, body, c)}
    BY ChannelFacts DEF SubmitEdit, Send
<1>2. Aged("none") = wire
    BY DEF Aged
<1>3. \A q \in wire' : q \in wire \/ (q.of = edit.action /\ q.body = body)
    BY <1>1, <1>2 DEF Request
<1>4. edit.base # edit.action => body.hurried
    BY DEF FormOK
<1>5. edit.choice = "first" => body.late
    BY DEF SubmitEdit, FormOK
<1>6. body.base = edit.base /\ body.choice = edit.choice
    OBVIOUS
<1> HIDE DEF body
<1> QED BY <1>3, <1>4, <1>5, <1>6
    DEF SavesOK, MisfiledNeedsHaste, MovedNeedsLateChoices

LEMMA FormUser == TypeOK /\ FormOK /\ SavesOK /\ User => FormOK' /\ SavesOK'
<1> SUFFICES ASSUME TypeOK, FormOK, SavesOK, User PROVE FormOK' /\ SavesOK'
    OBVIOUS
<1>1. PICK s \in Screens :
        \/ LoadPreviousPage(s) \/ LoadNextPage(s)
        \/ \E r \in Rows : Edit(s, r) \/ Delete(s, r)
        \/ SubmitEdit(s) \/ Submit(s) \/ ShowApiKey(s) \/ RotateApiKey(s)
    BY DEF User
<1>2. ASSUME NEW k, NEW of, NEW body, Send(k, s.el, of, body),
             Channel(k) # "details", k # "save", edit' = edit
      PROVE  FormOK' /\ SavesOK'
    BY <1>2, SendElsewhere, ApartKept, FormKept, SavesStay DEF Channels
<1>3. CASE LoadPreviousPage(s) \/ LoadNextPage(s)
    BY <1>2, <1>3, ChannelFacts DEF LoadPreviousPage, LoadNextPage
<1>4. ASSUME NEW r \in Rows, Edit(s, r) PROVE FormOK' /\ SavesOK'
    <2>1. edit' = [edit EXCEPT !.uuid = r, !.action = r] /\ Send("details", s.el, r, NoBody)
        BY <1>4, ActionIsRow DEF Edit
    <2>2. /\ edit'.uuid = r /\ edit'.action = r /\ edit'.base = edit.base
          /\ edit'.choice = edit.choice /\ edit'.late = edit.late
        BY <2>1, TypeParts DEF EditType
    <2>3. FormOK'
        BY <2>1, <2>2, SendHere, ChannelFacts DEF FormOK, Channels
    <2>4. SavesOK'
        BY <2>1, SendElsewhere, SavesStay
    <2> QED BY <2>3, <2>4
<1>5. ASSUME NEW r \in Rows, Delete(s, r) PROVE FormOK' /\ SavesOK'
    BY <1>2, <1>5, ChannelFacts DEF Delete, pageVars
<1>6. CASE SubmitEdit(s)
    <2>1. Kept("details") /\ edit' = edit
        BY <1>6, SendElsewhere, ApartKept, ChannelFacts DEF SubmitEdit, Channels
    <2> QED BY <1>6, <2>1, FormKept, SaveSent
<1>7. CASE Submit(s)
    <2>1. \E k \in {"create", "post"} : Send(k, s.el, 0, NoBody)
        BY <1>7 DEF Submit
    <2> QED BY <1>2, <1>7, <2>1, ChannelFacts DEF Submit
<1>8. CASE ShowApiKey(s) \/ RotateApiKey(s)
    BY <1>2, <1>8, ChannelFacts DEF ShowApiKey, RotateApiKey
<1> QED BY <1>1, <1>3, <1>4, <1>5, <1>6, <1>7, <1>8

LEMMA FormReceive ==
    ASSUME TypeOK, FormOK, NEW r \in wire, Receive(r)
    PROVE  FormOK'
<1>1. Settle(r)
    BY DEF Receive, ReceiveList, ReceiveDetails, ReceiveChoices, ReceiveKey,
           ReceiveSaved, ReceiveDeleted
<1>2. CASE ReceiveDetails(r)
    <2>1. r.kind = "details" /\ r.answer = r.of
        BY <1>2, WireFacts DEF ReceiveDetails, Settle, RequestOK
    <2>2. /\ edit'.uuid = edit.uuid /\ edit'.action = edit.action
          /\ edit'.base = r.of /\ edit'.late = ~Loaded(r.el)
          /\ edit'.choice = IF Loaded(r.el) THEN "own" ELSE "none"
        BY <1>2, <2>1, TypeParts DEF ReceiveDetails, EditType
    <2>3. /\ On("details")' = On("details") \ {r} /\ r \in On("details")
          /\ "details" \notin raced' =>
               "details" \notin raced /\ (r.newest \/ \E q \in On("details")' : q.newest)
        BY <1>1, <2>1, SettleKept, ChannelFacts DEF Channels
    <2> QED BY <2>2, <2>3 DEF FormOK
<1>3. CASE ~ReceiveDetails(r)
    <2>1. Channel(r.kind) # "details"
        BY <1>3, ChannelFacts
           DEF Receive, ReceiveList, ReceiveChoices, ReceiveKey, ReceiveSaved,
               ReceiveDeleted
    <2>2. Apart("details") /\ Kept("details")
        BY <1>1, <2>1, SettleKept, ApartKept DEF Channels
    <2>3. CASE ReceiveChoices(r)
        <3>1. /\ edit'.uuid = edit.uuid /\ edit'.action = edit.action
              /\ edit'.base = edit.base /\ edit'.late = edit.late
              /\ edit'.choice = edit.choice \/ edit.choice = "none"
            BY <2>3, TypeParts DEF ReceiveChoices, EditType
        <3> QED BY <2>2, <3>1 DEF FormOK, Apart
    <2>4. CASE ~ReceiveChoices(r)
        <3>1. edit' = edit
            BY <1>3, <2>4 DEF Receive, ReceiveList, ReceiveKey, ReceiveSaved,
               ReceiveDeleted, pageVars
        <3> QED BY <2>2, <3>1, FormKept
    <2> QED BY <2>3, <2>4
<1> QED BY <1>2, <1>3

LEMMA FormNext ==
    TypeOK /\ FormOK /\ SavesOK /\ [Next]_vars => FormOK' /\ SavesOK'
<1> SUFFICES ASSUME TypeOK, FormOK, SavesOK, [Next]_vars PROVE FormOK' /\ SavesOK'
    OBVIOUS
<1>1. CASE User
    BY <1>1, FormUser
<1>2. ASSUME NEW r \in wire, Serve(r) PROVE FormOK' /\ SavesOK'
    BY <1>2, ServeFacts, FormKept, SavesStay
<1>3. ASSUME NEW r \in wire, Receive(r) PROVE FormOK' /\ SavesOK'
    <2>1. Settle(r)
        BY <1>3 DEF Receive, ReceiveList, ReceiveDetails, ReceiveChoices,
           ReceiveKey, ReceiveSaved, ReceiveDeleted
    <2> QED BY <1>3, <2>1, FormReceive, SettleKept, SavesStay
<1>4. ASSUME NEW r \in wire, Fail(r) \/ Drop(r) PROVE FormOK' /\ SavesOK'
    BY <1>4, FailKept, FormKept, SavesStay DEF Fail, Drop, pageVars
<1>5. CASE Reload
    <2>1. edit' = BlankEdit
        BY <1>5 DEF Reload
    <2>2. FormOK'
        BY <1>5, <2>1, ReloadFacts DEF FormOK, BlankEdit
    <2> QED BY <1>5, <2>2, ReloadFacts, SavesStay
<1>6. CASE (\E r \in Rows : DeleteElsewhere(r)) \/ UNCHANGED vars
    <2>1. wire' = wire /\ edit' = edit /\ raced' = raced
        BY <1>6 DEF DeleteElsewhere, vars, pageVars, historyVars
    <2> QED BY <2>1 DEF FormOK, On, SavesOK, MisfiledNeedsHaste, MovedNeedsLateChoices
<1> QED BY <1>1, <1>2, <1>3, <1>4, <1>5, <1>6 DEF Next, Network

LEMMA FormInit == Init => FormOK /\ SavesOK
<1> SUFFICES ASSUME Init PROVE FormOK /\ SavesOK
    OBVIOUS
<1>1. \A r \in wire : r.kind \in {"list", "choices"}
    BY DEF Init, MountRequests, Request
<1>2. On("details") = {}
    BY <1>1, ChannelFacts DEF On
<1> QED BY <1>1, <1>2
    DEF Init, FormOK, BlankEdit, SavesOK, MisfiledNeedsHaste, MovedNeedsLateChoices

LEMMA FormInvariant == Spec => [](FormOK /\ SavesOK)
<1>1. Init => TypeOK /\ FormOK /\ SavesOK
    BY InitType, FormInit
<1>2. TypeOK /\ FormOK /\ SavesOK /\ [Next]_vars => (TypeOK /\ FormOK /\ SavesOK)'
    BY NextType, FormNext
<1> QED BY <1>1, <1>2, PTL DEF Spec

\* A save carries the fields of the row it goes to, unless the user did not
\* wait for them.
THEOREM RowsKeepTheirFields == Spec => []MisfiledNeedsHaste
<1>1. SavesOK => MisfiledNeedsHaste
    BY DEF SavesOK
<1> QED BY <1>1, FormInvariant, PTL

\* A save carries the first choice only if the choices came after the row.
THEOREM ChoicesAreKept == Spec => []MovedNeedsLateChoices
<1>1. SavesOK => MovedNeedsLateChoices
    BY DEF SavesOK
<1> QED BY <1>1, FormInvariant, PTL

----------------------------------------------------------------------------
\* The key.

LEMMA KeyKept ==
    ASSUME KeyOK, Apart("key"), key' = key, apiKey' = apiKey
    PROVE  KeyOK'
BY DEF KeyOK, Apart

LEMMA KeyUser == TypeOK /\ KeyOK /\ User => KeyOK'
<1> SUFFICES ASSUME TypeOK, KeyOK, User PROVE KeyOK'
    OBVIOUS
<1>1. PICK s \in Screens :
        \/ LoadPreviousPage(s) \/ LoadNextPage(s)
        \/ \E r \in Rows : Edit(s, r) \/ Delete(s, r)
        \/ SubmitEdit(s) \/ Submit(s) \/ ShowApiKey(s) \/ RotateApiKey(s)
    BY DEF User
<1>2. key' = key /\ apiKey' = apiKey
    BY <1>1 DEF LoadPreviousPage, LoadNextPage, Edit, Delete, SubmitEdit, Submit,
           ShowApiKey, RotateApiKey, pageVars, serverVars
<1>3. ASSUME NEW k, NEW of, NEW body, Send(k, s.el, of, body), Channel(k) # "key"
      PROVE  KeyOK'
    BY <1>2, <1>3, SendElsewhere, KeyKept DEF Channels
<1>4. ASSUME NEW k \in {"show", "rotate"}, Send(k, s.el, 0, NoBody)
      PROVE  KeyOK'
    <2>1. SUFFICES ASSUME "key" \notin raced' PROVE KeyOK'
        BY DEF KeyOK
    <2>2. On("key") = {}
        BY <1>4, <2>1, SendHere, ChannelFacts DEF Channels
    <2>3. \E q : On("key")' = {q} /\ q.newest /\ q.phase = "sent"
        BY <1>4, <2>2, SendHere, ChannelFacts DEF Channels
    <2> QED BY <2>3 DEF KeyOK
<1>5. CASE LoadPreviousPage(s) \/ LoadNextPage(s)
    BY <1>3, <1>5, ChannelFacts DEF LoadPreviousPage, LoadNextPage
<1>6. ASSUME NEW r \in Rows, Edit(s, r) \/ Delete(s, r) PROVE KeyOK'
    BY <1>3, <1>6, ChannelFacts DEF Edit, Delete
<1>7. CASE SubmitEdit(s)
    BY <1>3, <1>7, ChannelFacts DEF SubmitEdit
<1>8. CASE Submit(s)
    <2>1. \E k \in {"create", "post"} : Send(k, s.el, 0, NoBody)
        BY <1>8 DEF Submit
    <2> QED BY <1>3, <2>1, ChannelFacts
<1>9. CASE ShowApiKey(s) \/ RotateApiKey(s)
    BY <1>4, <1>9 DEF ShowApiKey, RotateApiKey
<1> QED BY <1>1, <1>5, <1>6, <1>7, <1>8, <1>9

LEMMA KeyServe ==
    ASSUME TypeOK, KeyOK, NEW r \in wire, Serve(r)
    PROVE  KeyOK'
<1>1. CASE Channel(r.kind) # "key"
    BY <1>1, ServeFacts, KeyKept
<1>2. CASE Channel(r.kind) = "key"
    <2>1. r.kind \in {"show", "rotate"} /\ r \in On("key")
        BY <1>2, WireFacts, ChannelFacts DEF RequestOK, Requests, On
    <2>2. raced' = raced /\ apiKey' = apiKey
        BY ServeFacts
    <2>3. Answered(r, key', {})
        BY <2>1 DEF Serve, ServeList, ServeDetails, ServeOther, ServeSave,
           ServeCreate, ServeDelete, ServeShow, ServeRotate, Due, serverVars
    <2>4. /\ r.phase # "orphan" => wire' = (wire \ {r}) \cup {Done(r, key', {})}
          /\ r.phase = "orphan" => wire' = wire \ {r}
        BY <2>2, <2>3, AnsweredKept
    <2>5. SUFFICES ASSUME "key" \notin raced PROVE KeyOK'
        BY <2>2 DEF KeyOK
    <2>6. CASE apiKey = 0 /\ \A q \in On("key") : q.phase = "orphan"
        <3>1. \A q \in On("key")' : q.phase = "orphan"
            BY <2>1, <2>4, <2>6 DEF On
        <3> QED BY <2>2, <2>6, <3>1 DEF KeyOK
    <2>7. CASE ~(apiKey = 0 /\ \A q \in On("key") : q.phase = "orphan")
        <3>1. On("key") = {r} /\ r.phase # "orphan" /\ r.newest
            BY <2>1, <2>5, <2>7 DEF KeyOK
        <3>2. /\ Same(Done(r, key', {}), r) /\ Done(r, key', {}).newest = r.newest
              /\ Done(r, key', {}).phase = "done" /\ Done(r, key', {}).answer = key'
            BY WireFacts, DoneFields
        <3>3. On("key")' = {Done(r, key', {})}
            BY <1>2, <2>4, <3>1, <3>2 DEF On, Same
        <3> QED BY <3>1, <3>2, <3>3 DEF KeyOK
    <2> QED BY <2>6, <2>7
<1> QED BY <1>1, <1>2

LEMMA KeyReceive ==
    ASSUME TypeOK, KeyOK, NEW r \in wire, Receive(r)
    PROVE  KeyOK'
<1>1. Settle(r) /\ key' = key
    BY DEF Receive, ReceiveList, ReceiveDetails, ReceiveChoices, ReceiveKey,
           ReceiveSaved, ReceiveDeleted, serverVars
<1>2. CASE ReceiveKey(r)
    <2>1. Channel(r.kind) = "key" /\ r.phase = "done" /\ apiKey' = r.answer
        BY <1>1, <1>2, ChannelFacts DEF ReceiveKey, Settle
    <2>2. /\ On("key")' = On("key") \ {r} /\ r \in On("key")
          /\ "key" \notin raced' => "key" \notin raced
        BY <1>1, <2>1, SettleKept DEF Channels
    <2>3. SUFFICES ASSUME "key" \notin raced PROVE KeyOK'
        BY <2>2 DEF KeyOK
    <2>4. On("key") = {r} /\ r.answer = key
        BY <2>1, <2>2, <2>3 DEF KeyOK
    <2>5. On("key")' = {}
        BY <2>2, <2>4
    <2> QED BY <1>1, <2>1, <2>4, <2>5 DEF KeyOK
<1>3. CASE ~ReceiveKey(r)
    <2>1. Channel(r.kind) # "key" /\ apiKey' = apiKey
        BY <1>3, ChannelFacts
           DEF Receive, ReceiveList, ReceiveDetails, ReceiveChoices,
               ReceiveSaved, ReceiveDeleted
    <2> QED BY <1>1, <2>1, SettleKept, KeyKept DEF Channels
<1> QED BY <1>2, <1>3

LEMMA KeyFail ==
    ASSUME TypeOK, KeyOK, NEW r \in wire, Fail(r) \/ Drop(r)
    PROVE  KeyOK'
<1>1. key' = key /\ apiKey' = apiKey
    BY DEF Fail, Drop, pageVars, serverVars
<1>2. CASE Channel(r.kind) # "key"
    BY <1>1, <1>2, FailKept, KeyKept
<1>3. CASE Channel(r.kind) = "key"
    <2>1. r \in On("key")
        BY <1>3 DEF On
    <2>2. CASE Fail(r)
        <3>1. "key" \in raced => "key" \in raced'
            BY <2>2 DEF Fail
        <3>2. "key" \notin raced => r.newest
            BY <2>1, <2>2 DEF Fail, KeyOK
        <3>3. "key" \in raced'
            BY <1>3, <2>2, <3>1, <3>2 DEF Fail
        <3> QED BY <3>3 DEF KeyOK
    <2>3. CASE Drop(r)
        <3>1. r.phase = "orphan" /\ wire' = wire \ {r} /\ raced' = raced
            BY <2>3 DEF Drop, historyVars
        <3>2. On("key")' = On("key") \ {r}
            BY <3>1 DEF On
        <3> QED BY <1>1, <2>1, <3>1, <3>2 DEF KeyOK
    <2> QED BY <2>2, <2>3
<1> QED BY <1>2, <1>3

LEMMA KeyNext == TypeOK /\ KeyOK /\ [Next]_vars => KeyOK'
<1> SUFFICES ASSUME TypeOK, KeyOK, [Next]_vars PROVE KeyOK'
    OBVIOUS
<1>1. CASE User
    BY <1>1, KeyUser
<1>2. CASE Network
    BY <1>2, KeyServe, KeyReceive, KeyFail DEF Network
<1>3. CASE Reload
    <2>1. apiKey' = 0
        BY <1>3 DEF Reload
    <2> QED BY <1>3, <2>1, ReloadFacts DEF KeyOK
<1>4. CASE (\E r \in Rows : DeleteElsewhere(r)) \/ UNCHANGED vars
    <2>1. wire' = wire /\ apiKey' = apiKey /\ key' = key /\ raced' = raced
        BY <1>4 DEF DeleteElsewhere, vars, pageVars, serverVars, historyVars
    <2> QED BY <2>1 DEF KeyOK, On
<1> QED BY <1>1, <1>2, <1>3, <1>4 DEF Next

LEMMA KeyInit == Init => KeyOK
<1> SUFFICES ASSUME Init PROVE KeyOK
    OBVIOUS
<1>1. \A r \in wire : r.kind \in {"list", "choices"}
    BY DEF Init, MountRequests, Request
<1>2. On("key") = {} /\ apiKey = 0
    BY <1>1, ChannelFacts DEF Init, On
<1> QED BY <1>2 DEF KeyOK

\* The key on the page, when it waits for none, is hidden or the valid one.
THEOREM KeyShownIsTheKey == Spec => []KeyShownIsValid
<1>1. Init => TypeOK /\ KeyOK
    BY InitType, KeyInit
<1>2. TypeOK /\ KeyOK /\ [Next]_vars => (TypeOK /\ KeyOK)'
    BY NextType, KeyNext
<1>3. KeyOK => KeyShownIsValid
    BY DEF KeyOK, KeyShownIsValid
<1> QED BY <1>1, <1>2, <1>3, PTL DEF Spec

----------------------------------------------------------------------------
\* Insertions.

\* The forms of the pages that have a list.
Dialogs == {"add_user_modal", "add_team_modal", "add_group_modal", "mentry",
            "add_deployment_modal"}

\* Their buttons are locked, and nothing else is mounted on their elements.
LEMMA DialogFacts ==
    ASSUME TypeOK, NEW s \in Screens
    PROVE  /\ s.kind = "form" /\ HasList => s.el \in Dialogs /\ s.locks = TRUE
           /\ s.kind \in {"edit", "key"} => s.el \notin Dialogs
<1> USE DEF Screen, install_screen, login_screen, settings_screen, profile_screen,
            profile_api_screen, add_user_modal, add_team_modal, add_group_modal,
            add_host_modal01, add_host_modal02, add_deployment_modal,
            edit_user_modal, edit_team_modal, edit_group_modal, users_list,
            teams_list, groups_list, hosts_list, deployments_list
<1>1. page \in PageNames
    BY PagesAssumption DEF TypeOK
<1>2. s \in ScreensOf[page]
    BY DEF Screens
<1>3. HasList => \E t \in ScreensOf[page] : t.kind = "list"
    BY DEF HasList, OfKind, Screens
<1>4. CASE page \in {"install", "login", "settings", "profile"}
    <2>1. \A t \in ScreensOf[page] :
             t.kind # "list" /\ t.el \in {"app_install", "app_login", "app_settings",
                                          "app_profile", "app_api_key"}
        BY <1>4 DEF ScreensOf
    <2> QED BY <1>2, <1>3, <2>1 DEF Dialogs
<1>5. CASE page \in {"users", "teams", "groups", "group", "deployments"}
    <2>1. \A t \in ScreensOf[page] :
            /\ t.kind = "form" => t.el \in Dialogs /\ t.locks = TRUE
            /\ t.kind \in {"edit", "key"} => t.el \notin Dialogs
        BY <1>5 DEF ScreensOf, Dialogs
    <2> QED BY <1>2, <2>1
<1> QED BY <1>1, <1>4, <1>5 DEF PageNames, ScreensOf

\* The insertions of a form that are on their way.
Creates(el) == {r \in wire : r.kind = "create" /\ r.el = el}

\* Which screens send what.
SenderOK(r) ==
    /\ r.kind = "create" => HasList
    /\ r.kind = "create" => r.el \in Dialogs
    /\ r.kind = "post" => ~HasList
    /\ r.kind \in {"save", "show", "rotate"} => r.el \notin Dialogs

\* One insertion is on its way and its form is locked, or none is; a row has
\* been made of the form only if the answer is still to come.
OnceFor(el) ==
    /\ \A q, r \in Creates(el) : q = r
    /\ \A r \in Creates(el) : /\ el \in busy /\ r.phase # "orphan"
                              /\ r.phase = "sent" => made[el] = 0
    /\ made[el] = 0 \/ (made[el] = 1 /\ \E r \in Creates(el) : r.phase = "done")

OnceOK ==
    /\ \A r \in wire : SenderOK(r)
    /\ \A el \in Elements \ lost : OnceFor(el)

\* Steps after which the same insertions are on their way.
CreatesKept == \A el : Creates(el)' = Creates(el)

SendersKept == \A q \in wire' : \E p \in wire : q.kind = p.kind /\ q.el = p.el

LEMMA SendersStay ==
    ASSUME OnceOK, SendersKept, page' = page
    PROVE  \A r \in wire' : SenderOK(r)'
BY SamePage DEF OnceOK, SendersKept, SenderOK

LEMMA OnceKept ==
    ASSUME OnceOK, \A r \in wire' : SenderOK(r)', CreatesKept,
           page' = page, busy \subseteq busy', made' = made, lost' = lost
    PROVE  OnceOK'
BY SamePage DEF OnceOK, CreatesKept, OnceFor

\* What is sent is added to what is there.
LEMMA SendAdds ==
    ASSUME TypeOK, NEW k \in Reads \cup Writes, NEW el, NEW of, NEW body,
           Send(k, el, of, body)
    PROVE  /\ \A q \in wire' :
                \/ \E p \in wire : q.kind = p.kind /\ q.el = p.el
                \/ q.kind = k /\ q.el = el
           /\ k # "create" => CreatesKept
           /\ k = "create" => /\ \A e : e # el => Creates(e)' = Creates(e)
                              /\ Creates(el) = {} =>
                                   \E q : Creates(el)' = {q} /\ q.phase = "sent"
<1>1. PICK c : wire' = Aged(Channel(k)) \cup {Request(k, el, of, body, c)}
    BY DEF Send
<1> DEFINE new == Request(k, el, of, body, c)
<1>2. new.kind = k /\ new.el = el /\ new.phase = "sent"
    BY DEF Request
<1> HIDE DEF new
<1>3. ASSUME NEW q \in Aged(Channel(k))
      PROVE  \E p \in wire : /\ q.kind = p.kind /\ q.el = p.el
                             /\ p.kind = "create" => q = p
    <2>1. PICK p \in wire : q = IF Channel(k) # "none" /\ Channel(p.kind) = Channel(k)
                                  THEN [p EXCEPT !.newest = FALSE] ELSE p
        BY <1>3 DEF Aged
    <2>2. [p EXCEPT !.newest = FALSE].kind = p.kind /\ [p EXCEPT !.newest = FALSE].el = p.el
        BY WireFacts DEF RequestOK, Requests
    <2> QED BY <2>1, <2>2, ChannelFacts
<1>4. \A p \in wire : p.kind = "create" => p \in Aged(Channel(k))
    BY ChannelFacts DEF Aged
<1>5. \A e : Creates(e)' = Creates(e) \cup {q \in {new} : q.kind = "create" /\ q.el = e}
    BY <1>1, <1>3, <1>4 DEF Creates, new
<1>6. \A q \in wire' : \/ \E p \in wire : q.kind = p.kind /\ q.el = p.el
                       \/ q.kind = k /\ q.el = el
    BY <1>1, <1>2, <1>3 DEF new
<1>7. k # "create" => CreatesKept
    BY <1>2, <1>5 DEF CreatesKept
<1>8. k = "create" => /\ \A e : e # el => Creates(e)' = Creates(e)
                      /\ Creates(el)' = Creates(el) \cup {new}
    BY <1>2, <1>5
<1> QED BY <1>2, <1>6, <1>7, <1>8

LEMMA OnceUser == TypeOK /\ OnceOK /\ User => OnceOK'
<1> SUFFICES ASSUME TypeOK, OnceOK, User PROVE OnceOK'
    OBVIOUS
<1>1. PICK s \in Screens :
        \/ LoadPreviousPage(s) \/ LoadNextPage(s)
        \/ \E r \in Rows : Edit(s, r) \/ Delete(s, r)
        \/ SubmitEdit(s) \/ Submit(s) \/ ShowApiKey(s) \/ RotateApiKey(s)
    BY DEF User
<1>2. page' = page /\ made' = made /\ lost' = lost /\ busy \subseteq busy'
    BY <1>1 DEF LoadPreviousPage, LoadNextPage, Edit, Delete, SubmitEdit, Submit,
           ShowApiKey, RotateApiKey, pageVars
<1>3. ASSUME NEW k \in (Reads \cup Writes) \ {"create"}, NEW of, NEW body,
             Send(k, s.el, of, body),
             k = "post" => ~HasList,
             k \in {"save", "show", "rotate"} => s.el \notin Dialogs
      PROVE  OnceOK'
    <2>1. /\ CreatesKept
          /\ \A q \in wire' : \/ \E p \in wire : q.kind = p.kind /\ q.el = p.el
                              \/ q.kind = k /\ q.el = s.el
        BY <1>3, SendAdds
    <2>2. \A q \in wire' : SenderOK(q)'
        BY <1>2, <1>3, <2>1, SamePage DEF OnceOK, SenderOK
    <2> QED BY <1>2, <2>1, <2>2, OnceKept
<1>4. \A k \in {"list", "details", "delete", "save", "post", "show", "rotate"} :
        k \in (Reads \cup Writes) \ {"create"}
    BY DEF Reads, Writes
<1>5. CASE LoadPreviousPage(s) \/ LoadNextPage(s)
    BY <1>3, <1>4, <1>5 DEF LoadPreviousPage, LoadNextPage
<1>6. ASSUME NEW r \in Rows, Edit(s, r) \/ Delete(s, r) PROVE OnceOK'
    BY <1>3, <1>4, <1>6 DEF Edit, Delete
<1>7. CASE SubmitEdit(s)
    <2>1. s.el \notin Dialogs
        BY <1>7, DialogFacts DEF SubmitEdit, OfKind
    <2> QED BY <1>3, <1>4, <1>7, <2>1 DEF SubmitEdit
<1>8. CASE ShowApiKey(s) \/ RotateApiKey(s)
    <2>1. s.el \notin Dialogs
        BY <1>8, DialogFacts DEF ShowApiKey, RotateApiKey, OfKind
    <2> QED BY <1>3, <1>4, <1>8, <2>1 DEF ShowApiKey, RotateApiKey
<1>9. CASE Submit(s) /\ ~HasList
    BY <1>3, <1>4, <1>9 DEF Submit
<1>10. CASE Submit(s) /\ HasList
    <2>1. /\ Send("create", s.el, 0, NoBody) /\ busy' = busy \cup {s.el}
          /\ s.kind = "form" /\ Free(s)
        BY <1>10 DEF Submit, OfKind
    <2>2. s.el \in Dialogs /\ s.el \notin busy
        BY <1>10, <2>1, DialogFacts DEF Free
    <2>3. "create" \in Reads \cup Writes
        BY DEF Writes
    <2>4. /\ \A q \in wire' : \/ \E p \in wire : q.kind = p.kind /\ q.el = p.el
                              \/ q.kind = "create" /\ q.el = s.el
          /\ \A e : e # s.el => Creates(e)' = Creates(e)
          /\ Creates(s.el) = {} =>
               \E q : Creates(s.el)' = {q} /\ q.phase = "sent"
        BY <2>1, <2>3, SendAdds
    <2>5. \A q \in wire' : SenderOK(q)'
        BY <1>2, <1>10, <2>2, <2>4, SamePage DEF OnceOK, SenderOK
    <2>6. ASSUME NEW el \in Elements \ lost PROVE OnceFor(el)'
        <3>1. OnceFor(el)
            BY DEF OnceOK
        <3>2. CASE el # s.el
            BY <1>2, <2>4, <3>1, <3>2 DEF OnceFor
        <3>3. CASE el = s.el
            <4>1. Creates(el) = {} /\ made[el] = 0
                BY <2>2, <3>1, <3>3 DEF OnceFor
            <4>2. PICK q : Creates(el)' = {q} /\ q.phase = "sent"
                BY <2>4, <3>3, <4>1
            <4> QED BY <1>2, <2>1, <3>3, <4>1, <4>2 DEF OnceFor
        <3> QED BY <3>2, <3>3
    <2> QED BY <1>2, <2>5, <2>6, SamePage DEF OnceOK
<1> QED BY <1>1, <1>5, <1>6, <1>7, <1>8, <1>9, <1>10

LEMMA OnceServe ==
    ASSUME TypeOK, OnceOK, NEW r \in wire, Serve(r)
    PROVE  OnceOK'
<1>1. PICK a, rows : Answered(r, a, rows)
    BY DEF Serve, ServeList, ServeDetails, ServeOther, ServeSave, ServeCreate,
           ServeDelete, ServeShow, ServeRotate
<1>2. /\ page' = page /\ busy' = busy /\ lost' = lost
      /\ r.phase # "done"
    BY DEF Serve, ServeList, ServeDetails, ServeOther, ServeSave, ServeCreate,
           ServeDelete, ServeShow, ServeRotate, pageVars, historyVars, Due
<1> DEFINE d == Done(r, a, rows)
<1>3. d.kind = r.kind /\ d.el = r.el /\ d.phase = "done"
    BY WireFacts DEF Done, RequestOK, Requests
<1>4. wire' = (wire \ {r}) \cup (IF r.phase = "orphan" THEN {} ELSE {d})
    BY <1>1 DEF Answered, Done
<1> HIDE DEF d
<1>5. \A q \in wire' : SenderOK(q)'
    <2>1. SendersKept
        BY <1>3, <1>4 DEF SendersKept
    <2> QED BY <1>2, <2>1, SendersStay
<1>6. CASE r.kind # "create"
    <2>1. CreatesKept
        BY <1>3, <1>4, <1>6 DEF CreatesKept, Creates
    <2>2. made' = made
        BY <1>6 DEF Serve, ServeList, ServeDetails, ServeOther, ServeSave,
           ServeCreate, ServeDelete, ServeShow, ServeRotate, historyVars, Due
    <2> QED BY <1>2, <1>5, <2>1, <2>2, OnceKept
<1>7. CASE r.kind = "create"
    <2>1. made' = [made EXCEPT ![r.el] = @ + 1]
        BY <1>7 DEF Serve, ServeList, ServeDetails, ServeOther, ServeSave,
           ServeCreate, ServeDelete, ServeShow, ServeRotate, Due
    <2>2. ASSUME NEW el \in Elements \ lost PROVE OnceFor(el)'
        <3>1. OnceFor(el)
            BY DEF OnceOK
        <3>2. CASE el # r.el
            <4>1. Creates(el)' = Creates(el)
                BY <1>3, <1>4, <3>2 DEF Creates
            <4>2. made'[el] = made[el]
                BY <2>1, <3>2 DEF TypeOK
            <4> QED BY <1>2, <3>1, <4>1, <4>2 DEF OnceFor
        <3>3. CASE el = r.el
            <4>1. r \in Creates(el)
                BY <1>7, <3>3 DEF Creates
            <4>2. Creates(el) = {r} /\ el \in busy /\ r.phase = "sent" /\ made[el] = 0
                BY <1>2, <3>1, <4>1, WireFacts DEF OnceFor, RequestOK, Requests
            <4>3. Creates(el)' = {d}
                BY <1>3, <1>4, <1>7, <3>3, <4>2 DEF Creates
            <4>4. made'[el] = 1
                BY <2>1, <3>3, <4>2 DEF TypeOK
            <4> QED BY <1>2, <1>3, <4>2, <4>3, <4>4 DEF OnceFor
        <3> QED BY <3>2, <3>3
    <2> QED BY <1>2, <1>5, <2>2, SamePage DEF OnceOK
<1> QED BY <1>6, <1>7

LEMMA OnceReceive ==
    ASSUME TypeOK, OnceOK, NEW r \in wire, Receive(r)
    PROVE  OnceOK'
<1>1. /\ wire' = wire \ {r} /\ page' = page /\ busy' = busy /\ lost' = lost
      /\ r.kind = "create" => made' = [made EXCEPT ![r.el] = 0]
      /\ made' = made \/ made' = [made EXCEPT ![r.el] = 0]
    BY DEF Receive, ReceiveList, ReceiveDetails, ReceiveChoices, ReceiveKey,
           ReceiveSaved, ReceiveDeleted, Settle, pageVars
<1>2. \A q \in wire' : SenderOK(q)'
    <2>1. SendersKept
        BY <1>1 DEF SendersKept
    <2> QED BY <1>1, <2>1, SendersStay
<1>3. ASSUME NEW el \in Elements \ lost PROVE OnceFor(el)'
    <2>1. OnceFor(el)
        BY DEF OnceOK
    <2>2. made'[el] = made[el] \/ (el = r.el /\ made'[el] = 0)
        BY <1>1 DEF TypeOK
    <2>3. CASE r \in Creates(el)
        <3>1. Creates(el)' = {}
            BY <1>1, <2>1, <2>3 DEF OnceFor, Creates
        <3>2. made'[el] = 0
            BY <1>1, <2>3 DEF Creates, TypeOK
        <3> QED BY <3>1, <3>2 DEF OnceFor
    <2>4. CASE r \notin Creates(el)
        <3>1. Creates(el)' = Creates(el)
            BY <1>1, <2>4 DEF Creates
        <3> QED BY <1>1, <2>1, <2>2, <3>1 DEF OnceFor
    <2> QED BY <2>3, <2>4
<1> QED BY <1>1, <1>2, <1>3, SamePage DEF OnceOK

LEMMA OnceFail ==
    ASSUME TypeOK, OnceOK, NEW r \in wire, Fail(r)
    PROVE  OnceOK'
<1>1. PICK late \in BOOLEAN :
        /\ wire' = (wire \ {r}) \cup
                     IF late THEN {[r EXCEPT !.phase = "orphan"]} ELSE {}
        /\ lost' = IF r.kind = "create" /\ (late \/ r.phase = "done")
                     THEN lost \cup {r.el} ELSE lost
    BY DEF Fail
<1> DEFINE o == [r EXCEPT !.phase = "orphan"]
<1>2. o.kind = r.kind /\ o.el = r.el
    BY WireFacts DEF RequestOK, Requests
<1>3. wire' = (wire \ {r}) \cup (IF late THEN {o} ELSE {})
    BY <1>1
<1> HIDE DEF o
<1>4. /\ page' = page /\ made' = made /\ r.phase \in {"sent", "done"}
      /\ busy' = IF r.kind \in Submissions THEN busy \ {r.el} ELSE busy
    BY DEF Fail
<1>5. \A q \in wire' : SenderOK(q)'
    <2>1. SendersKept
        BY <1>2, <1>3 DEF SendersKept
    <2> QED BY <1>4, <2>1, SendersStay
<1>6. ASSUME NEW el \in Elements \ lost' PROVE OnceFor(el)'
    <2>1. el \notin lost /\ OnceFor(el)
        BY <1>1 DEF OnceOK
    <2>2. CASE r \in Creates(el)
        <3>1. r.kind = "create" /\ r.el = el /\ ~late /\ r.phase = "sent"
            BY <1>1, <1>4, <2>2 DEF Creates
        <3>2. Creates(el)' = {}
            BY <1>3, <2>1, <2>2, <3>1 DEF OnceFor, Creates
        <3>3. made[el] = 0
            BY <2>1, <2>2, <3>1 DEF OnceFor
        <3> QED BY <1>4, <3>2, <3>3 DEF OnceFor
    <2>3. CASE r \notin Creates(el)
        <3>1. Creates(el)' = Creates(el)
            BY <1>2, <1>3, <2>3 DEF Creates
        <3>2. Creates(el) # {} /\ el \in busy => el \in busy'
            <4>1. ASSUME NEW q \in Creates(el), r.el = el PROVE r.kind \notin Submissions
                <5>1. HasList /\ el \in Dialogs /\ r.kind # "create"
                    BY <2>3, <4>1 DEF OnceOK, SenderOK, Creates
                <5> QED BY <4>1, <5>1 DEF OnceOK, SenderOK, Submissions
            <4> QED BY <1>4, <4>1
        <3> QED BY <1>4, <2>1, <3>1, <3>2 DEF OnceFor
    <2> QED BY <2>2, <2>3
<1> QED BY <1>4, <1>5, <1>6, SamePage DEF OnceOK

LEMMA OnceDrop ==
    ASSUME TypeOK, OnceOK, NEW r \in wire, Drop(r)
    PROVE  OnceOK'
<1>1. /\ wire' = wire \ {r} /\ r.phase = "orphan"
      /\ page' = page /\ busy' = busy /\ made' = made /\ lost' = lost
    BY DEF Drop, pageVars, historyVars
<1>2. \A q \in wire' : SenderOK(q)'
    <2>1. SendersKept
        BY <1>1 DEF SendersKept
    <2> QED BY <1>1, <2>1, SendersStay
<1>3. ASSUME NEW el \in Elements \ lost PROVE OnceFor(el)'
    <2>1. OnceFor(el)
        BY DEF OnceOK
    <2>2. Creates(el)' = Creates(el)
        BY <1>1, <2>1 DEF OnceFor, Creates
    <2> QED BY <1>1, <2>1, <2>2 DEF OnceFor
<1> QED BY <1>1, <1>2, <1>3, SamePage DEF OnceOK

LEMMA OnceReload == TypeOK /\ OnceOK /\ Reload => OnceOK'
<1> SUFFICES ASSUME TypeOK, OnceOK, Reload PROVE OnceOK'
    OBVIOUS
<1>1. /\ wire' = Orphans \cup MountRequests /\ page' = page /\ made' = made
      /\ lost' = lost \cup {r.el : r \in {q \in wire : q.kind = "create"}}
    BY DEF Reload
<1>2. \A q \in Orphans : \E p \in wire : q.kind = p.kind /\ q.el = p.el
    <2> SUFFICES ASSUME NEW q \in Orphans
                 PROVE  \E p \in wire : q.kind = p.kind /\ q.el = p.el
        OBVIOUS
    <2>1. PICK p \in wire : q = [p EXCEPT !.phase = "orphan"]
        BY DEF Orphans
    <2>2. q.kind = p.kind /\ q.el = p.el
        BY <2>1, WireFacts DEF RequestOK, Requests
    <2> QED BY <2>2
<1>3. \A q \in MountRequests : q.kind \in {"list", "choices"}
    BY DEF MountRequests, Request
<1>4. \A q \in wire' : SenderOK(q)'
    BY <1>1, <1>2, <1>3, SamePage DEF OnceOK, SenderOK
<1>5. ASSUME NEW el \in Elements \ lost' PROVE OnceFor(el)'
    <2>1. el \notin lost /\ OnceFor(el) /\ Creates(el) = {}
        BY <1>1 DEF OnceOK, Creates
    <2>2. Creates(el)' = {}
        BY <1>1, <1>2, <1>3, <2>1 DEF Creates
    <2> QED BY <1>1, <2>1, <2>2 DEF OnceFor
<1> QED BY <1>1, <1>4, <1>5, SamePage DEF OnceOK

LEMMA OnceNext == TypeOK /\ OnceOK /\ [Next]_vars => OnceOK'
<1> SUFFICES ASSUME TypeOK, OnceOK, [Next]_vars PROVE OnceOK'
    OBVIOUS
<1>1. CASE (\E r \in Rows : DeleteElsewhere(r)) \/ UNCHANGED vars
    <2>1. /\ wire' = wire /\ page' = page /\ busy' = busy
          /\ made' = made /\ lost' = lost
        BY <1>1 DEF DeleteElsewhere, vars, pageVars, historyVars
    <2>2. CreatesKept
        BY <2>1 DEF CreatesKept, Creates
    <2>3. \A q \in wire' : SenderOK(q)'
        BY <2>1, SamePage DEF OnceOK, SenderOK
    <2> QED BY <2>1, <2>2, <2>3, OnceKept
<1> QED BY <1>1, OnceUser, OnceServe, OnceReceive, OnceFail, OnceDrop, OnceReload
    DEF Next, Network

LEMMA OnceInit == Init => OnceOK
<1> SUFFICES ASSUME Init PROVE OnceOK
    OBVIOUS
<1>1. \A r \in wire : r.kind \in {"list", "choices"}
    BY DEF Init, MountRequests, Request
<1>2. \A el \in Elements : Creates(el) = {} /\ made[el] = 0
    BY <1>1 DEF Init, Creates
<1> QED BY <1>1, <1>2 DEF OnceOK, OnceFor, SenderOK

\* A form makes a second row of what was entered once only after an answer to
\* it got lost.
THEOREM TwiceCostsAnAnswer == Spec => []TwiceNeedsLoss
<1>1. Init => TypeOK /\ OnceOK
    BY InitType, OnceInit
<1>2. TypeOK /\ OnceOK /\ [Next]_vars => (TypeOK /\ OnceOK)'
    BY NextType, OnceNext
<1>3. OnceOK => TwiceNeedsLoss
    BY DEF OnceOK, OnceFor, TwiceNeedsLoss
<1> QED BY <1>1, <1>2, <1>3, PTL DEF Spec

----------------------------------------------------------------------------
\* Pages of a list.

\* Division, and what the multiples of the limit are.
LEMMA DivFacts ==
    ASSUME NEW n \in Nat, NEW m \in Nat \ {0}
    PROVE  /\ n \div m \in Nat
           /\ (n \div m) * m <= n /\ n < (n \div m) * m + m
OBVIOUS

LEMMA TimesGrows ==
    ASSUME NEW m \in Nat, NEW a \in Nat, NEW b \in Nat, a <= b
    PROVE  a * m <= b * m
OBVIOUS

\* Each position is on a page that there is, and pages do not overlap.
LEMMA PageOfPosition ==
    ASSUME NEW n \in Nat, NEW k \in 0..(n - 1)
    PROVE  \E p \in 1..TotalPages(n) : k \in Offset(p)..(Offset(p) + Limit - 1)
<1> DEFINE q == k \div Limit
           t == TotalPages(n)
<1>1. Limit \in Nat \ {0}
    BY LimitAssumption
<1>2. q \in Nat /\ q * Limit <= k /\ k < q * Limit + Limit
    BY <1>1, DivFacts
<1>3. t \in Nat /\ n + Limit - 1 < t * Limit + Limit
    BY <1>1, DivFacts DEF TotalPages
<1>4. q + 1 \in Nat /\ Offset(q + 1) = q * Limit
    BY <1>1, <1>2 DEF Offset
<1> HIDE DEF q, t
<1>5. q * Limit \in Nat /\ t * Limit \in Nat
    BY <1>1, <1>2, <1>3
<1>6. q < t
    <2>1. SUFFICES ASSUME t <= q PROVE FALSE
        BY <1>2, <1>3
    <2>2. t * Limit <= q * Limit
        BY <1>1, <1>2, <1>3, <2>1, TimesGrows
    <2> QED BY <1>1, <1>2, <1>3, <1>5, <2>2
<1>7. q + 1 \in 1..t
    BY <1>2, <1>3, <1>6
<1>8. k \in Offset(q + 1)..(Offset(q + 1) + Limit - 1)
    BY <1>1, <1>2, <1>4, <1>5
<1> QED BY <1>7, <1>8 DEF t

LEMMA PagesApart ==
    ASSUME NEW p \in Nat \ {0}, NEW q \in Nat \ {0}, p < q
    PROVE  Offset(p) + Limit <= Offset(q)
<1>1. Limit \in Nat
    BY LimitAssumption
<1>2. p * Limit <= (q - 1) * Limit
    BY <1>1, TimesGrows
<1>3. p * Limit = (p - 1) * Limit + Limit
    BY <1>1
<1> QED BY <1>1, <1>2, <1>3 DEF Offset

\* The number of rows a row has before it.
LEMMA PositionFacts ==
    ASSUME TypeOK
    PROVE  /\ Cardinality(live) \in Nat
           /\ \A r \in live :
                Cardinality({s \in live : s > r}) \in 0..(Cardinality(live) - 1)
<1>1. IsFiniteSet(live)
    <2>1. last \in Int /\ live \subseteq 1..last
        BY RowsAssumption DEF TypeOK
    <2>2. IsFiniteSet(1..last)
        BY <2>1, FS_Interval
    <2> QED BY <2>1, <2>2, FS_Subset
<1>2. ASSUME NEW r \in live
      PROVE  Cardinality({s \in live : s > r}) \in 0..(Cardinality(live) - 1)
    <2>1. {s \in live : s > r} \subseteq live \ {r}
        BY RowsAssumption DEF TypeOK
    <2>2. IsFiniteSet(live \ {r}) /\ Cardinality(live \ {r}) = Cardinality(live) - 1
        BY <1>1, FS_RemoveElement
    <2>3. /\ IsFiniteSet({s \in live : s > r})
          /\ Cardinality({s \in live : s > r}) <= Cardinality(live) - 1
        BY <2>1, <2>2, FS_Subset
    <2> QED BY <1>1, <2>3, FS_CardinalityType
<1> QED BY <1>1, <1>2, FS_CardinalityType

\* Turning the pages shows each row on one page, whatever their number, the
\* limit and the deletions.
THEOREM PagesAreComplete == Spec => []PagesShowEveryRow
<1> DEFINE n == Cardinality(live)
           Before(r) == Cardinality({s \in live : s > r})
<1>1. ASSUME TypeOK PROVE PagesShowEveryRow
    <2>1. n \in Nat /\ \A r \in live : Before(r) \in 0..(n - 1)
        BY <1>1, PositionFacts
    <2>2. \A o, r : r \in Slice(o) <=> r \in live /\ Before(r) \in o..(o + Limit - 1)
        BY DEF Slice
    <2> HIDE DEF n, Before
    <2>3. \A r \in live : \E p \in 1..TotalPages(n) : r \in Slice(Offset(p))
        BY <2>1, <2>2, PageOfPosition
    <2>4. UNION {Slice(Offset(p)) : p \in 1..TotalPages(n)} = live
        BY <2>2, <2>3
    <2>5. ASSUME NEW p \in Nat \ {0}, NEW q \in Nat \ {0}, p < q
          PROVE  Slice(Offset(p)) \cap Slice(Offset(q)) = {}
        <3>1. Offset(p) + Limit <= Offset(q)
            BY <2>5, PagesApart
        <3>2. Offset(p) \in Int /\ Offset(q) \in Int /\ Limit \in Int
            BY LimitAssumption DEF Offset
        <3> QED BY <2>1, <2>2, <3>1, <3>2
    <2>6. 1..TotalPages(n) \subseteq Nat \ {0}
        BY <2>1, LimitAssumption, DivFacts DEF TotalPages
    <2>7. \A p, q \in 1..TotalPages(n) :
            p # q => Slice(Offset(p)) \cap Slice(Offset(q)) = {}
        <3>1. \A p, q \in Nat \ {0} : p # q => p < q \/ q < p
            OBVIOUS
        <3> QED BY <2>5, <2>6, <3>1
    <2> QED BY <2>4, <2>7 DEF PagesShowEveryRow, n
<1> QED BY <1>1, PageTypes, PTL

----------------------------------------------------------------------------
\* Rows that are gone: the safety half of DeletedLeaves.

\* A row that is neither in the table nor on the page nor in an answer that
\* may still bring it there.
Gone(row) ==
    /\ row \in 1..last \ live /\ row \notin list.rows
    /\ \A r \in wire : r.kind = "list" => row \notin r.rows

LeavesForGood ==
    \A row \in Rows :
        /\ Gone(row) => Gone(row)'
        /\ Reload /\ row \in 1..last \ live => Gone(row)'

\* Where the rows of an answer, and those on the page, come from.
AnswersAreCurrent ==
    \A q \in wire' : q.kind = "list" =>
        q.rows \subseteq live \/ \E p \in wire : p.kind = "list" /\ q.rows = p.rows

PageShowsAnswers ==
    \/ list'.rows \in {{}, list.rows}
    \/ \E p \in wire : p.kind = "list" /\ list'.rows = p.rows

RowsAreNew == last' \in Nat /\ last <= last' /\ live' \subseteq live \cup {last + 1}

LEMMA SendBringsNothing ==
    ASSUME TypeOK, NEW k, NEW el, NEW of, NEW body, Send(k, el, of, body)
    PROVE  AnswersAreCurrent
<1>1. PICK c : wire' = Aged(Channel(k)) \cup {Request(k, el, of, body, c)}
    BY DEF Send
<1>2. Request(k, el, of, body, c).rows = {}
    BY DEF Request
<1>3. ASSUME NEW q \in Aged(Channel(k))
      PROVE  \E p \in wire : q.kind = p.kind /\ q.rows = p.rows
    BY <1>3 DEF Aged, TypeOK, RequestOK, Requests
<1> QED BY <1>1, <1>2, <1>3 DEF AnswersAreCurrent

LEMMA UserBringsNothing ==
    ASSUME TypeOK, User
    PROVE  AnswersAreCurrent /\ UNCHANGED <<last, live>> /\ list'.rows = list.rows
<1>1. PICK s \in Screens :
        \/ LoadPreviousPage(s) \/ LoadNextPage(s)
        \/ \E r \in Rows : Edit(s, r) \/ Delete(s, r)
        \/ SubmitEdit(s) \/ Submit(s) \/ ShowApiKey(s) \/ RotateApiKey(s)
    BY DEF User
<1>2. \E k, of, body : Send(k, s.el, of, body)
    BY <1>1 DEF LoadPreviousPage, LoadNextPage, Edit, Delete, SubmitEdit, Submit,
       ShowApiKey, RotateApiKey
<1>3. UNCHANGED <<last, live>>
    BY <1>1 DEF LoadPreviousPage, LoadNextPage, Edit, Delete, SubmitEdit, Submit,
       ShowApiKey, RotateApiKey, serverVars
<1>4. list' = list \/ \E n : list' = [list EXCEPT !.cur = n]
    BY <1>1 DEF LoadPreviousPage, LoadNextPage, Edit, Delete, SubmitEdit, Submit,
       ShowApiKey, RotateApiKey, pageVars
<1>5. list'.rows = list.rows
    BY <1>4, TypeParts DEF ListType
<1> QED BY <1>2, <1>3, <1>5, SendBringsNothing

LEMMA ServeBringsLive ==
    ASSUME TypeOK, NEW r \in wire, Serve(r)
    PROVE  AnswersAreCurrent /\ RowsAreNew /\ list' = list
<1>1. \E a, rows : Answered(r, a, rows) /\ (r.kind = "list" => rows \subseteq live)
    BY DEF Serve, ServeList, ServeDetails, ServeOther, ServeSave, ServeCreate,
           ServeDelete, ServeShow, ServeRotate, Due, Slice
<1>2. PICK a, rows : Answered(r, a, rows) /\ (r.kind = "list" => rows \subseteq live)
    BY <1>1
<1>3. RequestOK(r)
    BY DEF TypeOK
<1>4. Done(r, a, rows).kind = r.kind /\ Done(r, a, rows).rows = rows
    BY <1>3 DEF RequestOK, Requests, Done
<1>5. \A q \in wire' : q \in wire \/ q = Done(r, a, rows)
    BY <1>2 DEF Answered, Done
<1>6. AnswersAreCurrent
    BY <1>2, <1>4, <1>5 DEF AnswersAreCurrent
<1>7. last \in Nat
    BY RowsAssumption DEF TypeOK
<1>8. /\ last' \in {last, last + 1} /\ live' \subseteq live \cup {last + 1}
      /\ list' = list
    BY DEF Serve, ServeList, ServeDetails, ServeOther, ServeSave, ServeCreate,
           ServeDelete, ServeShow, ServeRotate, serverVars, pageVars
<1> QED BY <1>6, <1>7, <1>8 DEF RowsAreNew

LEMMA ReceiveBringsAnswers ==
    ASSUME TypeOK, NEW r \in wire, Receive(r)
    PROVE  AnswersAreCurrent /\ PageShowsAnswers /\ UNCHANGED <<last, live>>
<1>1. wire' = wire \ {r} /\ UNCHANGED <<last, live>>
    BY DEF Receive, ReceiveList, ReceiveDetails, ReceiveChoices, ReceiveKey,
           ReceiveSaved, ReceiveDeleted, Settle, serverVars
<1>2. \/ list' = list
      \/ r.kind = "list"
         /\ list' = [list EXCEPT !.rows = r.rows, !.total = r.answer, !.shown = r.of]
    BY DEF Receive, ReceiveList, ReceiveDetails, ReceiveChoices, ReceiveKey,
           ReceiveSaved, ReceiveDeleted
<1>3. PageShowsAnswers
    BY <1>2, TypeParts DEF ListType, PageShowsAnswers
<1> QED BY <1>1, <1>3 DEF AnswersAreCurrent

LEMMA LossBringsNothing ==
    ASSUME TypeOK, NEW r \in wire, Fail(r) \/ Drop(r)
    PROVE  AnswersAreCurrent /\ list' = list /\ UNCHANGED <<last, live>>
<1>1. list' = list /\ UNCHANGED <<last, live>>
    BY DEF Fail, Drop, pageVars, serverVars
<1>2. \A q \in wire' : q \in wire \/ q = [r EXCEPT !.phase = "orphan"]
    BY DEF Fail, Drop
<1>3. [r EXCEPT !.phase = "orphan"].kind = r.kind /\ [r EXCEPT !.phase = "orphan"].rows = r.rows
    BY DEF TypeOK, RequestOK, Requests
<1>4. AnswersAreCurrent
    BY <1>2, <1>3 DEF AnswersAreCurrent
<1> QED BY <1>1, <1>4

LEMMA ReloadBringsNothing ==
    ASSUME TypeOK, Reload
    PROVE  /\ \A q \in wire' : q.kind = "list" => q.rows = {}
           /\ list'.rows = {} /\ UNCHANGED <<last, live>>
<1>1. list'.rows = {} /\ UNCHANGED <<last, live>> /\ wire' = Orphans \cup MountRequests
    BY DEF Reload, BlankList, serverVars
<1>2. \A q \in MountRequests : q.rows = {}
    BY DEF MountRequests, Request
<1>3. ASSUME NEW q \in Orphans PROVE q.kind # "list"
    <2>1. PICK p \in wire : p.kind \in Writes /\ q = [p EXCEPT !.phase = "orphan"]
        BY <1>3 DEF Orphans
    <2>2. q.kind = p.kind
        BY <2>1, WireFacts, OrphanFields DEF Same
    <2> QED BY <2>1, <2>2 DEF Writes
<1> QED BY <1>1, <1>2, <1>3

LEMMA RowsFlow ==
    ASSUME TypeOK, [Next]_vars
    PROVE  AnswersAreCurrent /\ PageShowsAnswers /\ RowsAreNew
<1>0. last \in Nat
    BY RowsAssumption DEF TypeOK
<1>1. UNCHANGED <<last, live>> => RowsAreNew
    BY <1>0 DEF RowsAreNew
<1>2. CASE User
    BY <1>1, <1>2, UserBringsNothing DEF PageShowsAnswers
<1>3. ASSUME NEW r \in wire, Serve(r)
      PROVE  AnswersAreCurrent /\ PageShowsAnswers /\ RowsAreNew
    BY <1>3, ServeBringsLive DEF PageShowsAnswers
<1>4. ASSUME NEW r \in wire, Receive(r)
      PROVE  AnswersAreCurrent /\ PageShowsAnswers /\ RowsAreNew
    BY <1>1, <1>4, ReceiveBringsAnswers
<1>5. ASSUME NEW r \in wire, Fail(r) \/ Drop(r)
      PROVE  AnswersAreCurrent /\ PageShowsAnswers /\ RowsAreNew
    BY <1>1, <1>5, LossBringsNothing DEF PageShowsAnswers
<1>6. CASE Reload
    BY <1>1, <1>6, ReloadBringsNothing DEF AnswersAreCurrent, PageShowsAnswers
<1>7. CASE \E r \in Rows : DeleteElsewhere(r)
    <2>1. wire' = wire /\ list' = list /\ last' = last /\ live' \subseteq live
        BY <1>7 DEF DeleteElsewhere, pageVars
    <2> QED BY <1>0, <2>1 DEF AnswersAreCurrent, PageShowsAnswers, RowsAreNew
<1>8. CASE UNCHANGED vars
    BY <1>0, <1>8 DEF vars, pageVars, serverVars, AnswersAreCurrent, PageShowsAnswers,
       RowsAreNew
<1> QED BY <1>2, <1>3, <1>4, <1>5, <1>6, <1>7, <1>8 DEF Next, Network

LEMMA GoneStays ==
    ASSUME TypeOK, [Next]_vars, NEW row \in Rows, Gone(row) PROVE Gone(row)'
<1>1. AnswersAreCurrent /\ PageShowsAnswers /\ RowsAreNew
    BY RowsFlow
<1>2. last \in Nat /\ row \in Nat
    BY RowsAssumption DEF TypeOK, Rows
<1>3. row \in 1..last' \ live'
    BY <1>1, <1>2 DEF Gone, RowsAreNew
<1>4. row \notin list'.rows
    BY <1>1 DEF Gone, PageShowsAnswers
<1>5. \A r \in wire' : r.kind = "list" => row \notin r.rows
    BY <1>1 DEF Gone, AnswersAreCurrent
<1> QED BY <1>3, <1>4, <1>5 DEF Gone

\* Once a row is gone nothing brings it back to the page, and a reload makes
\* every deleted row gone: the answers of the old document do not reach the new
\* one.  DeletedLeaves needs no more of the code than that the reload comes.
THEOREM DeletedStayAway ==
    Spec => /\ [][LeavesForGood]_vars
            /\ \A row \in Rows : [](Gone(row) => [](row \notin list.rows))
<1>1. ASSUME TypeOK, Reload, NEW row \in 1..last \ live PROVE Gone(row)'
    BY <1>1, ReloadBringsNothing DEF Gone
<1>2. TypeOK /\ [Next]_vars => [LeavesForGood]_vars
    BY <1>1, GoneStays DEF LeavesForGood
<1>3. ASSUME NEW row \in Rows
      PROVE  Spec => [](Gone(row) => [](row \notin list.rows))
    <2>1. TypeOK /\ Gone(row) /\ [Next]_vars => Gone(row)'
        BY GoneStays
    <2>2. Gone(row) => row \notin list.rows
        BY DEF Gone
    <2> QED BY <2>1, <2>2, PageTypes, PTL DEF Spec
<1>4. Spec => [][LeavesForGood]_vars
    BY <1>2, PageTypes, PTL DEF Spec
<1> QED BY <1>3, <1>4

----------------------------------------------------------------------------
\* Busy forms

Saves == {"save", "create", "post"}

\* Something that will free the form is on its way: an answer, or a failure.
WaitedFor(el) == \E r \in wire : r.el = el /\ r.kind \in Saves /\ r.phase # "orphan"

\* A form that reloads is busy only while its submission is on the wire or
\* the timer of the reload runs.
BusyIsWaitedFor ==
    \A s \in Screens :
        s.reloads /\ s.kind \in {"form", "edit"} /\ s.el \in busy =>
            reloading \/ WaitedFor(s.el)

\* The page of the API key has no form that reloads.
LEMMA KeyScreens ==
    ASSUME TypeOK, NEW s \in Screens, NEW t \in Screens, s.kind = "key"
    PROVE  t.reloads = FALSE
<1> USE DEF Screen, install_screen, login_screen, settings_screen, profile_screen,
            profile_api_screen, add_user_modal, add_team_modal, add_group_modal,
            add_host_modal01, add_host_modal02, add_deployment_modal,
            edit_user_modal, edit_team_modal, edit_group_modal, users_list,
            teams_list, groups_list, hosts_list, deployments_list
<1>1. page \in PageNames
    BY PagesAssumption DEF TypeOK
<1>2. s \in ScreensOf[page] /\ t \in ScreensOf[page]
    BY DEF Screens
<1>3. CASE page \in {"install", "login", "settings"}
    <2>1. \A u \in ScreensOf[page] : u.kind # "key"
        BY <1>3 DEF ScreensOf
    <2> QED BY <1>2, <2>1
<1>4. CASE page \in {"users", "teams", "groups", "group", "deployments"}
    <2>1. \A u \in ScreensOf[page] : u.kind # "key"
        BY <1>4 DEF ScreensOf
    <2> QED BY <1>2, <2>1
<1>5. CASE page = "profile"
    <2>1. \A u \in ScreensOf[page] : u.reloads = FALSE
        BY <1>5 DEF ScreensOf
    <2> QED BY <1>2, <2>1
<1> QED BY <1>1, <1>3, <1>4, <1>5 DEF PageNames, ScreensOf

LEMMA SendWaits ==
    ASSUME TypeOK, NEW k, NEW el, NEW of, NEW body, Send(k, el, of, body)
    PROVE  /\ \A e : WaitedFor(e) => WaitedFor(e)'
           /\ k \in Saves => WaitedFor(el)'
<1>1. PICK c : wire' = Aged(Channel(k)) \cup {Request(k, el, of, body, c)}
    BY DEF Send
<1>2. ASSUME NEW e, WaitedFor(e) PROVE WaitedFor(e)'
    <2>1. PICK r \in wire : r.el = e /\ r.kind \in Saves /\ r.phase # "orphan"
        BY <1>2 DEF WaitedFor
    <2>2. Channel(r.kind) = "none"
        BY <2>1, ChannelFacts DEF Saves
    <2>3. r \in Aged(Channel(k))
        <3>1. r = IF Channel(k) # "none" /\ Channel(r.kind) = Channel(k)
                    THEN [r EXCEPT !.newest = FALSE] ELSE r
            BY <2>2
        <3> QED BY <3>1, <2>1 DEF Aged
    <2> QED BY <1>1, <2>1, <2>3 DEF WaitedFor
<1>3. ASSUME k \in Saves PROVE WaitedFor(el)'
    <2> DEFINE new == Request(k, el, of, body, c)
    <2>1. new.kind = k /\ new.el = el /\ new.phase = "sent"
        BY DEF Request
    <2>2. new \in wire'
        BY <1>1
    <2> HIDE DEF new
    <2> QED BY <1>3, <2>1, <2>2 DEF WaitedFor
<1> QED BY <1>2, <1>3

LEMMA BusyUser == TypeOK /\ BusyIsWaitedFor /\ User => BusyIsWaitedFor'
<1> SUFFICES ASSUME TypeOK, BusyIsWaitedFor, User PROVE BusyIsWaitedFor'
    OBVIOUS
<1>1. PICK s \in Screens :
        \/ LoadPreviousPage(s) \/ LoadNextPage(s)
        \/ \E r \in Rows : Edit(s, r) \/ Delete(s, r)
        \/ SubmitEdit(s) \/ Submit(s) \/ ShowApiKey(s) \/ RotateApiKey(s)
    BY DEF User
<1>2. page' = page /\ reloading' = reloading
    BY <1>1 DEF LoadPreviousPage, LoadNextPage, Edit, Delete, SubmitEdit, Submit,
           ShowApiKey, RotateApiKey, pageVars
<1>3. Screens' = Screens
    BY <1>2, SamePage
<1>4. \E k, of, body :
        /\ Send(k, s.el, of, body)
        /\ \/ busy' = busy
           \/ busy' = busy \cup {s.el} /\ k \in Saves
           \/ busy' = busy \cup {s.el} /\ s.kind = "key"
    <2>1. CASE LoadPreviousPage(s)
        BY <2>1 DEF LoadPreviousPage
    <2>2. CASE LoadNextPage(s)
        BY <2>2 DEF LoadNextPage
    <2>3. ASSUME NEW r \in Rows, Edit(s, r)
          PROVE  Send("details", s.el, ActionFor(r), NoBody) /\ busy' = busy
        BY <2>3 DEF Edit
    <2>4. ASSUME NEW r \in Rows, Delete(s, r)
          PROVE  Send("delete", s.el, r, NoBody) /\ busy' = busy
        BY <2>4 DEF Delete, pageVars
    <2>5. CASE SubmitEdit(s)
        BY <2>5 DEF SubmitEdit, Saves
    <2>6. CASE Submit(s)
        <3>1. (IF HasList THEN "create" ELSE "post") \in Saves
            BY DEF Saves
        <3> QED BY <2>6, <3>1 DEF Submit
    <2>7. CASE ShowApiKey(s)
        BY <2>7 DEF ShowApiKey, OfKind
    <2>8. CASE RotateApiKey(s)
        BY <2>8 DEF RotateApiKey, OfKind
    <2> QED BY <1>1, <2>1, <2>2, <2>3, <2>4, <2>5, <2>6, <2>7, <2>8
<1>5. PICK k, of, body :
        /\ Send(k, s.el, of, body)
        /\ \/ busy' = busy
           \/ busy' = busy \cup {s.el} /\ k \in Saves
           \/ busy' = busy \cup {s.el} /\ s.kind = "key"
    BY <1>4
<1>6. /\ \A e : WaitedFor(e) => WaitedFor(e)'
      /\ k \in Saves => WaitedFor(s.el)'
    BY <1>5, SendWaits
<1> SUFFICES ASSUME NEW t \in Screens, t.reloads, t.kind \in {"form", "edit"},
                    t.el \in busy'
             PROVE  reloading \/ WaitedFor(t.el)'
    BY <1>2, <1>3 DEF BusyIsWaitedFor
<1>7. CASE t.el \in busy
    BY <1>6, <1>7 DEF BusyIsWaitedFor
<1>8. CASE t.el \notin busy
    <2>1. t.el = s.el /\ s.kind # "key"
        BY <1>5, <1>8, KeyScreens
    <2> QED BY <1>5, <1>6, <1>8, <2>1
<1> QED BY <1>7, <1>8

\* A step that leaves the busy forms, or frees some, and whose request keeps
\* waiting, frees its form or starts the timer.
LEMMA BusyKept ==
    ASSUME BusyIsWaitedFor, page' = page, busy' \subseteq busy,
           reloading => reloading',
           \A s \in Screens :
               s.reloads /\ s.el \in busy' /\ WaitedFor(s.el) =>
                   reloading' \/ WaitedFor(s.el)'
    PROVE  BusyIsWaitedFor'
<1>1. Screens' = Screens
    BY SamePage
<1> QED BY <1>1 DEF BusyIsWaitedFor

LEMMA BusyNetwork ==
    ASSUME TypeOK, BusyIsWaitedFor, NEW r \in wire,
           Serve(r) \/ Receive(r) \/ Fail(r) \/ Drop(r)
    PROVE  BusyIsWaitedFor'
<1>1. RequestOK(r)
    BY DEF TypeOK
<1>2. ASSUME wire \ {r} \subseteq wire', NEW s \in Screens, WaitedFor(s.el)
      PROVE  \/ WaitedFor(s.el)'
             \/ r.el = s.el /\ r.kind \in Saves /\ r.phase # "orphan"
    BY <1>2 DEF WaitedFor
<1>3. CASE Serve(r)
    <2>1. PICK a, rows : Answered(r, a, rows)
        BY <1>3 DEF Serve, ServeList, ServeDetails, ServeOther, ServeSave, ServeCreate,
               ServeDelete, ServeShow, ServeRotate
    <2>2. page' = page /\ busy' = busy /\ reloading' = reloading
        BY <1>3 DEF Serve, ServeList, ServeDetails, ServeOther, ServeSave, ServeCreate,
               ServeDelete, ServeShow, ServeRotate, pageVars
    <2>3. /\ Done(r, a, rows).kind = r.kind /\ Done(r, a, rows).el = r.el
          /\ Done(r, a, rows).phase = "done"
        BY <1>1 DEF Done, RequestOK, Requests
    <2>4. r.phase # "orphan" => Done(r, a, rows) \in wire'
        BY <2>1 DEF Answered, Done
    <2>5. wire \ {r} \subseteq wire'
        BY <2>1 DEF Answered
    <2>6. ASSUME NEW s \in Screens, WaitedFor(s.el) PROVE WaitedFor(s.el)'
        <3>1. CASE r.el = s.el /\ r.kind \in Saves /\ r.phase # "orphan"
            BY <2>3, <2>4, <3>1 DEF WaitedFor
        <3> QED BY <1>2, <2>5, <2>6, <3>1
    <2> QED BY <2>2, <2>6, BusyKept
<1>4. CASE Receive(r)
    <2>1. wire' = wire \ {r} /\ page' = page /\ busy' = busy
        BY <1>4 DEF Receive, ReceiveList, ReceiveDetails, ReceiveChoices, ReceiveKey,
               ReceiveSaved, ReceiveDeleted, Settle
    <2>3. reloading => reloading'
        BY <1>4 DEF Receive, ReceiveList, ReceiveDetails, ReceiveChoices, ReceiveKey,
               ReceiveSaved, ReceiveDeleted
    <2>2. ASSUME NEW s \in Screens, s.reloads, r.el = s.el, r.kind \in Saves
          PROVE  reloading'
        <3>1. r.kind \notin {"list", "details", "choices", "show", "rotate", "delete"}
            BY <2>2 DEF Saves
        <3>2. ReceiveSaved(r)
            BY <1>4, <3>1 DEF Receive, ReceiveList, ReceiveDetails, ReceiveChoices,
                   ReceiveKey, ReceiveDeleted
        <3>3. \E t \in Screens : t.el = r.el /\ t.reloads
            BY <2>2
        <3> QED BY <3>2, <3>3 DEF ReceiveSaved
    <2> QED BY <1>2, <2>1, <2>2, <2>3, BusyKept
<1>5. CASE Fail(r)
    <2>1. /\ wire \ {r} \subseteq wire' /\ page' = page /\ reloading' = reloading
          /\ busy' = IF r.kind \in Submissions THEN busy \ {r.el} ELSE busy
        BY <1>5 DEF Fail
    <2>2. r.kind \in Saves => r.el \notin busy'
        BY <2>1 DEF Saves, Submissions
    <2> QED BY <1>2, <2>1, <2>2, BusyKept
<1>6. CASE Drop(r)
    <2>1. /\ wire' = wire \ {r} /\ r.phase = "orphan" /\ page' = page
          /\ busy' = busy /\ reloading' = reloading
        BY <1>6 DEF Drop, pageVars
    <2> QED BY <1>2, <2>1, BusyKept
<1> QED BY <1>3, <1>4, <1>5, <1>6

LEMMA BusyNext == TypeOK /\ BusyIsWaitedFor /\ [Next]_vars => BusyIsWaitedFor'
<1> SUFFICES ASSUME TypeOK, BusyIsWaitedFor, [Next]_vars PROVE BusyIsWaitedFor'
    OBVIOUS
<1>1. CASE Reload
    BY <1>1 DEF Reload, BusyIsWaitedFor
<1>2. ASSUME NEW r \in Rows, DeleteElsewhere(r) PROVE BusyIsWaitedFor'
    <2>1. page' = page /\ busy' = busy /\ reloading' = reloading /\ wire' = wire
        BY <1>2 DEF DeleteElsewhere, pageVars
    <2> QED BY <2>1, BusyKept DEF WaitedFor
<1>3. CASE UNCHANGED vars
    <2>1. page' = page /\ busy' = busy /\ reloading' = reloading /\ wire' = wire
        BY <1>3 DEF vars, pageVars
    <2> QED BY <2>1, BusyKept DEF WaitedFor
<1> QED BY <1>1, <1>2, <1>3, BusyUser, BusyNetwork DEF Next, Network

\* What makes forms come back (FormsComeBack): a form that reloads is never
\* left busy with nothing under way that could free it.
THEOREM BusyFormsAreWaitedFor == Spec => []BusyIsWaitedFor
<1>1. Init => TypeOK /\ BusyIsWaitedFor
    BY InitType DEF Init, BusyIsWaitedFor
<1>2. TypeOK /\ BusyIsWaitedFor /\ [Next]_vars => (TypeOK /\ BusyIsWaitedFor)'
    BY NextType, BusyNext
<1> QED BY <1>1, <1>2, PTL DEF Spec

=============================================================================
