--------------------------- MODULE WebPageProofs ---------------------------
(***************************************************************************)
(* Proofs about WebPage, for every page, any number of rows, keys and      *)
(* requests in flight: type correctness and what the page shows, saves and *)
(* reveals whatever the order of the answers.                              *)
(***************************************************************************)
EXTENDS WebPage, FiniteSetTheorems, TLAPS

\* The records of the page.
ListType == [cur : Nat \ {0}, total : Nat, rows : SUBSET Rows, shown : Nat]
EditType == [uuid : {0} \cup Rows, action : {0} \cup Rows, base : {0} \cup Rows,
             choice : {"none", "first", "own"}, late : BOOLEAN]

\* Rows have positive numbers, and there are finitely many.
LEMMA RowFacts == /\ \A r \in Rows : r \in Nat /\ r # 0
                  /\ TypeOK => /\ live \subseteq Rows
                               /\ Cardinality(live) \in Nat
<1>1. \A r \in Rows : r \in Nat /\ r # 0
    BY DEF Rows
<1>2. TypeOK => /\ live \subseteq Rows
                /\ Cardinality(live) \in Nat
    <2> SUFFICES ASSUME TypeOK PROVE /\ live \subseteq Rows
                                     /\ Cardinality(live) \in Nat
        OBVIOUS
    <2>1. last \in Nat /\ last <= MaxRows /\ live \subseteq 1..last
        BY RowsAssumption DEF TypeOK
    <2>2. live \subseteq Rows
        BY <2>1, RowsAssumption DEF Rows
    <2>3. IsFiniteSet(1..last)
        BY <2>1, FS_Interval
    <2>4. IsFiniteSet(live)
        BY <2>1, <2>3, FS_Subset
    <2> QED BY <2>2, <2>4, FS_CardinalityType
<1> QED BY <1>1, <1>2

\* A body that has the type makes a request that has the type.
LEMMA NewRequestOK ==
    ASSUME NEW k \in Reads \cup Writes, NEW el \in Elements, NEW of \in Nat,
           NEW body \in Body, NEW c \in 1..MaxWire,
           k \in {"details", "delete"} => of \in Rows,
           k = "save" => body.base \in Rows
    PROVE  RequestOK(Request(k, el, of, body, c))
BY BoundsAssumption DEF Request, RequestOK, Requests, Reads, Writes

LEMMA NoBodyType == NoBody \in Body
BY DEF NoBody, Body

LEMMA AgedOK ==
    ASSUME \A r \in wire : RequestOK(r), NEW ch, NEW q \in Aged(ch)
    PROVE  RequestOK(q)
<1>1. PICK r \in wire : q = r \/ q = [r EXCEPT !.newest = FALSE]
    BY DEF Aged
<1>2. RequestOK(r)
    BY <1>1
<1> QED BY <1>1, <1>2 DEF RequestOK, Requests

\* Sending keeps the type of what is in flight and of what went wrong.
LEMMA SendType ==
    ASSUME TypeOK, NEW k \in Reads \cup Writes, NEW el \in Elements,
           NEW of \in Nat, NEW body \in Body, Send(k, el, of, body),
           k \in {"details", "delete"} => of \in Rows,
           k = "save" => body.base \in Rows
    PROVE  /\ \A r \in wire' : RequestOK(r)
           /\ raced' \subseteq {"list", "details", "key"}
<1>1. PICK c \in 1..MaxWire :
        wire' = Aged(Channel(k)) \cup {Request(k, el, of, body, c)}
    BY DEF Send, FreeCopies
<1>2. RequestOK(Request(k, el, of, body, c))
    BY NewRequestOK
<1>3. \A r \in wire : RequestOK(r)
    BY DEF TypeOK
<1>4. \A r \in wire' : RequestOK(r)
    BY <1>1, <1>2, <1>3, AgedOK
<1>5. raced' \subseteq {"list", "details", "key"}
    BY DEF Send, TypeOK
<1> QED BY <1>4, <1>5

\* So does an answer of the server.
LEMMA AnsweredType ==
    ASSUME TypeOK, NEW r \in wire, NEW a \in Nat, NEW rows \in SUBSET Rows,
           Answered(r, a, rows),
           r.kind = "details" => a = r.of,
           r.kind \in {"show", "rotate"} => a \in 0..MaxKeys + 1
    PROVE  \A q \in wire' : RequestOK(q)
<1>1. RequestOK([r EXCEPT !.phase = "done", !.answer = a, !.rows = rows])
    BY DEF TypeOK, RequestOK, Requests
<1> QED BY <1>1 DEF Answered, TypeOK

\* And a callback.
LEMMA SettleType ==
    ASSUME TypeOK, NEW r \in wire, Settle(r)
    PROVE  /\ \A q \in wire' : RequestOK(q)
           /\ raced' \subseteq {"list", "details", "key"}
BY DEF TypeOK, RequestOK, Requests, Settle, Channel, Reads, Writes

\* No step changes the page, and so neither what depends on it alone.
LEMMA SamePage ==
    ASSUME page' = page
    PROVE  /\ Screens' = Screens /\ Elements' = Elements /\ HasList' = HasList
           /\ \A k : OfKind(k)' = OfKind(k)
           /\ \A r : RequestOK(r)' <=> RequestOK(r)
<1>1. Screens' = Screens
    BY DEF Screens
<1>2. \A k : OfKind(k)' = OfKind(k)
    BY <1>1 DEF OfKind
<1>3. Elements' = Elements
    BY <1>1 DEF Elements
<1>4. HasList' = HasList
    BY <1>2 DEF HasList
<1>5. \A r : RequestOK(r)' <=> RequestOK(r)
    BY <1>3 DEF RequestOK, Requests
<1> QED BY <1>1, <1>2, <1>3, <1>4, <1>5

LEMMA ScreenElements == \A k : \A s \in OfKind(k) : s.el \in Elements
BY DEF OfKind, Elements

LEMMA MountOK == \A r \in MountRequests : RequestOK(r)
<1>1. \A s \in Screens : s.el \in Elements
    BY DEF Elements
<1>2. 1 \in 1..MaxWire
    BY BoundsAssumption
<1>3. ASSUME NEW s \in OfKind("list")
      PROVE  RequestOK(Request("list", s.el, 1, NoBody, 1))
    BY <1>2, NewRequestOK, NoBodyType, ScreenElements DEF Reads, Writes
<1>4. ASSUME NEW s \in Screens
      PROVE  RequestOK(Request("choices", s.el, 0, NoBody, 1))
    BY <1>1, <1>2, NewRequestOK, NoBodyType DEF Reads, Writes
<1> QED BY <1>3, <1>4 DEF MountRequests

LEMMA InitType == Init => TypeOK
<1> SUFFICES ASSUME Init PROVE TypeOK
    OBVIOUS
<1>1. \A r \in wire : RequestOK(r)
    BY MountOK DEF Init
<1>2. list \in ListType /\ edit \in EditType
    BY LimitAssumption DEF Init, BlankList, BlankEdit, ListType, EditType
<1>3. made \in [Elements -> Nat] /\ page \in Pages
    BY DEF Init
<1>4. /\ choices \subseteq Elements /\ busy \subseteq Elements /\ lost \subseteq Elements
      /\ raced \subseteq {"list", "details", "key"} /\ reloading \in BOOLEAN
    BY DEF Init
<1>5. /\ apiKey \in 0..MaxKeys + 1 /\ key \in 1..MaxKeys + 1
      /\ last \in 0..MaxRows /\ live \subseteq 1..last
    BY RowsAssumption, BoundsAssumption DEF Init
<1> QED BY <1>1, <1>2, <1>3, <1>4, <1>5 DEF TypeOK, ListType, EditType

\* A step that keeps the page and the types of the parts keeps them all.
LEMMA StepType ==
    ASSUME TypeOK, page' = page, list' \in ListType, edit' \in EditType,
           choices' \subseteq Elements, busy' \subseteq Elements,
           apiKey' \in 0..MaxKeys + 1, reloading' \in BOOLEAN,
           \A r \in wire' : RequestOK(r),
           last' \in 0..MaxRows, live' \subseteq 1..last', key' \in 1..MaxKeys + 1,
           raced' \subseteq {"list", "details", "key"},
           made' \in [Elements -> Nat], lost' \subseteq Elements
    PROVE  TypeOK'
<1>1. Elements' = Elements
    BY SamePage
<1>2. (\A r \in wire : RequestOK(r))'
    BY SamePage
<1> QED BY <1>1, <1>2 DEF TypeOK, ListType, EditType

\* What TypeOK says of the parts, in the words of StepType.
LEMMA TypeParts ==
    ASSUME TypeOK
    PROVE  /\ list \in ListType /\ edit \in EditType
           /\ list.cur \in Nat \ {0} /\ list.total \in Nat /\ list.rows \subseteq Rows
           /\ edit.uuid \in {0} \cup Rows /\ edit.action \in {0} \cup Rows
           /\ edit.base \in {0} \cup Rows
BY DEF TypeOK, ListType, EditType

LEMMA TurnType ==
    ASSUME TypeOK, NEW s \in Screens,
           LoadPreviousPage(s) \/ LoadNextPage(s)
           \/ \E r \in Rows : Delete(s, r)
    PROVE  TypeOK'
<1> USE DEF pageVars, serverVars, historyVars
<1>1. /\ s.el \in Elements /\ NoBody \in Body
      /\ "list" \in Reads \cup Writes /\ "delete" \in Reads \cup Writes
    BY NoBodyType DEF Elements, Reads, Writes
<1>2. ASSUME NEW n \in Nat \ {0}, list' = [list EXCEPT !.cur = n],
             Send("list", s.el, n, NoBody),
             UNCHANGED <<page, edit, choices, busy, apiKey, reloading,
                         serverVars, made, lost>>
      PROVE  TypeOK'
    <2>1. list' \in ListType
        BY <1>2, TypeParts DEF ListType
    <2>2. /\ \A r \in wire' : RequestOK(r)
          /\ raced' \subseteq {"list", "details", "key"}
        BY <1>1, <1>2, SendType
    <2> QED BY <1>2, <2>1, <2>2, StepType, TypeParts DEF TypeOK
<1>3. CASE LoadPreviousPage(s)
    <2>1. list.cur \in Nat /\ list.cur > 1 /\ list.cur - 1 \in Nat \ {0}
        BY <1>3, TypeParts DEF LoadPreviousPage
    <2> QED BY <1>2, <1>3, <2>1 DEF LoadPreviousPage
<1>4. CASE LoadNextPage(s)
    <2>1. list.cur + 1 \in Nat \ {0}
        BY TypeParts
    <2> QED BY <1>2, <1>4, <2>1 DEF LoadNextPage
<1>5. CASE \E r \in Rows : Delete(s, r)
    <2>1. PICK r \in Rows : Delete(s, r)
        BY <1>5
    <2>2. /\ \A q \in wire' : RequestOK(q)
          /\ raced' \subseteq {"list", "details", "key"}
        BY <1>1, <2>1, RowFacts, SendType DEF Delete
    <2> QED BY <2>1, <2>2, StepType, TypeParts DEF Delete, TypeOK
<1> QED BY <1>3, <1>4, <1>5

LEMMA ActionForType == TypeOK => \A r \in Rows : ActionFor(r) \in Rows
BY TypeParts DEF ActionFor

LEMMA FormType ==
    ASSUME TypeOK, NEW s \in Screens,
           \/ \E r \in Rows : Edit(s, r)
           \/ SubmitEdit(s) \/ Submit(s) \/ ShowApiKey(s) \/ RotateApiKey(s)
    PROVE  TypeOK'
<1> USE DEF pageVars, serverVars, historyVars
<1>1. /\ s.el \in Elements /\ NoBody \in Body /\ 0 \in Nat
      /\ \A k \in {"details", "save", "create", "post", "show", "rotate"} :
            k \in Reads \cup Writes
    BY NoBodyType DEF Elements, Reads, Writes
<1>2. CASE \E r \in Rows : Edit(s, r)
    <2>1. PICK r \in Rows : Edit(s, r)
        BY <1>2
    <2>2. edit' \in EditType
        BY <2>1, TypeParts, ActionForType DEF Edit, EditType
    <2>3. /\ \A q \in wire' : RequestOK(q)
          /\ raced' \subseteq {"list", "details", "key"}
        BY <1>1, <2>1, RowFacts, ActionForType, SendType DEF Edit
    <2> QED BY <2>1, <2>2, <2>3, StepType, TypeParts DEF Edit, TypeOK
<1>3. ASSUME NEW k \in {"create", "post", "show", "rotate"},
             Send(k, s.el, 0, NoBody), busy' = busy \cup {s.el},
             UNCHANGED <<page, list, edit, choices, apiKey, reloading,
                         serverVars, made, lost>>
      PROVE  TypeOK'
    <2>1. /\ \A q \in wire' : RequestOK(q)
          /\ raced' \subseteq {"list", "details", "key"}
        BY <1>1, <1>3, SendType
    <2> QED BY <1>1, <1>3, <2>1, StepType, TypeParts DEF TypeOK
<1>4. CASE SubmitEdit(s)
    <2> DEFINE body == [base |-> edit.base, choice |-> edit.choice,
                        late |-> edit.late,
                        hurried |-> On("details") # {} \/ "details" \in raced]
    <2>1. body \in Body /\ body.base \in Rows
        BY <1>4, TypeParts DEF SubmitEdit, Body, EditType
    <2>2. edit.action \in Nat
        BY TypeParts, RowFacts
    <2>3. Send("save", s.el, edit.action, body)
        BY <1>4 DEF SubmitEdit
    <2>4. /\ \A q \in wire' : RequestOK(q)
          /\ raced' \subseteq {"list", "details", "key"}
        <3> HIDE DEF body
        <3> QED BY <1>1, <2>1, <2>2, <2>3, RowFacts, SendType
    <2> QED BY <1>1, <1>4, <2>4, StepType, TypeParts DEF SubmitEdit, TypeOK
<1>5. CASE Submit(s)
    <2>1. \E k \in {"create", "post"} : Send(k, s.el, 0, NoBody)
        BY <1>5 DEF Submit
    <2> QED BY <1>3, <1>5, <2>1 DEF Submit
<1>6. CASE ShowApiKey(s)
    BY <1>3, <1>6 DEF ShowApiKey
<1>7. CASE RotateApiKey(s)
    BY <1>3, <1>7 DEF RotateApiKey
<1> QED BY <1>2, <1>4, <1>5, <1>6, <1>7

LEMMA SliceType == TypeOK => \A n : Slice(n) \in SUBSET Rows
BY RowFacts DEF Slice

LEMMA ServeType ==
    ASSUME TypeOK, NEW r \in wire, Serve(r)
    PROVE  TypeOK'
<1> USE DEF pageVars, serverVars, historyVars
<1>1. RequestOK(r)
    BY DEF TypeOK
<1>2. Slice(Offset(r.of)) \in SUBSET Rows /\ {} \in SUBSET Rows
      /\ Cardinality(live) \in Nat /\ r.of \in Nat /\ 0 \in Nat
      /\ key \in Nat
    BY <1>1, SliceType, RowFacts, BoundsAssumption DEF RequestOK, Requests, TypeOK
<1>3. ASSUME NEW a \in Nat, NEW rows \in SUBSET Rows, Answered(r, a, rows),
             r.kind = "details" => a = r.of,
             r.kind \in {"show", "rotate"} => a \in 0..MaxKeys + 1,
             UNCHANGED <<page, pageVars, serverVars, historyVars>>
      PROVE  TypeOK'
    <2>1. \A q \in wire' : RequestOK(q)
        BY <1>3, AnsweredType
    <2> QED BY <1>3, <2>1, StepType, TypeParts DEF TypeOK
<1>4. CASE ServeList(r)
    BY <1>2, <1>3, <1>4 DEF ServeList, Due
<1>5. CASE ServeDetails(r)
    BY <1>2, <1>3, <1>5 DEF ServeDetails, Due
<1>6. CASE ServeOther(r)
    BY <1>2, <1>3, <1>6 DEF ServeOther, Due
<1>7. CASE ServeSave(r)
    BY <1>2, <1>3, <1>7 DEF ServeSave, Due
<1>8. CASE ServeCreate(r)
    <2>1. \A q \in wire' : RequestOK(q)
        BY <1>2, <1>8, AnsweredType DEF ServeCreate, Due
    <2>2. last' \in 0..MaxRows /\ live' \subseteq 1..last'
        BY <1>8, RowsAssumption DEF ServeCreate, TypeOK
    <2>3. r.el \in Elements
        BY <1>1 DEF RequestOK, Requests
    <2>4. made' \in [Elements -> Nat]
        BY <1>8, <2>3 DEF ServeCreate, TypeOK
    <2> QED BY <1>8, <2>1, <2>2, <2>4, StepType, TypeParts DEF ServeCreate, TypeOK
<1>9. CASE ServeDelete(r)
    <2>1. \A q \in wire' : RequestOK(q)
        BY <1>2, <1>9, AnsweredType DEF ServeDelete, Due
    <2> QED BY <1>9, <2>1, StepType, TypeParts DEF ServeDelete, TypeOK
<1>10. CASE ServeShow(r)
    <2>1. key \in 0..MaxKeys + 1
        BY BoundsAssumption DEF TypeOK
    <2> QED BY <1>2, <1>3, <1>10, <2>1 DEF ServeShow, Due
<1>11. CASE ServeRotate(r)
    <2>1. key' \in 1..MaxKeys + 1 /\ key + 1 \in Nat /\ key + 1 \in 0..MaxKeys + 1
        BY <1>11, BoundsAssumption DEF ServeRotate, TypeOK
    <2>2. \A q \in wire' : RequestOK(q)
        BY <1>2, <1>11, <2>1, AnsweredType DEF ServeRotate, Due
    <2> QED BY <1>11, <2>1, <2>2, StepType, TypeParts DEF ServeRotate, TypeOK
<1> QED BY <1>4, <1>5, <1>6, <1>7, <1>8, <1>9, <1>10, <1>11 DEF Serve

LEMMA ReceiveType ==
    ASSUME TypeOK, NEW r \in wire, Receive(r)
    PROVE  TypeOK'
<1> USE DEF pageVars, serverVars, historyVars
<1>1. RequestOK(r)
    BY DEF TypeOK
<1>2. r.el \in Elements /\ r.of \in Nat /\ r.answer \in Nat /\ r.rows \in SUBSET Rows
    BY <1>1 DEF RequestOK, Requests
<1>3. ASSUME Settle(r)
      PROVE  /\ \A q \in wire' : RequestOK(q)
             /\ raced' \subseteq {"list", "details", "key"}
    BY <1>3, SettleType
<1>4. CASE ReceiveList(r)
    <2>1. list' \in ListType
        BY <1>2, <1>4, TypeParts DEF ReceiveList, ListType
    <2> QED BY <1>3, <1>4, <2>1, StepType, TypeParts DEF ReceiveList, TypeOK
<1>5. CASE ReceiveDetails(r)
    <2>1. r.answer \in Rows
        BY <1>1, <1>5 DEF ReceiveDetails, Settle, RequestOK
    <2>2. edit' \in EditType
        BY <1>5, <2>1, TypeParts DEF ReceiveDetails, EditType
    <2> QED BY <1>3, <1>5, <2>2, StepType, TypeParts DEF ReceiveDetails, TypeOK
<1>6. CASE ReceiveChoices(r)
    <2>1. edit' \in EditType
        BY <1>6, TypeParts DEF ReceiveChoices, EditType
    <2>2. choices' \subseteq Elements
        BY <1>2, <1>6 DEF ReceiveChoices, TypeOK
    <2> QED BY <1>3, <1>6, <2>1, <2>2, StepType, TypeParts DEF ReceiveChoices, TypeOK
<1>7. CASE ReceiveKey(r)
    <2>1. apiKey' \in 0..MaxKeys + 1
        BY <1>1, <1>7 DEF ReceiveKey, RequestOK
    <2> QED BY <1>3, <1>7, <2>1, StepType, TypeParts DEF ReceiveKey, TypeOK
<1>8. CASE ReceiveSaved(r)
    <2>1. made' \in [Elements -> Nat]
        BY <1>2, <1>8 DEF ReceiveSaved, TypeOK
    <2>2. reloading' \in BOOLEAN
        BY <1>8 DEF ReceiveSaved, TypeOK
    <2> QED BY <1>3, <1>8, <2>1, <2>2, StepType, TypeParts DEF ReceiveSaved, TypeOK
<1>9. CASE ReceiveDeleted(r)
    BY <1>3, <1>9, StepType, TypeParts DEF ReceiveDeleted, TypeOK
<1> QED BY <1>4, <1>5, <1>6, <1>7, <1>8, <1>9 DEF Receive

LEMMA OrphanOK ==
    ASSUME TypeOK, NEW r \in wire, r.kind \in Writes
    PROVE  RequestOK([r EXCEPT !.phase = "orphan"])
BY DEF TypeOK, RequestOK, Requests, Reads, Writes

LEMMA LossType ==
    ASSUME TypeOK,
           \/ \E r \in wire : Fail(r) \/ Drop(r)
           \/ Reload \/ \E r \in Rows : DeleteElsewhere(r)
    PROVE  TypeOK'
<1> USE DEF pageVars, serverVars, historyVars
<1>1. \A r \in wire : RequestOK(r) /\ r.el \in Elements
    BY DEF TypeOK, RequestOK, Requests
<1>2. ASSUME NEW r \in wire, Fail(r) PROVE TypeOK'
    <2>1. PICK late \in BOOLEAN :
            /\ late => r.phase = "sent" /\ r.kind \in Writes
            /\ wire' = (wire \ {r}) \cup
                         IF late THEN {[r EXCEPT !.phase = "orphan"]} ELSE {}
            /\ lost' = IF r.kind = "create" /\ (late \/ r.phase = "done")
                         THEN lost \cup {r.el} ELSE lost
        BY <1>2 DEF Fail
    <2>2. \A q \in wire' : RequestOK(q)
        BY <1>1, <2>1, OrphanOK
    <2>3. raced' \subseteq {"list", "details", "key"}
        BY <1>2 DEF Fail, TypeOK, Channel
    <2>4. lost' \subseteq Elements /\ busy' \subseteq Elements
        BY <1>1, <1>2, <2>1 DEF Fail, TypeOK
    <2> QED BY <1>2, <2>2, <2>3, <2>4, StepType, TypeParts DEF Fail, TypeOK
<1>3. ASSUME NEW r \in wire, Drop(r) PROVE TypeOK'
    BY <1>1, <1>3, StepType, TypeParts DEF Drop, TypeOK
<1>4. CASE Reload
    <2>1. \A q \in wire' : RequestOK(q)
        BY <1>4, MountOK, OrphanOK DEF Reload, Orphans
    <2>2. list' \in ListType /\ edit' \in EditType
        BY <1>4, LimitAssumption DEF Reload, BlankList, BlankEdit, ListType, EditType
    <2>3. lost' \subseteq Elements
        BY <1>1, <1>4 DEF Reload, TypeOK
    <2>4. apiKey' \in 0..MaxKeys + 1
        BY <1>4, BoundsAssumption DEF Reload
    <2> QED BY <1>4, <2>1, <2>2, <2>3, <2>4, StepType DEF Reload, TypeOK
<1>5. ASSUME NEW r \in Rows, DeleteElsewhere(r) PROVE TypeOK'
    BY <1>1, <1>5, StepType, TypeParts DEF DeleteElsewhere, TypeOK
<1> QED BY <1>2, <1>3, <1>4, <1>5

LEMMA NextType == TypeOK /\ [Next]_vars => TypeOK'
<1> SUFFICES ASSUME TypeOK, [Next]_vars PROVE TypeOK'
    OBVIOUS
<1>1. CASE User
    BY <1>1, TurnType, FormType DEF User
<1>2. CASE Network
    BY <1>2, ServeType, ReceiveType, LossType DEF Network
<1>3. CASE Reload \/ \E r \in Rows : DeleteElsewhere(r)
    BY <1>3, LossType
<1>4. CASE UNCHANGED vars
    BY <1>4, SamePage, StepType, TypeParts
       DEF vars, pageVars, serverVars, historyVars, TypeOK
<1> QED BY <1>1, <1>2, <1>3, <1>4 DEF Next

\* The page, the requests and the tables keep their types, in every order of
\* requests, answers, failures and reloads.
THEOREM PageTypes == Spec => []TypeOK
<1>1. Init => TypeOK
    BY InitType
<1>2. TypeOK /\ [Next]_vars => TypeOK'
    BY NextType
<1> QED BY <1>1, <1>2, PTL DEF Spec

=============================================================================
