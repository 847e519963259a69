--------------------------- MODULE SessionProofs ----------------------------
(***************************************************************************)
(* Proofs about Session, for any set of users, order numbers, technicians  *)
(* and slots, whatever fails and whether or not the user waits.            *)
(***************************************************************************)
EXTENDS Session, TLAPS

(* What one step may do to the requests on their way. *)

\* Requests are answered or taken away, none is sent or altered.
NoneSent ==
  \A t \in Slots : req'[t] # Idle =>
    /\ req[t] # Idle
    /\ req'[t].op = req[t].op /\ req'[t].as = req[t].as
    /\ req'[t].sets = req[t].sets /\ req'[t].heard = req[t].heard

\* At most q is sent, the others are as before or taken away.
OnlySent(q) ==
  \A t \in Slots : req'[t] # Idle => req'[t] = q \/ req'[t] = req[t]

ReqType == req \in [Slots -> Request \cup {Idle}]

\* A fresh request is well typed.
LEMMA BlankTyped ==
  ASSUME NEW op \in Operations, NEW as \in Users \cup {Nobody}
  PROVE  /\ Blank(op, as) \in Request
         /\ Blank(op, as) # Idle
<1>1. 1 \in Numbers
  BY NumberAssumption DEF Numbers
<1>2. Blank(op, as).op # "none"
  BY DEF Blank, Operations
<1> QED
  BY <1>1, <1>2 DEF Blank, Request, Idle, NoTech, Statuses

\* Idle is no request.
LEMMA IdleIsNoRequest == Idle \notin Request
<1>1. \A r \in Request : r.op # "none"
  BY DEF Request, Operations
<1> QED
  BY <1>1 DEF Idle

\* Sending keeps the type and adds one request.
LEMMA SendEffect ==
  ASSUME ReqType, NEW q \in Request, Send(q)
  PROVE  ReqType' /\ OnlySent(q)
BY DEF ReqType, Send, FirstFree, OnlySent

\* Answering keeps the type and adds no request.
LEMMA AnswerEffect ==
  ASSUME ReqType, NEW s \in Slots, req[s] # Idle,
         NEW a \in {"none", "ok", "unauthorized", "error"}, NEW rows \in SUBSET Entry,
         AnswerWith(s, a, rows)
  PROVE  ReqType' /\ NoneSent
<1>1. req[s] \in Request
  BY DEF ReqType
<1>2. req'[s] = [req[s] EXCEPT !.answer = a, !.rows = rows]
  BY DEF AnswerWith, ReqType
<1>3. \A t \in Slots : t # s => req'[t] = req[t]
  BY DEF AnswerWith, ReqType
<1>4. [req[s] EXCEPT !.answer = a, !.rows = rows] \in Request
  BY <1>1 DEF Request
<1>5. DOMAIN req' = Slots /\ req' = [t \in Slots |-> req'[t]]
  BY DEF AnswerWith, ReqType
<1>6. ReqType'
  BY <1>2, <1>3, <1>4, <1>5 DEF ReqType
<1>7. /\ req'[s].op = req[s].op /\ req'[s].as = req[s].as
      /\ req'[s].sets = req[s].sets /\ req'[s].heard = req[s].heard
  BY <1>1, <1>2 DEF Request
<1> QED
  BY <1>3, <1>6, <1>7 DEF NoneSent

\* Taking an answer away keeps the type and adds no request.
LEMMA DoneEffect ==
  ASSUME ReqType, NEW s \in Slots, Done(s)
  PROVE  ReqType' /\ NoneSent /\ req'[s] = Idle
BY DEF ReqType, Done, NoneSent

\* Loading the orders puts one request in the place of the answer.
LEMMA LoadEffect ==
  ASSUME ReqType, NEW s \in Slots, NEW u \in Users \cup {Nobody}, Load(s, u)
  PROVE  /\ ReqType'
         /\ OnlySent(Blank("listOrders", u))
         /\ req'[s] = Blank("listOrders", u)
<1>1. Blank("listOrders", u) \in Request
  BY BlankTyped DEF Operations
<1> QED
  BY <1>1 DEF ReqType, Load, OnlySent

-----------------------------------------------------------------------------
(* What requests do to the orders. *)

\* A PATCH writes a row.
LEMMA EditedTyped ==
  ASSUME NEW row \in Row, NEW c \in Request
  PROVE  Edited(row, c) \in Row
<1>1. c.sets \in BOOLEAN /\ c.tech \in TechIds \cup {NoTech} /\ c.status \in Statuses \cup {Keep}
  BY DEF Request
<1>2. row.executor \in TechIds \cup {NoTech} /\ row.status \in Statuses
  BY DEF Row
<1>3. Edited(row, c).executor \in TechIds \cup {NoTech}
  BY <1>1, <1>2 DEF Edited
<1>4. Edited(row, c).status \in Statuses
  BY <1>1, <1>2 DEF Edited, Statuses
<1>5. Edited(row, c) = [executor |-> Edited(row, c).executor, status |-> Edited(row, c).status]
  BY DEF Edited
<1> QED
  BY <1>3, <1>4, <1>5 DEF Row

TableType == table \in [Numbers -> Row \cup {Absent}]

\* A list answers with orders that exist.
LEMMA ListingTyped ==
  ASSUME TableType, NEW u \in Users
  PROVE  Listing(u) \in SUBSET Entry
<1>1. ASSUME NEW n \in Placed
      PROVE  AsEntry(n, u) \in Entry
  BY <1>1 DEF Placed, TableType, AsEntry, Entry
<1> QED
  BY <1>1 DEF Listing

\* The server keeps the types and sends nothing.
LEMMA ServeEffect ==
  ASSUME ReqType, TableType, NEW s \in Slots, Serve(s)
  PROVE  ReqType' /\ TableType' /\ NoneSent
<1>1. req[s] \in Request /\ req[s] # Idle
  BY DEF Serve, Waits, ReqType
<1>2. req[s].as \in Users \cup {Nobody}
  BY <1>1 DEF Request
<1>3. CASE req[s].as = Nobody /\ AnswerWith(s, "unauthorized", {}) /\ UNCHANGED table
  BY <1>1, <1>3, AnswerEffect DEF TableType
<1>4. CASE req[s].as # Nobody /\ Reads(s)
  <2>1. Listing(req[s].as) \in SUBSET Entry
    BY <1>2, <1>4, ListingTyped
  <2>2. (IF req[s].op = "listOrders" THEN Listing(req[s].as) ELSE {}) \in SUBSET Entry
    BY <2>1
  <2> QED
    BY <1>1, <1>4, <2>2, AnswerEffect DEF Reads, TableType
<1>5. CASE req[s].as # Nobody /\ Creates(s)
  <2>1. CASE AnswerWith(s, "error", {}) /\ UNCHANGED table
    BY <1>1, <2>1, AnswerEffect DEF TableType
  <2>2. ASSUME NEW n \in Numbers \ Placed,
               table' = [table EXCEPT ![n] = [executor |-> NoTech, status |-> "created"]],
               AnswerWith(s, "ok", {[number |-> n, row |-> table'[n], as |-> req[s].as]})
        PROVE  ReqType' /\ TableType' /\ NoneSent
    <3>1. [executor |-> NoTech, status |-> "created"] \in Row
      BY DEF Row, Statuses
    <3>2. TableType' /\ table'[n] \in Row
      BY <2>2, <3>1 DEF TableType
    <3>3. {[number |-> n, row |-> table'[n], as |-> req[s].as]} \in SUBSET Entry
      BY <1>2, <1>5, <3>2 DEF Entry
    <3> QED
      BY <1>1, <2>2, <3>2, <3>3, AnswerEffect
  <2> QED
    BY <1>5, <2>1, <2>2 DEF Creates
<1>6. CASE req[s].as # Nobody /\ Updates(s)
  <2> DEFINE n == req[s].number
  <2>1. CASE AnswerWith(s, "error", {}) /\ UNCHANGED table
    BY <1>1, <2>1, AnswerEffect DEF TableType
  <2>2. CASE /\ n \in Placed
             /\ table' = [table EXCEPT ![n] = Edited(table[n], req[s])]
             /\ AnswerWith(s, "ok", {[number |-> n, row |-> table'[n], as |-> req[s].as]})
    <3>1. n \in Numbers /\ table[n] \in Row
      BY <2>2 DEF Placed, TableType
    <3>2. Edited(table[n], req[s]) \in Row
      BY <1>1, <3>1, EditedTyped
    <3>3. TableType' /\ table'[n] \in Row
      BY <2>2, <3>1, <3>2 DEF TableType
    <3>4. {[number |-> n, row |-> table'[n], as |-> req[s].as]} \in SUBSET Entry
      BY <1>2, <1>6, <3>1, <3>3 DEF Entry
    <3> QED
      BY <1>1, <2>2, <3>3, <3>4, AnswerEffect
  <2> QED
    BY <1>6, <2>1, <2>2 DEF Updates
<1> QED
  BY <1>3, <1>4, <1>5, <1>6 DEF Serve

-----------------------------------------------------------------------------
(* Types *)

\* What the screens and the boot show of an answer is well typed, and so is what
\* they send.
LEMMA UserActsTyped ==
  ASSUME TypeOK, UserActs
  PROVE  TypeOK'
<1> USE DEF TypeOK
<1>0. ReqType
  BY DEF ReqType
<1>1. ASSUME NEW u \in Users, LogIn(u) PROVE TypeOK'
  <2>1. Blank("login", u) \in Request
    BY BlankTyped DEF Operations
  <2> QED
    BY <1>0, <1>1, <2>1, SendEffect DEF LogIn, page, ReqType
<1>2. CASE LogOut
  BY <1>2 DEF LogOut, Screens
<1>3. CASE Navigate
  BY <1>3 DEF Navigate, ScreensFrom, Screens, DispatcherScreens
<1>4. CASE SubmitOrder
  <2>1. Blank("createOrder", token) \in Request
    BY BlankTyped DEF Operations
  <2> QED
    BY <1>0, <1>4, <2>1, SendEffect DEF SubmitOrder, page, ReqType
<1>5. CASE ReloadPage
  <2>1. token # Nobody => Blank("me", token) \in Request
    BY BlankTyped DEF Operations
  <2>2. ASSUME NEW t \in Slots, Outlives(t) PROVE [req[t] EXCEPT !.heard = FALSE] \in Request
    <3>1. req[t] \in Request
      BY <2>2 DEF Outlives, Waits
    <3> QED
      BY <3>1 DEF Request
  <2>3. req' \in [Slots -> Request \cup {Idle}]
    BY <1>5, <2>1, <2>2 DEF ReloadPage
  <2> QED
    BY <1>5, <2>3 DEF ReloadPage, Screens
<1>6. ASSUME NEW n \in Numbers, OpenDetail(n) PROVE TypeOK'
  BY <1>6 DEF OpenDetail, Screens
<1>7. CanClick /\ screen = "detail" => Patch \in Request
  <2>1. SUFFICES ASSUME CanClick, screen = "detail" PROVE Patch \in Request
    OBVIOUS
  <2>2. selected \in Numbers
    BY <2>1 DEF CanClick, ShownNumbers, Entry
  <2>3. Blank("updateOrder", token) \in Request
    BY BlankTyped DEF Operations
  <2> QED
    BY <2>2, <2>3 DEF Patch, Request
<1>8. ASSUME NEW t \in TechIds, Assign(t) PROVE TypeOK'
  <2>1. [Patch EXCEPT !.sets = TRUE, !.tech = t] \in Request
    BY <1>7, <1>8 DEF Assign, Request
  <2> QED
    BY <1>0, <1>8, <2>1, SendEffect DEF Assign, page, ReqType
<1>9. ASSUME NEW row \in Row, CancelOrder(row) PROVE TypeOK'
  <2>1. [Patch EXCEPT !.status = "cancelled"] \in Request
    BY <1>7, <1>9 DEF CancelOrder, IsOpen, Request, Statuses
  <2> QED
    BY <1>0, <1>9, <2>1, SendEffect DEF CancelOrder, Screens, ReqType
<1>10. ASSUME NEW row \in Row, ChangeStatus(row) PROVE TypeOK'
  <2>1. \A st \in {"inwork", "done"} : [Patch EXCEPT !.status = st] \in Request
    BY <1>7, <1>10 DEF ChangeStatus, IsOpen, Request, Statuses
  <2> QED
    BY <1>0, <1>10, <2>1, SendEffect DEF ChangeStatus, page, ReqType
<1> QED
  BY <1>1, <1>2, <1>3, <1>4, <1>5, <1>6, <1>8, <1>9, <1>10 DEF UserActs

LEMMA ReceiveTyped ==
  ASSUME TypeOK, NEW s \in Slots, Receive(s)
  PROVE  TypeOK'
<1> USE DEF TypeOK
<1>0. ReqType /\ req[s] \in Request
  BY DEF ReqType, Receive
<1>1. req[s].as \in Users \cup {Nobody} /\ req[s].rows \in SUBSET Entry
  BY <1>0 DEF Request
<1>2. TokenAfter(s) \in Users \cup {Nobody}
  BY DEF TokenAfter
<1>3. CASE ~ req[s].heard /\ Done(s) /\ UNCHANGED <<token, page>>
  BY <1>0, <1>3, DoneEffect DEF page, Receive, ReqType
<1>4. CASE LoggedIn(s)
  BY <1>0, <1>1, <1>4, DoneEffect, LoadEffect DEF LoggedIn, Screens, Receive, ReqType
<1>5. CASE Booted(s)
  BY <1>0, <1>1, <1>2, <1>5, DoneEffect, LoadEffect DEF Booted, Receive, ReqType
<1>6. CASE Listed(s)
  BY <1>0, <1>1, <1>2, <1>6, DoneEffect DEF Listed, Receive, ReqType
<1>7. CASE Created(s)
  BY <1>0, <1>1, <1>2, <1>7, DoneEffect DEF Created, Screens, Receive, ReqType
<1>8. CASE Updated(s)
  BY <1>0, <1>1, <1>2, <1>8, DoneEffect DEF Updated, Receive, ReqType
<1> QED
  BY <1>3, <1>4, <1>5, <1>6, <1>7, <1>8 DEF Receive

\* Type correctness, whoever clicks what and whatever the server answers.
THEOREM TypeCorrect == Spec => []TypeOK
<1>1. Init => TypeOK
  BY SessionAssumption DEF Init, TypeOK, Screens, Request
<1>2. TypeOK /\ [Next]_vars => TypeOK'
  <2> SUFFICES ASSUME TypeOK, [Next]_vars PROVE TypeOK'
    OBVIOUS
  <2>1. CASE UNCHANGED vars
    BY <2>1 DEF TypeOK, vars, page
  <2>2. CASE UserActs
    BY <2>2, UserActsTyped
  <2>3. ASSUME NEW s \in Slots, Serve(s) PROVE TypeOK'
    BY <2>3, ServeEffect DEF TypeOK, ReqType, TableType, Serve, page
  <2>4. ASSUME NEW s \in Slots, Refuse(s) PROVE TypeOK'
    BY <2>4, AnswerEffect DEF TypeOK, ReqType, Refuse, Waits, page
  <2>5. ASSUME NEW s \in Slots, Lose(s) PROVE TypeOK'
    BY <2>5, AnswerEffect DEF TypeOK, ReqType, Lose, page
  <2>6. ASSUME NEW s \in Slots, Receive(s) PROVE TypeOK'
    BY <2>6, ReceiveTyped
  <2>7. ASSUME NEW n \in Numbers, NEW t \in TechIds, OtherClient(n, t) PROVE TypeOK'
    BY <2>7 DEF OtherClient, TypeOK, Row, Statuses, page
  <2> QED
    BY <2>1, <2>2, <2>3, <2>4, <2>5, <2>6, <2>7 DEF Next
<1> QED
  BY <1>1, <1>2, PTL DEF Spec

-----------------------------------------------------------------------------
(***************************************************************************)
(* Who is shown and who is heard.  RequestsCarryShownUser is not inductive *)
(* by itself: the answer to "me" shows a user without looking at the       *)
(* token.  It does no harm because the token cannot change in between:     *)
(* while the page boots the question is the only request anybody hears,    *)
(* and nothing can be clicked.                                             *)
(***************************************************************************)
Asks(s) == req[s] # Idle /\ req[s].heard /\ req[s].op = "me"

BootInv ==
  /\ booting => user = Nobody /\ screen = "list"
  /\ \A s \in Slots : booting /\ req[s] # Idle /\ req[s].heard => req[s].op = "me"
  /\ \A s \in Slots : Asks(s) => booting /\ req[s].as = token
  /\ \A s, t \in Slots : Asks(s) /\ Asks(t) => s = t

RoleInv == user # Nobody /\ screen = "create" => IsDispatcher(user)

SessionInv == BootInv /\ RoleInv /\ RequestsCarryShownUser /\ RequestsFitRole

\* A step of the server, or any that sends nothing and leaves the page alone.
LEMMA NothingSent ==
  ASSUME SessionInv, NoneSent, UNCHANGED <<user, booting, screen>>,
         token' = token \/ (token' = Nobody /\ ~ booting)
  PROVE  SessionInv'
<1>1. BootInv'
  BY DEF SessionInv, BootInv, NoneSent, Asks
<1>2. RoleInv' /\ RequestsCarryShownUser'
  BY DEF SessionInv, RoleInv, RequestsCarryShownUser
<1>3. RequestsFitRole'
  BY DEF SessionInv, RequestsFitRole, NoneSent
<1> QED
  BY <1>1, <1>2, <1>3 DEF SessionInv

\* A request that is no question, sent when the page is up.
LEMMA OneSent ==
  ASSUME SessionInv, NEW q, OnlySent(q), ~ booting, ~ booting', q.op # "me",
         (q.op = "createOrder" \/ (q.op = "updateOrder" /\ q.sets))
            => q.as = Nobody \/ IsDispatcher(q.as)
  PROVE  BootInv' /\ RequestsFitRole'
<1>1. BootInv'
  BY DEF SessionInv, BootInv, OnlySent, Asks
<1>2. RequestsFitRole'
  BY DEF SessionInv, RequestsFitRole, OnlySent
<1> QED
  BY <1>1, <1>2

LEMMA UserActsKeep ==
  ASSUME TypeOK, SessionInv, UserActs
  PROVE  SessionInv'
<1> USE DEF SessionInv, RoleInv, RequestsCarryShownUser
<1>0. ReqType
  BY DEF TypeOK, ReqType
<1>1. ASSUME NEW u \in Users, LogIn(u) PROVE SessionInv'
  <2> DEFINE q == Blank("login", u)
  <2>1. q \in Request /\ q.op = "login"
    BY BlankTyped DEF Operations, Blank
  <2>2. OnlySent(q)
    BY <1>0, <1>1, <2>1, SendEffect DEF LogIn
  <2> QED
    BY <1>1, <2>1, <2>2, OneSent DEF LogIn, page
<1>2. CASE LogOut
  <2>1. NoneSent /\ ~ booting
    BY <1>2 DEF LogOut, CanClick, NoneSent
  <2>2. BootInv' /\ RequestsFitRole'
    BY <1>2, <2>1 DEF LogOut, BootInv, RequestsFitRole, NoneSent, Asks
  <2> QED
    BY <1>2, <2>2 DEF LogOut
<1>3. CASE Navigate
  <2>1. BootInv' /\ RequestsFitRole'
    BY <1>3 DEF Navigate, CanClick, BootInv, RequestsFitRole, Asks
  <2>2. screen' = "create" => IsDispatcher(user)
    BY <1>3 DEF Navigate, ScreensFrom
  <2> QED
    BY <1>3, <2>1, <2>2 DEF Navigate
<1>4. CASE SubmitOrder
  <2> DEFINE q == Blank("createOrder", token)
  <2>1. q \in Request /\ q.op = "createOrder" /\ q.as = token
    BY BlankTyped DEF Operations, Blank, TypeOK
  <2>2. token = Nobody \/ IsDispatcher(token)
    BY <1>4 DEF SubmitOrder, CanClick
  <2>3. OnlySent(q)
    BY <1>0, <1>4, <2>1, SendEffect DEF SubmitOrder
  <2> QED
    BY <1>4, <2>1, <2>2, <2>3, OneSent DEF SubmitOrder, CanClick, page
<1>5. CASE ReloadPage
  <2>1. PICK s \in Slots :
          req' = [t \in Slots |-> IF t = s /\ token # Nobody THEN Blank("me", token)
                                  ELSE IF Outlives(t) THEN [req[t] EXCEPT !.heard = FALSE]
                                  ELSE Idle]
    BY <1>5 DEF ReloadPage
  <2>2. \A t \in Slots : Outlives(t) =>
          LET old == [req[t] EXCEPT !.heard = FALSE]
          IN  ~ old.heard /\ old.op = req[t].op /\ old.as = req[t].as /\ old.sets = req[t].sets
    BY <1>0 DEF ReqType, Outlives, Waits, Request
  <2>3. LET q == Blank("me", token) IN q.op = "me" /\ q.as = token /\ q.heard
    BY DEF Blank
  <2>4. BootInv'
    BY <1>5, <2>1, <2>2, <2>3 DEF ReloadPage, BootInv, Asks
  <2>5. RequestsFitRole'
    BY <1>5, <2>1, <2>2, <2>3 DEF ReloadPage, RequestsFitRole, Outlives, Waits
  <2> QED
    BY <1>5, <2>4, <2>5 DEF ReloadPage
<1>6. ASSUME NEW n \in Numbers, OpenDetail(n) PROVE SessionInv'
  BY <1>6 DEF OpenDetail, CanClick, BootInv, RequestsFitRole, Asks
<1>7. ASSUME NEW q, Send(q), q \in Request, q.op = "updateOrder", q.as = token,
             q.sets => IsDispatcher(user), CanClick,
             UNCHANGED <<token, user, booting>>, screen' \in {screen, "list"}
      PROVE  SessionInv'
  <2>1. OnlySent(q)
    BY <1>0, <1>7, SendEffect
  <2>2. q.sets => q.as = Nobody \/ IsDispatcher(q.as)
    BY <1>7 DEF CanClick
  <2> QED
    BY <1>7, <2>1, <2>2, OneSent DEF CanClick
<1>8. CanClick /\ screen = "detail" =>
        Patch \in Request /\ Patch.op = "updateOrder" /\ Patch.as = token /\ ~ Patch.sets
  <2>1. SUFFICES ASSUME CanClick, screen = "detail"
                 PROVE  Patch \in Request /\ Patch.op = "updateOrder" /\ Patch.as = token
                        /\ ~ Patch.sets
    OBVIOUS
  <2>2. selected \in Numbers
    BY <2>1 DEF TypeOK, CanClick, ShownNumbers, Entry
  <2>3. Blank("updateOrder", token) \in Request
    BY BlankTyped DEF TypeOK, Operations
  <2> QED
    BY <2>2, <2>3 DEF Patch, Blank, Request
<1>9. ASSUME NEW t \in TechIds, Assign(t) PROVE SessionInv'
  <2> DEFINE q == [Patch EXCEPT !.sets = TRUE, !.tech = t]
  <2>1. q \in Request /\ q.op = "updateOrder" /\ q.as = token
    BY <1>8, <1>9 DEF Assign, Request
  <2> QED
    BY <1>7, <1>9, <2>1 DEF Assign, page
<1>10. \A st \in Statuses : CanClick /\ screen = "detail" =>
         LET q == [Patch EXCEPT !.status = st]
         IN  q \in Request /\ q.op = "updateOrder" /\ q.as = token /\ ~ q.sets
  BY <1>8 DEF Request
<1>11. ASSUME NEW row \in Row, CancelOrder(row) PROVE SessionInv'
  BY <1>7, <1>10, <1>11 DEF CancelOrder, IsOpen, Statuses
<1>12. ASSUME NEW row \in Row, ChangeStatus(row) PROVE SessionInv'
  BY <1>7, <1>10, <1>12 DEF ChangeStatus, IsOpen, Statuses, page
<1> QED
  BY <1>1, <1>2, <1>3, <1>4, <1>5, <1>6, <1>9, <1>11, <1>12 DEF UserActs

LEMMA ReceiveKeeps ==
  ASSUME TypeOK, SessionInv, NEW s \in Slots, Receive(s)
  PROVE  SessionInv'
<1> USE DEF SessionInv, RoleInv, RequestsCarryShownUser
<1>0. ReqType /\ req[s] \in Request /\ req[s] # Idle
  BY DEF TypeOK, ReqType, Receive
<1>1. req[s].as \in Users \cup {Nobody}
  BY <1>0 DEF Request
<1>2. TokenAfter(s) \in {token, Nobody}
  BY DEF TokenAfter
<1>3. CASE ~ req[s].heard /\ Done(s) /\ UNCHANGED <<token, page>>
  BY <1>0, <1>3, DoneEffect, NothingSent DEF page
<1>4. CASE req[s].heard /\ (Listed(s) \/ Updated(s))
  <2>1. ~ booting
    BY <1>0, <1>4 DEF BootInv, Listed, Updated
  <2> QED
    BY <1>0, <1>2, <1>4, <2>1, DoneEffect, NothingSent DEF Listed, Updated
<1>5. CASE req[s].heard /\ Created(s)
  <2>1. ~ booting /\ NoneSent
    BY <1>0, <1>5, DoneEffect DEF BootInv, Created
  <2>2. BootInv'
    BY <1>2, <1>5, <2>1 DEF Created, BootInv, NoneSent, Asks
  <2>3. RequestsFitRole'
    BY <2>1 DEF RequestsFitRole, NoneSent
  <2> QED
    BY <1>2, <1>5, <2>2, <2>3 DEF Created
<1>6. CASE req[s].heard /\ LoggedIn(s)
  <2>1. ~ booting /\ booting' = booting /\ \A t \in Slots : ~ Asks(t)
    BY <1>0, <1>6 DEF BootInv, LoggedIn, Asks
  <2>2. CASE req[s].answer = "ok"
    <3> DEFINE q == Blank("listOrders", req[s].as)
    <3>1. OnlySent(q) /\ q.op = "listOrders"
      BY <1>0, <1>1, <1>6, <2>2, LoadEffect DEF LoggedIn, Blank
    <3> QED
      BY <1>6, <2>1, <2>2, <3>1, OneSent DEF LoggedIn
  <2>3. CASE req[s].answer # "ok"
    BY <1>0, <1>6, <2>3, DoneEffect, NothingSent DEF LoggedIn
  <2> QED
    BY <2>2, <2>3
<1>7. CASE req[s].heard /\ Booted(s)
  <2>1. Asks(s) /\ booting /\ req[s].as = token /\ screen = "list"
    BY <1>0, <1>7 DEF BootInv, Booted, Asks
  <2>2. \A t \in Slots : t # s /\ req[t] # Idle => ~ req[t].heard
    BY <2>1 DEF BootInv, Asks
  <2>3. CASE req[s].answer = "ok"
    <3> DEFINE q == Blank("listOrders", token)
    <3>1. OnlySent(q) /\ q.op = "listOrders" /\ req'[s] = q
      BY <1>0, <1>1, <1>7, <2>3, LoadEffect DEF Booted, Blank, TypeOK
    <3>2. BootInv'
      BY <1>7, <2>2, <2>3, <3>1 DEF Booted, BootInv, OnlySent, Asks
    <3>3. RequestsFitRole'
      BY <3>1 DEF RequestsFitRole, OnlySent
    <3> QED
      BY <1>7, <2>1, <2>3, <3>2, <3>3 DEF Booted
  <2>4. CASE req[s].answer # "ok"
    <3>1. NoneSent /\ req'[s] = Idle
      BY <1>0, <1>7, <2>4, DoneEffect DEF Booted
    <3>2. BootInv'
      BY <1>7, <2>2, <2>4, <3>1 DEF Booted, BootInv, NoneSent, Asks
    <3>3. RequestsFitRole'
      BY <3>1 DEF RequestsFitRole, NoneSent
    <3> QED
      BY <1>7, <2>4, <3>2, <3>3 DEF Booted
  <2> QED
    BY <2>3, <2>4
<1> QED
  BY <1>3, <1>4, <1>5, <1>6, <1>7 DEF Receive

\* Every step of every actor.
LEMMA SessionInvHolds == Spec => []SessionInv
<1>1. Init => SessionInv
  BY DEF Init, SessionInv, BootInv, RoleInv, RequestsCarryShownUser, RequestsFitRole, Asks
<1>2. TypeOK /\ SessionInv /\ [Next]_vars => SessionInv'
  <2> SUFFICES ASSUME TypeOK, SessionInv, [Next]_vars PROVE SessionInv'
    OBVIOUS
  <2>0. ReqType /\ TableType
    BY DEF TypeOK, ReqType, TableType
  <2>1. CASE UNCHANGED vars
    BY <2>1, NothingSent DEF NoneSent, vars, page
  <2>2. CASE UserActs
    BY <2>2, UserActsKeep
  <2>3. ASSUME NEW s \in Slots, Serve(s) PROVE SessionInv'
    BY <2>0, <2>3, ServeEffect, NothingSent DEF Serve, page
  <2>4. ASSUME NEW s \in Slots, Refuse(s) PROVE SessionInv'
    BY <2>0, <2>4, AnswerEffect, NothingSent DEF Refuse, Waits, page
  <2>5. ASSUME NEW s \in Slots, Lose(s) PROVE SessionInv'
    BY <2>0, <2>5, AnswerEffect, NothingSent DEF Lose, page
  <2>6. ASSUME NEW s \in Slots, Receive(s) PROVE SessionInv'
    BY <2>6, ReceiveKeeps
  <2>7. ASSUME NEW n \in Numbers, NEW t \in TechIds, OtherClient(n, t) PROVE SessionInv'
    BY <2>7, NothingSent DEF OtherClient, NoneSent, page
  <2> QED
    BY <2>1, <2>2, <2>3, <2>4, <2>5, <2>6, <2>7 DEF Next
<1> QED
  BY <1>1, <1>2, TypeCorrect, PTL DEF Spec

\* The server never hears another user than the one the screens show.
THEOREM ShownUserIsHeard == Spec => []RequestsCarryShownUser
<1>1. SessionInv => RequestsCarryShownUser
  BY DEF SessionInv
<1> QED
  BY <1>1, SessionInvHolds, PTL

\* A montazhnik's token never goes with a creation or an assignment.
THEOREM RequestsFitTheRole == Spec => []RequestsFitRole
<1>1. SessionInv => RequestsFitRole
  BY DEF SessionInv
<1> QED
  BY <1>1, SessionInvHolds, PTL

-----------------------------------------------------------------------------
(***************************************************************************)
(* What an answer says, and what a click sends.                            *)
(***************************************************************************)

\* The orders in an answer are those of the user who asked, and the answer to
\* a PATCH has the order.
Says(s, a, rows) ==
  /\ req[s] # Idle /\ AnswerWith(s, a, rows) /\ UNCHANGED <<token, page>>
  /\ \A e \in rows : e.as = req[s].as
  /\ a = "ok" => req[s].as # Nobody
  /\ req[s].op = "updateOrder" /\ a = "ok" => \E e \in rows : e.number = req[s].number

LEMMA Answers ==
  ASSUME TypeOK, NEW s \in Slots, Serve(s) \/ Refuse(s) \/ Lose(s)
  PROVE  \E a \in {"none", "ok", "unauthorized", "error"}, rows \in SUBSET Entry : Says(s, a, rows)
<1> DEFINE Said == \E a \in {"none", "ok", "unauthorized", "error"}, rows \in SUBSET Entry :
                     Says(s, a, rows)
<1>1. req[s] \in Request /\ req[s] # Idle /\ UNCHANGED <<token, page>>
  BY DEF Serve, Refuse, Lose, Waits, TypeOK
<1>2. req[s].as \in Users \cup {Nobody} /\ TableType
  BY <1>1 DEF Request, TypeOK, TableType
<1>3. CASE AnswerWith(s, "unauthorized", {}) \/ AnswerWith(s, "error", {})
  <2>1. Says(s, "unauthorized", {}) \/ Says(s, "error", {})
    BY <1>1, <1>3 DEF Says
  <2> QED
    BY <2>1
<1>4. CASE req[s].as # Nobody /\ Reads(s)
  <2> DEFINE rows == IF req[s].op = "listOrders" THEN Listing(req[s].as) ELSE {}
  <2>1. rows \in SUBSET Entry
    BY <1>2, <1>4, ListingTyped
  <2>2. \A e \in rows : e.as = req[s].as
    BY DEF Listing, AsEntry
  <2>3. Says(s, "ok", rows)
    BY <1>1, <1>4, <2>2 DEF Reads, Says
  <2> QED
    BY <2>1, <2>3
<1>5. CASE req[s].as # Nobody /\ Creates(s)
  <2>1. ASSUME NEW n \in Numbers \ Placed,
               table' = [table EXCEPT ![n] = [executor |-> NoTech, status |-> "created"]],
               AnswerWith(s, "ok", {[number |-> n, row |-> table'[n], as |-> req[s].as]})
        PROVE  Said
    <3> DEFINE rows == {[number |-> n, row |-> table'[n], as |-> req[s].as]}
    <3>1. table'[n] \in Row
      BY <1>2, <2>1 DEF TableType, Row, Statuses
    <3>2. rows \in SUBSET Entry /\ \A e \in rows : e.as = req[s].as
      BY <1>2, <1>5, <3>1 DEF Entry
    <3>3. Says(s, "ok", rows)
      BY <1>1, <1>5, <2>1, <3>2 DEF Creates, Says
    <3> QED
      BY <3>2, <3>3
  <2> QED
    BY <1>3, <1>5, <2>1 DEF Creates
<1>6. CASE req[s].as # Nobody /\ Updates(s)
  <2> DEFINE n == req[s].number
             rows == {[number |-> n, row |-> table'[n], as |-> req[s].as]}
  <2>1. CASE /\ n \in Placed
             /\ table' = [table EXCEPT ![n] = Edited(table[n], req[s])]
             /\ AnswerWith(s, "ok", rows)
    <3>1. n \in Numbers /\ table[n] \in Row
      BY <1>2, <2>1 DEF Placed, TableType
    <3>2. table'[n] \in Row
      BY <1>1, <1>2, <2>1, <3>1, EditedTyped DEF TableType
    <3>3. rows \in SUBSET Entry
      BY <1>2, <1>6, <3>1, <3>2 DEF Entry
    <3>4. \A e \in rows : e.as = req[s].as /\ e.number = req[s].number
      OBVIOUS
    <3>5. \E e \in rows : e.number = req[s].number
      OBVIOUS
    <3> HIDE DEF rows
    <3>6. Says(s, "ok", rows)
      BY <1>1, <1>6, <2>1, <3>4, <3>5 DEF Says
    <3> QED
      BY <3>3, <3>6
  <2> QED
    BY <1>3, <1>6, <2>1 DEF Updates
<1> QED
  BY <1>3, <1>4, <1>5, <1>6 DEF Serve, Refuse, Lose

\* Whatever is clicked that sends anything sends one request about orders, with
\* the token, and stays on the screen or goes back to the list.
Clicked(q) ==
  /\ CanClick /\ Send(q)
  /\ q.op \in {"createOrder", "updateOrder"} /\ q.as = token
  /\ q.rows = {} /\ q.answer = "none"
  /\ UNCHANGED <<token, user, booting, selected, shown, table>> /\ screen' \in {screen, "list"}

LEMMA Clicks ==
  ASSUME TypeOK, UserActs
  PROVE  \/ \E u \in Users : LogIn(u)
         \/ LogOut \/ Navigate \/ ReloadPage
         \/ \E n \in Numbers : OpenDetail(n)
         \/ \E q \in Request : Clicked(q)
<1>1. CASE SubmitOrder
  <2> DEFINE q == Blank("createOrder", token)
  <2>1. q \in Request /\ q.op = "createOrder" /\ q.rows = {} /\ q.answer = "none" /\ q.as = token
    BY BlankTyped DEF Operations, Blank, TypeOK
  <2>2. Clicked(q)
    BY <1>1, <2>1 DEF SubmitOrder, Clicked, page
  <2> QED
    BY <2>1, <2>2
<1>2. CanClick /\ screen = "detail" =>
        /\ Patch \in Request /\ Patch.op = "updateOrder" /\ Patch.as = token
        /\ Patch.rows = {} /\ Patch.answer = "none"
  <2>1. SUFFICES ASSUME CanClick, screen = "detail"
                 PROVE  /\ Patch \in Request /\ Patch.op = "updateOrder" /\ Patch.as = token
                        /\ Patch.rows = {} /\ Patch.answer = "none"
    OBVIOUS
  <2>2. selected \in Numbers
    BY <2>1 DEF TypeOK, CanClick, ShownNumbers, Entry
  <2>3. Blank("updateOrder", token) \in Request
    BY BlankTyped DEF TypeOK, Operations
  <2> QED
    BY <2>2, <2>3 DEF Patch, Blank, Request
<1>3. ASSUME NEW t \in TechIds, Assign(t) PROVE \E q \in Request : Clicked(q)
  <2> DEFINE q == [Patch EXCEPT !.sets = TRUE, !.tech = t]
  <2>1. q \in Request /\ q.op = "updateOrder" /\ q.as = token /\ q.rows = {} /\ q.answer = "none"
    BY <1>2, <1>3 DEF Assign, Request
  <2>2. Clicked(q)
    BY <1>3, <2>1 DEF Assign, Clicked, page
  <2> QED
    BY <2>1, <2>2
<1>4. ASSUME NEW st \in Statuses, CanClick, screen = "detail",
             Send([Patch EXCEPT !.status = st]),
             UNCHANGED <<token, user, booting, selected, shown, table>>, screen' \in {screen, "list"}
      PROVE  \E q \in Request : Clicked(q)
  <2> DEFINE q == [Patch EXCEPT !.status = st]
  <2>1. q \in Request /\ q.op = "updateOrder" /\ q.as = token /\ q.rows = {} /\ q.answer = "none"
    BY <1>2, <1>4 DEF Request
  <2>2. Clicked(q)
    BY <1>4, <2>1 DEF Clicked
  <2> QED
    BY <2>1, <2>2
<1>5. ASSUME NEW row \in Row, CancelOrder(row) PROVE \E q \in Request : Clicked(q)
  BY <1>4, <1>5 DEF CancelOrder, IsOpen, Statuses
<1>6. ASSUME NEW row \in Row, ChangeStatus(row) PROVE \E q \in Request : Clicked(q)
  BY <1>4, <1>6 DEF ChangeStatus, IsOpen, Statuses, page
<1> QED
  BY <1>1, <1>3, <1>5, <1>6 DEF UserActs

-----------------------------------------------------------------------------
(***************************************************************************)
(* A user who waits.  Then there is one request at a time, and what shows  *)
(* its answer is the page that sent it.                                    *)
(***************************************************************************)
\* What a request on its way says of the page.
Belongs(s) ==
  /\ req[s].answer = "ok" => req[s].as # Nobody
  /\ \A e \in req[s].rows : e.as = req[s].as
  /\ req[s].op \in {"login", "me"} => user = Nobody
  /\ req[s].op \notin {"login", "me"} => user # Nobody /\ req[s].as \in {user, Nobody}
  /\ req[s].op = "listOrders" => screen = "list"
  /\ req[s].op = "updateOrder" /\ req[s].answer = "ok" =>
       \E e \in req[s].rows : e.number = req[s].number

PatientInv ==
  /\ \A s, t \in Slots : req[s] # Idle /\ req[t] # Idle => s = t
  /\ \A s \in Slots : req[s] # Idle => Belongs(s)
  /\ user = Nobody => shown = {}
  /\ ShownBelongsToUser
  /\ DetailHasOrder

\* A page at rest sends one request, without rows.
LEMMA SendAtRest ==
  ASSUME TypeOK, Quiet, NEW q \in Request, Send(q), q.rows = {}, q.answer = "none",
         q.op \in {"login", "me"} => user' = Nobody,
         q.op \notin {"login", "me"} => user' # Nobody /\ q.as \in {user', Nobody},
         q.op # "listOrders"
  PROVE  /\ \A s, t \in Slots : req'[s] # Idle /\ req'[t] # Idle => s = t
         /\ \A s \in Slots : req'[s] # Idle => Belongs(s)'
<1>1. PICK s \in Slots : req' = [req EXCEPT ![s] = q]
  BY DEF Send
<1>2. req'[s] = q /\ \A t \in Slots : t # s => req'[t] = Idle
  BY <1>1 DEF Quiet, TypeOK
<1>3. Belongs(s)'
  BY <1>2 DEF Belongs
<1> QED
  BY <1>2, <1>3

LEMMA WaitingUser ==
  ASSUME TypeOK, SessionInv, PatientInv, Patient, UserActs
  PROVE  PatientInv'
<1> USE DEF PatientInv, ShownBelongsToUser, DetailHasOrder, ShownNumbers
<1>1. ASSUME NEW u \in Users, LogIn(u) PROVE PatientInv'
  <2> DEFINE q == Blank("login", u)
  <2>1. q \in Request /\ q.op = "login" /\ q.rows = {} /\ q.answer = "none"
    BY BlankTyped DEF Operations, Blank
  <2> QED
    BY <1>1, <2>1, SendAtRest DEF LogIn, page
<1>2. CASE LogOut
  BY <1>2 DEF LogOut, CanClick, Quiet
<1>3. CASE Navigate
  BY <1>3 DEF Navigate, CanClick, Quiet, ScreensFrom
<1>4. CASE ReloadPage
  <2>1. Quiet
    BY <1>4 DEF ReloadPage
  <2>2. PICK s \in Slots :
          req' = [t \in Slots |-> IF t = s /\ token # Nobody THEN Blank("me", token)
                                  ELSE IF Outlives(t) THEN [req[t] EXCEPT !.heard = FALSE]
                                  ELSE Idle]
    BY <1>4 DEF ReloadPage
  <2>3. \A t \in Slots : req'[t] # Idle => t = s /\ req'[s] = Blank("me", token)
    BY <2>1, <2>2 DEF Quiet, Outlives, Waits
  <2>4. req'[s] # Idle => Belongs(s)'
    BY <1>4, <2>3 DEF Belongs, Blank, ReloadPage
  <2> QED
    BY <1>4, <2>3, <2>4 DEF ReloadPage
<1>5. ASSUME NEW n \in Numbers, OpenDetail(n) PROVE PatientInv'
  BY <1>5 DEF OpenDetail, CanClick, Quiet
<1>6. ASSUME NEW q \in Request, Clicked(q) PROVE PatientInv'
  <2>1. Quiet /\ user # Nobody /\ token \in {user, Nobody}
    BY <1>6 DEF Clicked, CanClick, SessionInv, RequestsCarryShownUser
  <2> QED
    BY <1>6, <2>1, SendAtRest DEF Clicked
<1> QED
  BY <1>1, <1>2, <1>3, <1>4, <1>5, <1>6, Clicks

\* An answer that says only what it was asked keeps PatientInv.
LEMMA AnswerBelongs ==
  ASSUME TypeOK, PatientInv, NEW s \in Slots,
         NEW a \in {"none", "ok", "unauthorized", "error"}, NEW rows \in SUBSET Entry,
         Says(s, a, rows)
  PROVE  PatientInv'
<1>1. req[s] \in Request /\ req'[s] = [req[s] EXCEPT !.answer = a, !.rows = rows]
  BY DEF TypeOK, Says, AnswerWith
<1>2. \A t \in Slots : t # s => req'[t] = Idle
  BY DEF TypeOK, Says, AnswerWith, PatientInv
<1>3. /\ req'[s].op = req[s].op /\ req'[s].as = req[s].as /\ req'[s].number = req[s].number
      /\ req'[s].answer = a /\ req'[s].rows = rows
  BY <1>1 DEF Request
<1>4. Belongs(s)'
  BY <1>3 DEF PatientInv, Belongs, Says, page
<1> QED
  BY <1>2, <1>4 DEF PatientInv, ShownBelongsToUser, DetailHasOrder, ShownNumbers, Says, page

LEMMA WaitingPage ==
  ASSUME TypeOK, SessionInv, PatientInv, NEW s \in Slots, Receive(s)
  PROVE  PatientInv'
<1> USE DEF PatientInv, ShownBelongsToUser, DetailHasOrder, ShownNumbers
<1>0. ReqType /\ req[s] \in Request /\ req[s] # Idle
  BY DEF TypeOK, ReqType, Receive
<1>1. \A t \in Slots : t # s => req[t] = Idle
  BY <1>0
<1>2. Belongs(s)
  BY <1>0
<1>3. Done(s) => \A t \in Slots : req'[t] = Idle
  BY <1>0, <1>1 DEF Done, ReqType
<1>4. req[s].rows \in SUBSET Entry
  BY <1>0 DEF Request
<1>5. req[s].op \notin {"login", "me"} => \A e \in req[s].rows : e.as = user
  BY <1>2, <1>4, SessionAssumption DEF Belongs, Entry
<1>6. CASE Done(s) /\ UNCHANGED <<token, page>>
  BY <1>3, <1>6 DEF page
<1>7. CASE Listed(s)
  BY <1>2, <1>3, <1>5, <1>7 DEF Listed, Belongs
<1>8. CASE Created(s)
  BY <1>2, <1>3, <1>5, <1>8 DEF Created, Belongs
<1>9. CASE Updated(s)
  <2>1. user' = user /\ user # Nobody /\ \A e \in shown' : e \in shown \/ e \in req[s].rows
    BY <1>2, <1>9 DEF Updated, Belongs
  <2>2. \A e \in shown' : e.as = user
    BY <1>5, <1>9, <2>1 DEF Updated
  <2>3. ASSUME NEW e \in shown PROVE \E f \in shown' : f.number = e.number
    <3>1. CASE req[s].answer = "ok" /\ e.number = req[s].number
      <4>1. PICK new \in req[s].rows : new.number = req[s].number
        BY <1>2, <1>9, <3>1 DEF Updated, Belongs
      <4> QED
        BY <1>9, <3>1, <4>1 DEF Updated
    <3>2. CASE ~ (req[s].answer = "ok" /\ e.number = req[s].number)
      BY <1>9, <3>2 DEF Updated
    <3> QED
      BY <3>1, <3>2
  <2>4. screen' = screen /\ selected' = selected
    BY <1>9 DEF Updated
  <2> QED
    BY <1>3, <1>9, <2>1, <2>2, <2>3, <2>4 DEF Updated
<1>10. ASSUME NEW u \in Users \cup {Nobody}, Load(s, u), user' = u, u # Nobody, screen' = "list",
              shown' = {}
       PROVE  PatientInv'
  <2>1. req'[s] = Blank("listOrders", u) /\ \A t \in Slots : t # s => req'[t] = Idle
    BY <1>0, <1>1, <1>10 DEF Load, ReqType
  <2>2. Belongs(s)'
    BY <1>10, <2>1 DEF Belongs, Blank
  <2> QED
    BY <1>10, <2>1, <2>2
<1>11. CASE LoggedIn(s)
  <2>1. /\ user = Nobody /\ shown = {} /\ req[s].as \in Users \cup {Nobody}
        /\ req[s].answer = "ok" => req[s].as # Nobody
    BY <1>0, <1>2, <1>11 DEF LoggedIn, Belongs, Request
  <2> QED
    BY <1>3, <1>10, <1>11, <2>1 DEF LoggedIn
<1>12. CASE req[s].heard /\ Booted(s)
  <2>1. /\ user = Nobody /\ shown = {} /\ screen = "list"
        /\ req[s].as = token /\ token \in Users \cup {Nobody}
        /\ req[s].answer = "ok" => token # Nobody
    BY <1>0, <1>2, <1>12 DEF Booted, Belongs, SessionInv, BootInv, Asks, TypeOK
  <2> QED
    BY <1>3, <1>10, <1>12, <2>1 DEF Booted
<1> QED
  BY <1>6, <1>7, <1>8, <1>9, <1>11, <1>12 DEF Receive

\* A waiting user sees only what was answered to him, and the order he opened.
LEMMA PatientInvHolds ==
  ASSUME Patient
  PROVE  Spec => []PatientInv
<1>1. Init => PatientInv
  BY DEF Init, PatientInv, ShownBelongsToUser, DetailHasOrder
<1>2. TypeOK /\ SessionInv /\ PatientInv /\ [Next]_vars => PatientInv'
  <2> SUFFICES ASSUME TypeOK, SessionInv, PatientInv, [Next]_vars PROVE PatientInv'
    OBVIOUS
  <2>1. CASE UNCHANGED vars
    BY <2>1 DEF PatientInv, Belongs, ShownBelongsToUser, DetailHasOrder, ShownNumbers, vars, page
  <2>2. CASE UserActs
    BY <2>2, WaitingUser
  <2>3. ASSUME NEW s \in Slots, Serve(s) \/ Refuse(s) \/ Lose(s) PROVE PatientInv'
    BY <2>3, Answers, AnswerBelongs
  <2>4. ASSUME NEW s \in Slots, Receive(s) PROVE PatientInv'
    BY <2>4, WaitingPage
  <2>5. ASSUME NEW n \in Numbers, NEW t \in TechIds, OtherClient(n, t) PROVE PatientInv'
    BY <2>5 DEF OtherClient, PatientInv, Belongs, ShownBelongsToUser, DetailHasOrder,
                ShownNumbers, page
  <2> QED
    BY <2>1, <2>2, <2>3, <2>4, <2>5 DEF Next
<1> QED
  BY <1>1, <1>2, TypeCorrect, SessionInvHolds, PTL DEF Spec

-----------------------------------------------------------------------------
(***************************************************************************)
(* A user who waits, alone with the orders, while nothing but logging in   *)
(* and booting may fail.  ShownIsCurrent speaks of a page at rest; what is *)
(* inductive says of an answer on its way that working it into the list    *)
(* makes the list current.                                                 *)
(***************************************************************************)
\* The list the page shows once it has the answer: Listed, Created, Updated.
After(s) ==
  CASE req[s].op = "listOrders"  -> req[s].rows
    [] req[s].op = "createOrder" -> shown \cup req[s].rows
    [] req[s].op = "updateOrder" ->
         {e \in shown : req[s].answer = "ok" => e.number # req[s].number}
           \cup {new \in req[s].rows : new.number \in ShownNumbers}

ForOrders(s) == req[s].op \in {"listOrders", "createOrder", "updateOrder"}

\* What a request about orders says of the list.
Fresh(s) ==
  ForOrders(s) =>
    /\ req[s].as = user
    /\ req[s].answer \in {"none", "ok", "error"}
    /\ req[s].answer = "none" /\ req[s].op # "listOrders" => shown = Listing(user)
    /\ req[s].answer # "none" => After(s) = Listing(user)
    /\ req[s].op = "listOrders" => req[s].answer # "error"

CurrentInv ==
  /\ user # Nobody => token = user
  /\ \A s \in Slots : req[s] # Idle => req[s].heard /\ Fresh(s)
  /\ ShownIsCurrent

\* A page at rest sends one request.
LEMMA SendCurrent ==
  ASSUME TypeOK, CurrentInv, Quiet, NEW q \in Request, Send(q), q.heard, q.answer = "none",
         UNCHANGED <<token, user, shown, table>>,
         q.op \in {"createOrder", "updateOrder"} => user # Nobody /\ q.as = user,
         q.op # "listOrders"
  PROVE  CurrentInv'
<1>1. PICK s \in Slots : req' = [req EXCEPT ![s] = q]
  BY DEF Send
<1>2. req'[s] = q /\ \A t \in Slots : t # s => req'[t] = Idle
  BY <1>1 DEF Quiet, TypeOK
<1>3. q # Idle
  BY IdleIsNoRequest
<1>4. Listing(user)' = Listing(user)
  BY DEF Listing, AsEntry, Placed
<1>5. q.op \in {"createOrder", "updateOrder"} => shown = Listing(user)
  BY DEF CurrentInv, ShownIsCurrent
<1>6. Fresh(s)'
  BY <1>2, <1>4, <1>5 DEF Fresh, ForOrders
<1>7. ~ Quiet'
  BY <1>2, <1>3 DEF Quiet
<1> QED
  BY <1>2, <1>6, <1>7 DEF CurrentInv, ShownIsCurrent

LEMMA CurrentUser ==
  ASSUME TypeOK, CurrentInv, Patient, UserActs
  PROVE  CurrentInv'
<1>1. ASSUME NEW u \in Users, LogIn(u) PROVE CurrentInv'
  <2> DEFINE q == Blank("login", u)
  <2>1. q \in Request /\ q.op = "login" /\ q.heard /\ q.answer = "none"
    BY BlankTyped DEF Operations, Blank
  <2> QED
    BY <1>1, <2>1, SendCurrent DEF LogIn, page
<1>2. CASE LogOut
  <2>1. \A s \in Slots : req'[s] = Idle
    BY <1>2 DEF LogOut, CanClick, Quiet
  <2> QED
    BY <1>2, <2>1 DEF LogOut, CurrentInv, ShownIsCurrent
<1>3. ASSUME CanClick, UNCHANGED <<token, user, shown, req, table>> PROVE CurrentInv'
  <2>1. Listing(user)' = Listing(user)
    BY <1>3 DEF Listing, AsEntry, Placed
  <2> QED
    BY <1>3, <2>1 DEF CurrentInv, ShownIsCurrent, CanClick, Quiet
<1>4. CASE Navigate
  BY <1>3, <1>4 DEF Navigate
<1>5. CASE SubmitOrder
  <2> DEFINE q == Blank("createOrder", token)
  <2>1. q \in Request /\ q.op = "createOrder" /\ q.heard /\ q.answer = "none" /\ q.as = token
    BY BlankTyped DEF Operations, Blank, TypeOK
  <2> QED
    BY <1>5, <2>1, SendCurrent DEF SubmitOrder, CanClick, page, CurrentInv
<1>6. CASE ReloadPage
  <2>1. Quiet
    BY <1>6 DEF ReloadPage
  <2>2. PICK s \in Slots :
          req' = [t \in Slots |-> IF t = s /\ token # Nobody THEN Blank("me", token)
                                  ELSE IF Outlives(t) THEN [req[t] EXCEPT !.heard = FALSE]
                                  ELSE Idle]
    BY <1>6 DEF ReloadPage
  <2>3. \A t \in Slots : req'[t] # Idle => req'[t] = Blank("me", token)
    BY <2>1, <2>2 DEF Quiet, Outlives, Waits
  <2>4. Blank("me", token).op = "me" /\ Blank("me", token).heard
    BY DEF Blank
  <2>5. \A t \in Slots : req'[t] # Idle => req'[t].heard /\ Fresh(t)'
    BY <2>3, <2>4 DEF Fresh, ForOrders
  <2> QED
    BY <1>6, <2>5 DEF ReloadPage, CurrentInv, ShownIsCurrent
<1>7. ASSUME NEW n \in Numbers, OpenDetail(n) PROVE CurrentInv'
  BY <1>3, <1>7 DEF OpenDetail
<1>8. ASSUME NEW q, Send(q), q \in Request, q.op = "updateOrder", q.as = token, q.heard,
             q.answer = "none", CanClick, UNCHANGED <<token, user, shown, table>>
      PROVE  CurrentInv'
  <2>1. Quiet /\ user # Nobody /\ q.as = user
    BY <1>8 DEF CanClick, CurrentInv
  <2> QED
    BY <1>8, <2>1, SendCurrent
<1>9. CanClick /\ screen = "detail" =>
        /\ Patch \in Request /\ Patch.op = "updateOrder" /\ Patch.as = token
        /\ Patch.heard /\ Patch.answer = "none"
  <2>1. SUFFICES ASSUME CanClick, screen = "detail"
                 PROVE  /\ Patch \in Request /\ Patch.op = "updateOrder" /\ Patch.as = token
                        /\ Patch.heard /\ Patch.answer = "none"
    OBVIOUS
  <2>2. selected \in Numbers
    BY <2>1 DEF TypeOK, CanClick, ShownNumbers, Entry
  <2>3. Blank("updateOrder", token) \in Request
    BY BlankTyped DEF TypeOK, Operations
  <2> QED
    BY <2>2, <2>3 DEF Patch, Blank, Request
<1>10. ASSUME NEW t \in TechIds, Assign(t) PROVE CurrentInv'
  <2> DEFINE q == [Patch EXCEPT !.sets = TRUE, !.tech = t]
  <2>1. q \in Request /\ q.op = "updateOrder" /\ q.as = token /\ q.heard /\ q.answer = "none"
    BY <1>9, <1>10 DEF Assign, Request
  <2> QED
    BY <1>8, <1>10, <2>1 DEF Assign, page
<1>11. \A st \in Statuses : CanClick /\ screen = "detail" =>
         LET q == [Patch EXCEPT !.status = st]
         IN  q \in Request /\ q.op = "updateOrder" /\ q.as = token /\ q.heard /\ q.answer = "none"
  BY <1>9 DEF Request
<1>12. ASSUME NEW row \in Row, CancelOrder(row) PROVE CurrentInv'
  BY <1>8, <1>11, <1>12 DEF CancelOrder, IsOpen, Statuses
<1>13. ASSUME NEW row \in Row, ChangeStatus(row) PROVE CurrentInv'
  BY <1>8, <1>11, <1>13 DEF ChangeStatus, IsOpen, Statuses, page
<1> QED
  BY <1>1, <1>2, <1>4, <1>5, <1>6, <1>7, <1>10, <1>12, <1>13 DEF UserActs

-----------------------------------------------------------------------------
(* What the server does to the list a user may see. *)

\* A new order joins a dispatcher's list.
LEMMA ListingCreated ==
  ASSUME TableType, NEW u \in Users, IsDispatcher(u), NEW n \in Numbers \ Placed,
         table' = [table EXCEPT ![n] = [executor |-> NoTech, status |-> "created"]]
  PROVE  Listing(u)' = Listing(u) \cup {[number |-> n, row |-> table'[n], as |-> u]}
<1>1. table'[n] # Absent /\ \A k \in Numbers : k # n => table'[k] = table[k]
  BY DEF TableType, Absent
<1>2. Placed' = Placed \cup {n}
  BY <1>1 DEF Placed
<1>3. RoleOf[u] # "montazhnik"
  BY DEF IsDispatcher
<1>4. Listing(u) = {AsEntry(k, u) : k \in Placed}
  BY <1>3 DEF Listing
<1>5. Listing(u)' = {AsEntry(k, u)' : k \in Placed'}
  BY <1>3 DEF Listing
<1>6. AsEntry(n, u)' = [number |-> n, row |-> table'[n], as |-> u]
  BY DEF AsEntry
<1>7. \A k \in Placed : AsEntry(k, u)' = AsEntry(k, u)
  BY <1>1 DEF AsEntry, Placed
<1> QED
  BY <1>2, <1>4, <1>5, <1>6, <1>7

\* A change of an order the user may touch takes its place in his list; the
\* order was in it, and stays there.
LEMMA ListingUpdated ==
  ASSUME TableType, NEW u \in Users, NEW c \in Request, NEW n \in Placed,
         MayTouch(RoleOf[u], LinkOf[u], table[n]), c.sets => IsDispatcher(u),
         table' = [table EXCEPT ![n] = Edited(table[n], c)]
  PROVE  /\ AsEntry(n, u) \in Listing(u)
         /\ Listing(u)' = {e \in Listing(u) : e.number # n}
                            \cup {[number |-> n, row |-> table'[n], as |-> u]}
<1> DEFINE Sees(row) == RoleOf[u] = "montazhnik" /\ LinkOf[u] # NoTech => row.executor = LinkOf[u]
<1>1. n \in Numbers /\ table[n] \in Row
  BY DEF Placed, TableType
<1>2. /\ table'[n] = Edited(table[n], c)
      /\ \A k \in Numbers : k # n => table'[k] = table[k]
  BY <1>1 DEF TableType
<1>3. Edited(table[n], c) \in Row
  BY <1>1, EditedTyped
<1>4. table'[n] # Absent
  BY <1>2, <1>3 DEF Row, Statuses, Absent
<1>5. Placed' = Placed
  BY <1>2, <1>4 DEF Placed
<1>6. Sees(table[n])
  BY DEF MayTouch
<1>7. Sees(table'[n])
  <2>1. CASE IsDispatcher(u)
    BY <2>1 DEF IsDispatcher
  <2>2. CASE ~ c.sets
    <3>1. table'[n].executor = table[n].executor
      BY <1>2, <2>2 DEF Edited
    <3> QED
      BY <1>6, <3>1
  <2> QED
    BY <2>1, <2>2
<1>8. Listing(u) = {AsEntry(k, u) : k \in {j \in Placed : Sees(table[j])}}
  BY DEF Listing
<1>9. Listing(u)' = {AsEntry(k, u)' : k \in {j \in Placed : Sees(table'[j])}}
  BY <1>5 DEF Listing
<1>10. AsEntry(n, u)' = [number |-> n, row |-> table'[n], as |-> u]
  BY DEF AsEntry
<1>11. \A k \in Placed : AsEntry(k, u).number = k
  BY DEF AsEntry
<1>12. \A k \in Placed : k # n => /\ AsEntry(k, u)' = AsEntry(k, u)
                                  /\ Sees(table'[k]) <=> Sees(table[k])
  BY <1>2 DEF AsEntry, Placed
<1>13. AsEntry(n, u) \in Listing(u)
  BY <1>6, <1>8
<1> HIDE DEF Sees
<1>14. ASSUME NEW e \in Listing(u)'
       PROVE  e \in {f \in Listing(u) : f.number # n}
                      \cup {[number |-> n, row |-> table'[n], as |-> u]}
  <2>1. PICK k \in Placed : Sees(table'[k]) /\ e = AsEntry(k, u)'
    BY <1>9, <1>14
  <2>2. CASE k = n
    BY <1>10, <2>1, <2>2
  <2>3. CASE k # n
    BY <1>8, <1>11, <1>12, <2>1, <2>3
  <2> QED
    BY <2>2, <2>3
<1>15. ASSUME NEW e \in Listing(u), e.number # n
       PROVE  e \in Listing(u)'
  <2>1. PICK k \in Placed : Sees(table[k]) /\ e = AsEntry(k, u)
    BY <1>8, <1>15
  <2>2. k # n
    BY <1>11, <1>15, <2>1
  <2> QED
    BY <1>9, <1>12, <2>1, <2>2
<1>16. [number |-> n, row |-> table'[n], as |-> u] \in Listing(u)'
  BY <1>7, <1>9, <1>10
<1> QED
  BY <1>13, <1>14, <1>15, <1>16

\* An answer that, worked in, makes the list current.
LEMMA AnswerCurrent ==
  ASSUME TypeOK, CurrentInv, PatientInv, NEW s \in Slots, req[s] # Idle,
         NEW a \in {"ok", "error", "unauthorized"}, NEW rows \in SUBSET Entry,
         AnswerWith(s, a, rows), UNCHANGED <<token, page>>,
         ForOrders(s) => /\ a # "unauthorized"
                         /\ req[s].op = "listOrders" => a = "ok" /\ rows = Listing(user)'
                         /\ req[s].op = "createOrder" => shown \cup rows = Listing(user)'
                         /\ req[s].op = "updateOrder" =>
                              {e \in shown : a = "ok" => e.number # req[s].number}
                                \cup {new \in rows : new.number \in ShownNumbers}
                              = Listing(user)'
  PROVE  CurrentInv'
<1>1. req[s] \in Request /\ req'[s] = [req[s] EXCEPT !.answer = a, !.rows = rows]
  BY DEF TypeOK, AnswerWith
<1>2. \A t \in Slots : t # s => req'[t] = Idle
  BY DEF TypeOK, AnswerWith, PatientInv
<1>3. /\ req'[s].op = req[s].op /\ req'[s].as = req[s].as /\ req'[s].number = req[s].number
      /\ req'[s].answer = a /\ req'[s].rows = rows /\ req'[s].heard = req[s].heard
  BY <1>1 DEF Request
<1>4. req'[s] # Idle
  BY <1>1, <1>3 DEF Idle, Request, Operations
<1>5. ~ Quiet'
  BY <1>4 DEF Quiet
<1>6. ForOrders(s)' <=> ForOrders(s)
  BY <1>3 DEF ForOrders
<1>7. ForOrders(s) => After(s)' = Listing(user)'
  BY <1>3 DEF After, ForOrders, ShownNumbers, page
<1>8. Fresh(s)'
  BY <1>3, <1>6, <1>7 DEF Fresh, ForOrders, CurrentInv, page
<1> QED
  BY <1>2, <1>3, <1>5, <1>8 DEF CurrentInv, ShownIsCurrent, page

LEMMA CurrentServer ==
  ASSUME TypeOK, PatientInv, CurrentInv, NEW s \in Slots, Serve(s)
  PROVE  CurrentInv'
<1>1. req[s] \in Request /\ req[s] # Idle /\ UNCHANGED <<token, page>>
  BY DEF Serve, Waits, TypeOK
<1>2. TableType /\ req[s].as \in Users \cup {Nobody}
  BY <1>1 DEF Request, TypeOK, TableType
<1>3. ForOrders(s) => req[s].as = user /\ user \in Users
  BY <1>1 DEF CurrentInv, Fresh, PatientInv, Belongs, ForOrders, TypeOK
<1>4. req[s].op \in {"createOrder", "updateOrder"} => shown = Listing(user)
  BY <1>1 DEF Serve, Waits, CurrentInv, Fresh, ForOrders
<1>5. table' = table => Listing(user)' = Listing(user)
  BY <1>1 DEF Listing, AsEntry, Placed, page
<1>6. CASE req[s].as = Nobody /\ AnswerWith(s, "unauthorized", {}) /\ UNCHANGED table
  BY <1>1, <1>3, <1>6, AnswerCurrent, SessionAssumption
<1>7. CASE AnswerWith(s, "error", {}) /\ UNCHANGED table
           /\ req[s].op \in {"createOrder", "updateOrder"}
  BY <1>1, <1>4, <1>5, <1>7, AnswerCurrent
<1>8. CASE req[s].as # Nobody /\ Reads(s)
  <2> DEFINE rows == IF req[s].op = "listOrders" THEN Listing(req[s].as) ELSE {}
  <2>1. rows \in SUBSET Entry
    BY <1>2, <1>8, ListingTyped
  <2>2. req[s].op = "listOrders" => rows = Listing(user)'
    BY <1>3, <1>5, <1>8 DEF Reads, ForOrders
  <2> HIDE DEF rows
  <2>3. AnswerWith(s, "ok", rows) /\ req[s].op \notin {"createOrder", "updateOrder"}
    BY <1>8 DEF Reads, rows
  <2> QED
    BY <1>1, <2>1, <2>2, <2>3, AnswerCurrent
<1>9. CASE req[s].as # Nobody /\ Creates(s)
  <2>1. ASSUME IsDispatcher(req[s].as), NEW n \in Numbers \ Placed,
               table' = [table EXCEPT ![n] = [executor |-> NoTech, status |-> "created"]],
               AnswerWith(s, "ok", {[number |-> n, row |-> table'[n], as |-> req[s].as]})
        PROVE  CurrentInv'
    <3>1. PICK u \in Users : u = user /\ u = req[s].as /\ u = user'
      BY <1>1, <1>3, <1>9 DEF Creates, ForOrders, page
    <3> DEFINE rows == {[number |-> n, row |-> table'[n], as |-> u]}
    <3>2. table'[n] \in Row
      BY <1>2, <2>1 DEF TableType, Row, Statuses
    <3>3. rows \in SUBSET Entry
      BY <3>2 DEF Entry
    <3>4. Listing(u)' = Listing(u) \cup rows
      BY <1>2, <2>1, <3>1, ListingCreated
    <3>5. shown \cup rows = Listing(user)'
      BY <1>4, <1>9, <3>1, <3>4 DEF Creates, Listing, AsEntry
    <3>6. AnswerWith(s, "ok", rows) /\ req[s].op = "createOrder"
      BY <1>9, <2>1, <3>1 DEF Creates
    <3> HIDE DEF rows
    <3> QED
      BY <1>1, <3>3, <3>5, <3>6, AnswerCurrent
  <2> QED
    BY <1>7, <1>9, <2>1 DEF Creates
<1>10. CASE req[s].as # Nobody /\ Updates(s)
  <2> DEFINE n == req[s].number
  <2>1. CASE /\ n \in Placed
             /\ MayTouch(RoleOf[req[s].as], LinkOf[req[s].as], table[n])
             /\ req[s].sets => IsDispatcher(req[s].as)
             /\ table' = [table EXCEPT ![n] = Edited(table[n], req[s])]
             /\ AnswerWith(s, "ok", {[number |-> n, row |-> table'[n], as |-> req[s].as]})
    <3>1. PICK u \in Users : u = user /\ u = req[s].as /\ u = user'
      BY <1>1, <1>3, <1>10 DEF Updates, ForOrders, page
    <3> DEFINE rows == {[number |-> n, row |-> table'[n], as |-> u]}
    <3>2. n \in Numbers /\ table[n] \in Row
      BY <1>2, <2>1 DEF Placed, TableType
    <3>3. table'[n] \in Row
      BY <1>1, <1>2, <2>1, <3>2, EditedTyped DEF TableType
    <3>4. rows \in SUBSET Entry
      BY <3>2, <3>3 DEF Entry
    <3>5. /\ AsEntry(n, u) \in Listing(u)
          /\ Listing(u)' = {e \in Listing(u) : e.number # n} \cup rows
      <4>1. PICK c \in Request : c = req[s]
        BY <1>1
      <4>2. PICK k \in Placed : k = n
        BY <2>1
      <4>3. /\ MayTouch(RoleOf[u], LinkOf[u], table[k])
            /\ c.sets => IsDispatcher(u)
            /\ table' = [table EXCEPT ![k] = Edited(table[k], c)]
        BY <2>1, <3>1, <4>1, <4>2
      <4>4. /\ AsEntry(k, u) \in Listing(u)
            /\ Listing(u)' = {e \in Listing(u) : e.number # k}
                               \cup {[number |-> k, row |-> table'[k], as |-> u]}
        BY <1>2, <4>3, ListingUpdated
      <4> QED
        BY <4>2, <4>4
    <3>6. shown = Listing(u) /\ Listing(user)' = Listing(u)'
      BY <1>4, <1>10, <3>1 DEF Updates, Listing, AsEntry
    <3>7. n \in ShownNumbers /\ AsEntry(n, u).number = n
      BY <3>5, <3>6 DEF ShownNumbers, AsEntry
    <3>8. {new \in rows : new.number \in ShownNumbers} = rows
      BY <3>7
    <3>9. AnswerWith(s, "ok", rows) /\ req[s].op = "updateOrder"
      BY <1>10, <2>1, <3>1 DEF Updates
    <3> HIDE DEF rows
    <3>10. {e \in shown : "ok" = "ok" => e.number # req[s].number}
             \cup {new \in rows : new.number \in ShownNumbers} = Listing(user)'
      BY <3>5, <3>6, <3>8
    <3> QED
      BY <1>1, <3>4, <3>9, <3>10, AnswerCurrent
  <2> QED
    BY <1>7, <1>10, <2>1 DEF Updates
<1> QED
  BY <1>6, <1>8, <1>9, <1>10 DEF Serve

LEMMA CurrentPage ==
  ASSUME TypeOK, SessionInv, PatientInv, CurrentInv, NEW s \in Slots, Receive(s)
  PROVE  CurrentInv'
<1>0. req[s] \in Request /\ req[s] # Idle /\ req[s].heard /\ req[s].answer # "none"
  BY DEF TypeOK, Receive, CurrentInv
<1>1. \A t \in Slots : t # s => req[t] = Idle
  BY <1>0 DEF PatientInv
<1>2. Fresh(s) /\ Belongs(s)
  BY <1>0 DEF CurrentInv, PatientInv
<1>3. Done(s) => \A t \in Slots : req'[t] = Idle
  BY <1>0, <1>1 DEF Done, TypeOK
<1>4. user' = user => Listing(user)' = Listing(user)
  BY DEF Receive, Listing, AsEntry, Placed
<1>5. ASSUME ForOrders(s), shown' = After(s), token' = TokenAfter(s), Done(s), user' = user
      PROVE  CurrentInv'
  <2>1. token' = token
    BY <1>2, <1>5 DEF Fresh, TokenAfter
  <2>2. shown' = Listing(user)'
    BY <1>0, <1>2, <1>4, <1>5 DEF Fresh
  <2> QED
    BY <1>3, <1>5, <2>1, <2>2 DEF CurrentInv, ShownIsCurrent
<1>6. CASE Listed(s)
  <2>1. req[s].answer = "ok"
    BY <1>0, <1>2, <1>6 DEF Listed, Fresh, ForOrders
  <2> QED
    BY <1>5, <1>6, <2>1 DEF Listed, After, ForOrders
<1>7. CASE Created(s)
  BY <1>5, <1>7 DEF Created, After, ForOrders
<1>8. CASE Updated(s)
  BY <1>5, <1>8 DEF Updated, After, ForOrders
<1>9. ASSUME NEW u \in Users \cup {Nobody}, Load(s, u), user' = u, token' = u
      PROVE  CurrentInv'
  <2>1. req'[s] = Blank("listOrders", u) /\ \A t \in Slots : t # s => req'[t] = Idle
    BY <1>0, <1>1, <1>9 DEF Load, TypeOK
  <2>2. Blank("listOrders", u) # Idle
    BY BlankTyped DEF Operations
  <2>3. req'[s].heard /\ Fresh(s)'
    BY <1>9, <2>1 DEF Fresh, ForOrders, Blank
  <2>4. ~ Quiet'
    BY <2>1, <2>2 DEF Quiet
  <2> QED
    BY <1>9, <2>1, <2>3, <2>4 DEF CurrentInv, ShownIsCurrent
<1>10. ASSUME Done(s), user' = Nobody PROVE CurrentInv'
  BY <1>3, <1>10 DEF CurrentInv, ShownIsCurrent
<1>11. CASE LoggedIn(s)
  <2>1. user = Nobody /\ req[s].as \in Users \cup {Nobody}
    BY <1>0, <1>2, <1>11 DEF LoggedIn, Belongs, Request
  <2> QED
    BY <1>9, <1>10, <1>11, <2>1 DEF LoggedIn
<1>12. CASE Booted(s)
  <2>1. req[s].as = token /\ token \in Users \cup {Nobody}
    BY <1>0, <1>12 DEF Booted, SessionInv, BootInv, Asks, TypeOK
  <2> QED
    BY <1>9, <1>10, <1>12, <2>1 DEF Booted
<1> QED
  BY <1>0, <1>6, <1>7, <1>8, <1>11, <1>12 DEF Receive

\* With nobody else at the orders and no failure of what is about them, a
\* waiting user's list is, at rest, what the server would list for him.
THEOREM WaitingUserIsCurrent ==
  ASSUME Patient, ~ Others, Failing \subseteq {"login", "me"}
  PROVE  Spec => []ShownIsCurrent
<1>1. Init => CurrentInv
  BY DEF Init, CurrentInv, ShownIsCurrent
<1>2. TypeOK /\ SessionInv /\ PatientInv /\ CurrentInv /\ [Next]_vars => CurrentInv'
  <2> SUFFICES ASSUME TypeOK, SessionInv, PatientInv, CurrentInv, [Next]_vars
               PROVE  CurrentInv'
    OBVIOUS
  <2>1. CASE UNCHANGED vars
    <3>1. Listing(user)' = Listing(user)
      BY <2>1 DEF vars, page, Listing, AsEntry, Placed
    <3>2. \A s \in Slots : Fresh(s)' <=> Fresh(s)
      BY <2>1, <3>1 DEF vars, page, Fresh, ForOrders, After, ShownNumbers
    <3> QED
      BY <2>1, <3>1, <3>2 DEF CurrentInv, ShownIsCurrent, Quiet, vars, page
  <2>2. CASE UserActs
    BY <2>2, CurrentUser
  <2>3. ASSUME NEW s \in Slots, Serve(s) PROVE CurrentInv'
    BY <2>3, CurrentServer
  <2>4. ASSUME NEW s \in Slots, Refuse(s) PROVE CurrentInv'
    <3>1. ~ ForOrders(s) /\ req[s] # Idle
      BY <2>4 DEF Refuse, Waits, ForOrders
    <3> QED
      BY <2>4, <3>1, AnswerCurrent DEF Refuse
  <2>5. ASSUME NEW s \in Slots, Lose(s) PROVE CurrentInv'
    <3>1. ~ ForOrders(s) /\ req[s] # Idle
      BY <2>5 DEF Lose, ForOrders
    <3> QED
      BY <2>5, <3>1, AnswerCurrent DEF Lose
  <2>6. ASSUME NEW s \in Slots, Receive(s) PROVE CurrentInv'
    BY <2>6, CurrentPage
  <2>7. ASSUME NEW n \in Numbers, NEW t \in TechIds, OtherClient(n, t) PROVE CurrentInv'
    BY <2>7 DEF OtherClient
  <2> QED
    BY <2>1, <2>2, <2>3, <2>4, <2>5, <2>6, <2>7 DEF Next
<1>3. CurrentInv => ShownIsCurrent
  BY DEF CurrentInv
<1> QED
  BY <1>1, <1>2, <1>3, TypeCorrect, SessionInvHolds, PatientInvHolds, PTL DEF Spec

-----------------------------------------------------------------------------
(***************************************************************************)
(* A user who waits before he logs out.  App.tsx applies an answer about   *)
(* orders whoever is logged in when it comes; that is all that can bring   *)
(* another user's orders to the screen.  Everything else may overlap.      *)
(***************************************************************************)

\* Only a reload forgets what the user did not wait for.
LEMMA HastyGrows == [Next]_vars /\ ~ ReloadPage => hasty \subseteq hasty'
<1>1. UNCHANGED page => hasty' = hasty
  BY DEF page
<1>2. ASSUME UserActs, ~ ReloadPage PROVE hasty \subseteq hasty'
  BY <1>1, <1>2 DEF UserActs, LogIn, LogOut, Navigate, SubmitOrder, OpenDetail, Assign, CancelOrder,
     ChangeStatus
<1>3. ASSUME NEW s \in Slots, Receive(s) PROVE hasty' = hasty
  BY <1>1, <1>3 DEF Receive, LoggedIn, Booted, Listed, Created, Updated
<1> QED
  BY <1>1, <1>2, <1>3 DEF Next, vars, Serve, Refuse, Lose, OtherClient

AboutOrders == {"listOrders", "createOrder", "updateOrder"}

Hears(s, ops) == req[s] # Idle /\ req[s].heard /\ req[s].op \in ops

\* What an answer to come may say, user u being logged in.
OfUser(q, u) ==
  q # Idle /\ q.heard =>
    /\ q.answer = "ok" => q.as # Nobody
    /\ \A e \in q.rows : e.as = q.as
    /\ q.op \in {"login", "me"} => u = Nobody
    /\ q.op \notin {"login", "me"} => u # Nobody /\ q.as \in {u, Nobody}

OwnInv ==
  /\ \A s \in Slots : OfUser(req[s], user)
  /\ \A s, t \in Slots : Hears(s, {"login"}) /\ Hears(t, {"login"}) => s = t
  /\ user = Nobody => shown = {}
  /\ ShownBelongsToUser

\* Nothing new is owed to the page, or one answer to the user logged in.
LEMMA OwnKept ==
  ASSUME OwnInv, NEW q, UNCHANGED user,
         \A t \in Slots : req'[t] # Idle /\ req'[t].heard => req'[t] = req[t] \/ req'[t] = q,
         OfUser(q, user), q.op # "login",
         \A e \in shown' : e.as = user, user = Nobody => shown' = {}
  PROVE  OwnInv'
<1>1. \A t \in Slots : OfUser(req'[t], user)
  BY DEF OwnInv, OfUser
<1>2. \A s, t \in Slots : Hears(s, {"login"})' /\ Hears(t, {"login"})' => s = t
  BY DEF OwnInv, Hears
<1> QED
  BY <1>1, <1>2 DEF OwnInv, ShownBelongsToUser

\* A reload starts anew, whatever was owed to the old page.
LEMMA OwnReload ==
  ASSUME TypeOK, ReloadPage
  PROVE  OwnInv'
<1>1. PICK s \in Slots :
        req' = [t \in Slots |-> IF t = s /\ token # Nobody THEN Blank("me", token)
                                ELSE IF Outlives(t) THEN [req[t] EXCEPT !.heard = FALSE]
                                ELSE Idle]
  BY DEF ReloadPage
<1>2. \A t \in Slots : Outlives(t) => ~ [req[t] EXCEPT !.heard = FALSE].heard
  BY DEF TypeOK, Outlives, Waits, Request
<1>3. LET q == Blank("me", token) IN OfUser(q, Nobody) /\ q.op # "login"
  BY DEF OfUser, Blank
<1>4. \A t \in Slots : OfUser(req'[t], Nobody) /\ ~ Hears(t, {"login"})'
  BY <1>1, <1>2, <1>3 DEF OfUser, Hears
<1> QED
  BY <1>4 DEF ReloadPage, OwnInv, ShownBelongsToUser

LEMMA OwnUser ==
  ASSUME TypeOK, SessionInv, OwnInv, UserActs, ~ ReloadPage, LogOut => ~ Owed(AboutOrders)
  PROVE  OwnInv'
<1>0. OfUser(Idle, user) /\ Idle.op # "login"
  BY DEF OfUser, Idle
<1>1. ASSUME NEW u \in Users, LogIn(u) PROVE OwnInv'
  <2>1. PICK s \in Slots : req' = [req EXCEPT ![s] = Blank("login", u)]
    BY <1>1 DEF LogIn, Send
  <2>2. req'[s] = Blank("login", u) /\ \A t \in Slots : t # s => req'[t] = req[t]
    BY <2>1 DEF TypeOK
  <2>3. OfUser(Blank("login", u), user)
    BY <1>1, SessionAssumption DEF OfUser, Blank, LogIn
  <2>4. \A t \in Slots : ~ Hears(t, {"login"})
    BY <1>1 DEF LogIn, Owed, Hears
  <2> QED
    BY <1>1, <2>2, <2>3, <2>4 DEF LogIn, page, OwnInv, Hears, ShownBelongsToUser
<1>2. CASE LogOut
  <2>1. \A s \in Slots : req[s] # Idle => ~ req[s].heard
    BY <1>2 DEF LogOut, CanClick, Owed, AboutOrders, OwnInv, OfUser,
       TypeOK, Request, Operations
  <2> QED
    BY <1>2, <2>1 DEF LogOut, OwnInv, OfUser, Hears, ShownBelongsToUser
<1>3. CASE Navigate \/ \E n \in Numbers : OpenDetail(n)
  BY <1>3 DEF Navigate, OpenDetail, OwnInv, Hears, ShownBelongsToUser
<1>4. ASSUME NEW q \in Request, Clicked(q) PROVE OwnInv'
  <2>1. \A t \in Slots : req'[t] = req[t] \/ req'[t] = q
    BY <1>4 DEF Clicked, Send, TypeOK
  <2>2. OfUser(q, user) /\ q.op # "login"
    BY <1>4 DEF Clicked, CanClick, OfUser, SessionInv, RequestsCarryShownUser
  <2> QED
    BY <1>4, <2>1, <2>2, OwnKept DEF Clicked, CanClick, OwnInv, ShownBelongsToUser
<1> QED
  BY <1>1, <1>2, <1>3, <1>4, Clicks

LEMMA OwnAnswer ==
  ASSUME TypeOK, OwnInv, NEW s \in Slots,
         NEW a \in {"none", "ok", "unauthorized", "error"}, NEW rows \in SUBSET Entry,
         Says(s, a, rows)
  PROVE  OwnInv'
<1>1. req[s] \in Request /\ req[s] # Idle /\ UNCHANGED page
  BY DEF TypeOK, Says
<1>2. /\ req'[s] = [req[s] EXCEPT !.answer = a, !.rows = rows]
      /\ \A t \in Slots : t # s => req'[t] = req[t]
  BY DEF TypeOK, Says, AnswerWith
<1>3. /\ req'[s].op = req[s].op /\ req'[s].as = req[s].as /\ req'[s].heard = req[s].heard
      /\ req'[s].answer = a /\ req'[s].rows = rows
  BY <1>1, <1>2 DEF Request
<1>4. OfUser(req'[s], user)
  BY <1>1, <1>3 DEF OwnInv, OfUser, Says
<1>5. ASSUME NEW t \in Slots, Hears(t, {"login"})' PROVE Hears(t, {"login"})
  <2>1. CASE t = s
    BY <1>1, <1>3, <1>5, <2>1 DEF Hears
  <2>2. CASE t # s
    BY <1>2, <1>5, <2>2 DEF Hears
  <2> QED
    BY <2>1, <2>2
<1>6. user' = user /\ shown' = shown
  BY <1>1 DEF page
<1>7. \A t \in Slots : OfUser(req'[t], user)
  BY <1>2, <1>4 DEF OwnInv
<1> QED
  BY <1>5, <1>6, <1>7 DEF OwnInv, ShownBelongsToUser

LEMMA OwnPage ==
  ASSUME TypeOK, SessionInv, OwnInv, NEW s \in Slots, Receive(s)
  PROVE  OwnInv'
<1>0. req[s] \in Request /\ req[s] # Idle /\ OfUser(Idle, user) /\ Idle.op # "login"
  BY DEF TypeOK, Receive, OfUser, Idle
<1>1. Done(s) => \A t \in Slots : req'[t] = req[t] \/ req'[t] = Idle
  BY DEF Done, TypeOK
<1>2. OfUser(req[s], user)
  BY DEF OwnInv
<1>3. CASE Done(s) /\ UNCHANGED <<token, page>>
  <2>1. user' = user /\ shown' = shown
    BY <1>3 DEF page
  <2>2. (user = Nobody => shown' = {}) /\ \A e \in shown' : e.as = user
    BY <2>1 DEF OwnInv, ShownBelongsToUser
  <2> QED
    BY <1>0, <1>1, <1>3, <2>1, <2>2, OwnKept
<1>4. CASE req[s].heard /\ (Listed(s) \/ Created(s) \/ Updated(s))
  <2>1. user # Nobody /\ \A e \in req[s].rows : e.as = user
    BY <1>0, <1>2, <1>4, SessionAssumption DEF OfUser, Listed, Created, Updated, Request, Entry
  <2>2. user' = user /\ Done(s) /\ shown' \subseteq (shown \cup req[s].rows)
    BY <1>4 DEF Listed, Created, Updated
  <2>3. \A e \in shown' : e.as = user
    BY <2>1, <2>2 DEF OwnInv, ShownBelongsToUser
  <2> QED
    BY <1>0, <1>1, <2>1, <2>2, <2>3, OwnKept
<1>5. CASE req[s].heard /\ req[s].op \in {"login", "me"}
  <2>1. user = Nobody /\ shown = {}
    BY <1>0, <1>2, <1>5 DEF OfUser, OwnInv
  <2>2. \A t \in Slots : t # s /\ req[t] # Idle => ~ req[t].heard
    <3> SUFFICES ASSUME NEW t \in Slots, t # s, req[t] # Idle, req[t].heard PROVE FALSE
      OBVIOUS
    <3>1. req[t].op \in {"login", "me"} /\ OfUser(req[t], user)
      BY <2>1 DEF OwnInv, OfUser
    <3> QED
      BY <1>0, <1>5, <3>1 DEF OwnInv, Hears, SessionInv, BootInv, Asks
  <2>3. CASE Done(s) /\ UNCHANGED shown
    BY <1>0, <1>1, <2>1, <2>2, <2>3 DEF OwnInv, OfUser, Hears, ShownBelongsToUser, Done, TypeOK
  <2>4. ASSUME NEW u \in Users, Load(s, u), user' = u, shown' = {}
        PROVE  OwnInv'
    <3>1. req'[s] = Blank("listOrders", u) /\ \A t \in Slots : t # s => req'[t] = req[t]
      BY <2>4 DEF Load, TypeOK
    <3>2. OfUser(req'[s], u)
      BY <3>1, SessionAssumption DEF OfUser, Blank
    <3>3. \A t \in Slots : t # s => OfUser(req'[t], u) /\ ~ Hears(t, {"login"})'
      BY <2>2, <3>1 DEF OfUser, Hears
    <3>4. ~ Hears(s, {"login"})'
      BY <3>1 DEF Hears, Blank
    <3> QED
      BY <2>4, <3>2, <3>3, <3>4 DEF OwnInv, ShownBelongsToUser
  <2>5. req[s].answer = "ok" => req[s].as \in Users
    BY <1>0, <1>2, <1>5 DEF OfUser, Request
  <2>6. req[s].op = "me" => req[s].as = token
    BY <1>0, <1>5 DEF SessionInv, BootInv, Asks
  <2> QED
    BY <1>5, <2>1, <2>3, <2>4, <2>5, <2>6
       DEF Receive, LoggedIn, Booted, Listed, Created, Updated
<1> QED
  BY <1>3, <1>4, <1>5 DEF Receive, LoggedIn, Booted

\* Only a logout while an answer about orders is owed to the page can leave
\* orders of one user to the next, whatever else overlaps, fails or is lost.
THEOREM CleanExit == Spec => []MixedOnlyByHastyLogOut
<1> DEFINE Clean == "logout" \notin hasty => OwnInv
<1>1. Init => Clean
  BY DEF Init, OwnInv, OfUser, Hears, ShownBelongsToUser
<1>2. TypeOK /\ SessionInv /\ Clean /\ [Next]_vars => Clean'
  <2> SUFFICES ASSUME TypeOK, SessionInv, Clean, [Next]_vars, "logout" \notin hasty'
               PROVE  OwnInv'
    OBVIOUS
  <2>1. CASE ReloadPage
    BY <2>1, OwnReload
  <2>2. CASE ~ ReloadPage
    <3>1. "logout" \notin hasty /\ OwnInv
      BY <2>2, HastyGrows
    <3>2. CASE UNCHANGED vars
      BY <3>1, <3>2 DEF vars, page, OwnInv, OfUser, Hears, ShownBelongsToUser
    <3>3. CASE UserActs
      <4>1. LogOut => ~ Owed(AboutOrders)
        BY DEF LogOut, AboutOrders
      <4> QED
        BY <2>2, <3>1, <3>3, <4>1, OwnUser
    <3>4. ASSUME NEW s \in Slots, Serve(s) \/ Refuse(s) \/ Lose(s) PROVE OwnInv'
      BY <3>1, <3>4, Answers, OwnAnswer
    <3>5. ASSUME NEW s \in Slots, Receive(s) PROVE OwnInv'
      BY <3>1, <3>5, OwnPage
    <3>6. ASSUME NEW n \in Numbers, NEW t \in TechIds, OtherClient(n, t) PROVE OwnInv'
      BY <3>1, <3>6 DEF OtherClient, page, OwnInv, OfUser, Hears, ShownBelongsToUser
    <3> QED
      BY <3>2, <3>3, <3>4, <3>5, <3>6 DEF Next
  <2> QED
    BY <2>1, <2>2
<1>3. Clean => MixedOnlyByHastyLogOut
  BY DEF OwnInv, MixedOnlyByHastyLogOut
<1> HIDE DEF Clean
<1> QED
  BY <1>1, <1>2, <1>3, TypeCorrect, SessionInvHolds, PTL DEF Spec

-----------------------------------------------------------------------------
(***************************************************************************)
(* A user who opens an order only when no list is on its way.  Only a list *)
(* can take the open order off the screen; that of a login or a reload may *)
(* come after a creation that it does not hold, or after a logout.         *)
(***************************************************************************)
HasRow(q) ==
  q # Idle /\ q.op = "updateOrder" /\ q.answer = "ok" => \E e \in q.rows : e.number = q.number

DetailInv ==
  /\ DetailHasOrder
  /\ screen = "detail" => user # Nobody /\ ~ Owed({"listOrders"})
  /\ \A s \in Slots : HasRow(req[s])

\* The screen is another one, or the same order, still in the list.
LEMMA DetailKept ==
  ASSUME DetailInv,
         \A t \in Slots : HasRow(req'[t]),
         screen' = "detail" =>
           /\ screen = "detail" /\ selected' = selected /\ user' = user
           /\ ShownNumbers \subseteq ShownNumbers'
           /\ \A t \in Slots : Hears(t, {"listOrders"})' => Hears(t, {"listOrders"})
  PROVE  DetailInv'
BY DEF DetailInv, DetailHasOrder, Owed, Hears

LEMMA DetailReload ==
  ASSUME TypeOK, ReloadPage
  PROVE  DetailInv'
<1>1. PICK s \in Slots :
        req' = [t \in Slots |-> IF t = s /\ token # Nobody THEN Blank("me", token)
                                ELSE IF Outlives(t) THEN [req[t] EXCEPT !.heard = FALSE]
                                ELSE Idle]
  BY DEF ReloadPage
<1>2. \A t \in Slots : Outlives(t) => [req[t] EXCEPT !.heard = FALSE].answer = "none"
  BY DEF TypeOK, Outlives, Waits, Request
<1>3. Blank("me", token).op # "updateOrder"
  BY DEF Blank
<1>4. \A t \in Slots : HasRow(req'[t])
  BY <1>1, <1>2, <1>3 DEF HasRow
<1> QED
  BY <1>4 DEF ReloadPage, DetailInv, DetailHasOrder

LEMMA DetailUser ==
  ASSUME TypeOK, DetailInv, UserActs, ~ ReloadPage,
         \A n \in Numbers : OpenDetail(n) => ~ Owed({"listOrders"})
  PROVE  DetailInv'
<1>1. ASSUME NEW q, Send(q), q.op # "listOrders", q.answer # "ok",
             UNCHANGED <<user, selected, shown>>, screen' \in {screen, "list"}
      PROVE  DetailInv'
  <2>1. \A t \in Slots : req'[t] = req[t] \/ req'[t] = q
    BY <1>1 DEF Send, TypeOK
  <2>2. \A t \in Slots : HasRow(req'[t])
    BY <1>1, <2>1 DEF DetailInv, HasRow
  <2>3. \A t \in Slots : Hears(t, {"listOrders"})' => Hears(t, {"listOrders"})
    BY <1>1, <2>1 DEF Hears
  <2> QED
    BY <1>1, <2>2, <2>3, DetailKept DEF ShownNumbers
<1>2. ASSUME NEW u \in Users, LogIn(u) PROVE DetailInv'
  <2>1. LET q == Blank("login", u) IN q.op # "listOrders" /\ q.answer # "ok"
    BY DEF Blank
  <2> QED
    BY <1>1, <1>2, <2>1 DEF LogIn, page
<1>3. CASE LogOut \/ Navigate
  BY <1>3, DetailKept DEF LogOut, Navigate, ScreensFrom, DetailInv
<1>4. ASSUME NEW n \in Numbers, OpenDetail(n) PROVE DetailInv'
  BY <1>4 DEF OpenDetail, CanClick, DetailInv, DetailHasOrder, Owed, ShownNumbers
<1>5. ASSUME NEW q \in Request, Clicked(q) PROVE DetailInv'
  BY <1>1, <1>5 DEF Clicked
<1> QED
  BY <1>2, <1>3, <1>4, <1>5, Clicks

LEMMA DetailAnswer ==
  ASSUME TypeOK, DetailInv, NEW s \in Slots,
         NEW a \in {"none", "ok", "unauthorized", "error"}, NEW rows \in SUBSET Entry,
         Says(s, a, rows)
  PROVE  DetailInv'
<1>1. req[s] \in Request /\ req[s] # Idle /\ UNCHANGED page
  BY DEF TypeOK, Says
<1>2. /\ req'[s] = [req[s] EXCEPT !.answer = a, !.rows = rows]
      /\ \A t \in Slots : t # s => req'[t] = req[t]
  BY DEF TypeOK, Says, AnswerWith
<1>3. /\ req'[s].op = req[s].op /\ req'[s].heard = req[s].heard /\ req'[s].number = req[s].number
      /\ req'[s].answer = a /\ req'[s].rows = rows
  BY <1>1, <1>2 DEF Request
<1>4. HasRow(req'[s])
  BY <1>3 DEF HasRow, Says
<1>5. \A t \in Slots : HasRow(req'[t])
  BY <1>2, <1>4 DEF DetailInv
<1>6. ASSUME NEW t \in Slots, Hears(t, {"listOrders"})' PROVE Hears(t, {"listOrders"})
  <2>1. CASE t = s
    BY <1>1, <1>3, <1>6, <2>1 DEF Hears
  <2>2. CASE t # s
    BY <1>2, <1>6, <2>2 DEF Hears
  <2> QED
    BY <2>1, <2>2
<1> QED
  BY <1>1, <1>5, <1>6, DetailKept DEF page, ShownNumbers

LEMMA DetailPage ==
  ASSUME TypeOK, SessionInv, DetailInv, NEW s \in Slots, Receive(s)
  PROVE  DetailInv'
<1>0. req[s] \in Request /\ req[s] # Idle /\ HasRow(req[s]) /\ HasRow(Idle)
  BY DEF TypeOK, Receive, DetailInv, HasRow, Idle
<1>1. ASSUME Done(s)
      PROVE  /\ \A t \in Slots : HasRow(req'[t])
             /\ \A t \in Slots : Hears(t, {"listOrders"})' => Hears(t, {"listOrders"})
  <2>1. \A t \in Slots : req'[t] = req[t] \/ req'[t] = Idle
    BY <1>1 DEF Done, TypeOK
  <2> QED
    BY <1>0, <2>1 DEF DetailInv, Hears
<1>2. CASE Done(s) /\ UNCHANGED <<user, screen, selected>> /\ ShownNumbers \subseteq ShownNumbers'
  BY <1>1, <1>2, DetailKept
<1>3. CASE ~ req[s].heard /\ Done(s) /\ UNCHANGED page
  BY <1>2, <1>3 DEF page, ShownNumbers
<1>4. CASE req[s].heard /\ Listed(s)
  <2>1. screen' # "detail"
    BY <1>0, <1>4 DEF Listed, DetailInv, Owed
  <2> QED
    BY <1>1, <1>4, <2>1, DetailKept DEF Listed
<1>5. CASE Created(s)
  <2>1. ShownNumbers \subseteq ShownNumbers' /\ (screen' = "detail" => screen = "detail")
    BY <1>5 DEF Created, ShownNumbers
  <2> QED
    BY <1>1, <1>5, <2>1, DetailKept DEF Created
<1>6. CASE Updated(s)
  <2>1. ASSUME NEW e \in shown PROVE \E f \in shown' : f.number = e.number
    <3>1. CASE req[s].answer = "ok" /\ e.number = req[s].number
      <4>1. PICK new \in req[s].rows : new.number = req[s].number
        BY <1>0, <1>6, <3>1 DEF Updated, HasRow
      <4> QED
        BY <1>6, <3>1, <4>1 DEF Updated, ShownNumbers
    <3>2. CASE ~ (req[s].answer = "ok" /\ e.number = req[s].number)
      BY <1>6, <3>2 DEF Updated
    <3> QED
      BY <3>1, <3>2
  <2>2. ShownNumbers \subseteq ShownNumbers'
    BY <2>1 DEF ShownNumbers
  <2> QED
    BY <1>2, <1>6, <2>2 DEF Updated
<1>7. ASSUME NEW u, Load(s, u), screen' # "detail" PROVE DetailInv'
  <2>1. \A t \in Slots : req'[t] = req[t] \/ req'[t] = Blank("listOrders", u)
    BY <1>7 DEF Load, TypeOK
  <2>2. HasRow(Blank("listOrders", u))
    BY DEF HasRow, Blank
  <2> QED
    BY <1>7, <2>1, <2>2, DetailKept DEF DetailInv
<1>8. CASE LoggedIn(s)
  <2>1. CASE req[s].answer = "ok"
    BY <1>7, <1>8, <2>1 DEF LoggedIn
  <2>2. CASE req[s].answer # "ok"
    BY <1>2, <1>8, <2>2 DEF LoggedIn, ShownNumbers
  <2> QED
    BY <2>1, <2>2
<1>9. CASE req[s].heard /\ Booted(s)
  <2>1. screen' # "detail"
    BY <1>0, <1>9 DEF Booted, SessionInv, BootInv, Asks
  <2>2. CASE req[s].answer = "ok"
    BY <1>7, <1>9, <2>1, <2>2 DEF Booted
  <2>3. CASE req[s].answer # "ok"
    BY <1>1, <1>9, <2>1, <2>3, DetailKept DEF Booted
  <2> QED
    BY <2>2, <2>3
<1> QED
  BY <1>3, <1>4, <1>5, <1>6, <1>8, <1>9 DEF Receive

\* Only a list that was owed to the page when the screen of an order was opened
\* can take the order off that screen, whatever else overlaps, fails or is lost.
THEOREM SettledListHasTheOrder == Spec => []EmptiedOnlyByLateList
<1> DEFINE Settled == "open" \notin hasty => DetailInv
<1>1. Init => Settled
  BY DEF Init, DetailInv, DetailHasOrder, HasRow
<1>2. TypeOK /\ SessionInv /\ Settled /\ [Next]_vars => Settled'
  <2> SUFFICES ASSUME TypeOK, SessionInv, Settled, [Next]_vars, "open" \notin hasty'
               PROVE  DetailInv'
    OBVIOUS
  <2>1. CASE ReloadPage
    BY <2>1, DetailReload
  <2>2. CASE ~ ReloadPage
    <3>1. "open" \notin hasty /\ DetailInv
      BY <2>2, HastyGrows
    <3>2. CASE UNCHANGED vars
      BY <3>1, <3>2 DEF vars, page, DetailInv, DetailHasOrder, Owed, ShownNumbers
    <3>3. CASE UserActs
      <4>1. ASSUME NEW n \in Numbers, OpenDetail(n) PROVE ~ Owed({"listOrders"})
        BY <4>1 DEF OpenDetail
      <4> QED
        BY <2>2, <3>1, <3>3, <4>1, DetailUser
    <3>4. ASSUME NEW s \in Slots, Serve(s) \/ Refuse(s) \/ Lose(s) PROVE DetailInv'
      BY <3>1, <3>4, Answers, DetailAnswer
    <3>5. ASSUME NEW s \in Slots, Receive(s) PROVE DetailInv'
      BY <3>1, <3>5, DetailPage
    <3>6. ASSUME NEW n \in Numbers, NEW t \in TechIds, OtherClient(n, t) PROVE DetailInv'
      BY <3>1, <3>6 DEF OtherClient, page, DetailInv, DetailHasOrder, Owed, ShownNumbers
    <3> QED
      BY <3>2, <3>3, <3>4, <3>5, <3>6 DEF Next
  <2> QED
    BY <2>1, <2>2
<1>3. Settled => EmptiedOnlyByLateList
  BY DEF DetailInv, EmptiedOnlyByLateList
<1> HIDE DEF Settled
<1> QED
  BY <1>1, <1>2, <1>3, TypeCorrect, SessionInvHolds, PTL DEF Spec
=============================================================================
