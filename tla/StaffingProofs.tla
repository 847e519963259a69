---------------------------- MODULE StaffingProofs ---------------------------
(***************************************************************************)
(* Proofs about Staffing for every number of orders, technicians, ids and  *)
(* names; what the lists show, for a dispatcher who waits for the answers. *)
(***************************************************************************)
EXTENDS Staffing, TLAPS

USE NumberAssumption, SeedAssumption, StaffingAssumption

-----------------------------------------------------------------------------
(* Requests *)

ReqType == req \in [Slots -> Request \cup {Idle}]

LEMMA IdleIsNoRequest == Idle \notin Request /\ Idle.op = "none"
<1>1. \A q \in Request : q.op # "none"
  BY DEF Request, Operations
<1> QED
  BY <1>1 DEF Idle

LEMMA BlankTyped ==
  ASSUME NEW op \in Operations, NEW t \in TechIds \cup {NoTech}
  PROVE  Blank(op, t) \in Request
<1>1. 1 \in Numbers
  BY DEF Numbers
<1> QED
  BY <1>1 DEF Blank, Request

\* The parts of a request.
LEMMA Parts ==
  ASSUME NEW q \in Request
  PROVE  /\ q.op \in Operations /\ q.tech \in TechIds \cup {NoTech}
         /\ q.name \in Names \cup {NoName} /\ q.active \in BOOLEAN
         /\ q.number \in Numbers /\ q.answer \in {"none", "ok", "error"} /\ q.rows \in SUBSET StaffRow
BY DEF Request

\* r differs from q in what has been answered only.
Same(q, r) ==
  /\ r.op = q.op /\ r.tech = q.tech /\ r.name = q.name
  /\ r.active = q.active /\ r.changed = q.changed /\ r.number = q.number

LEMMA AnswerEffect ==
  ASSUME ReqType, NEW s \in Slots, req[s] # Idle, NEW a \in {"none", "ok", "error"},
         NEW rows \in SUBSET StaffRow, AnswerWith(s, a, rows)
  PROVE  /\ ReqType' /\ req'[s] \in Request
         /\ Same(req[s], req'[s]) /\ req'[s].answer = a /\ req'[s].rows = rows
         /\ \A r \in Slots \ {s} : req'[r] = req[r]
<1>1. req[s] \in Request
  BY DEF ReqType
<1>2. req'[s] = [req[s] EXCEPT !.answer = a, !.rows = rows]
  BY DEF AnswerWith, ReqType
<1>3. \A r \in Slots \ {s} : req'[r] = req[r]
  BY DEF AnswerWith, ReqType
<1>4. req'[s] \in Request
  BY <1>1, <1>2 DEF Request
<1>5. ReqType'
  BY <1>3, <1>4 DEF AnswerWith, ReqType
<1>6. Same(req[s], req'[s]) /\ req'[s].answer = a /\ req'[s].rows = rows
  BY <1>1, <1>2 DEF Same, Request
<1> QED
  BY <1>3, <1>4, <1>5, <1>6

\* A request that goes out is the only change of requests.
LEMMA SendEffect ==
  ASSUME ReqType, NEW s \in Slots, NEW q \in Request, Send(s, q)
  PROVE  ReqType' /\ req[s] = Idle /\ req'[s] = q /\ \A r \in Slots \ {s} : req'[r] = req[r]
BY DEF ReqType, Send, Free

\* So is one that is done, or followed by the loading of the list.
LEMMA DoneEffect ==
  ASSUME ReqType, NEW s \in Slots, Done(s) \/ Reload(s)
  PROVE  /\ ReqType' /\ \A r \in Slots \ {s} : req'[r] = req[r]
         /\ Done(s) => req'[s] = Idle
         /\ Reload(s) => req'[s] = Blank("list", NoTech)
<1>1. Blank("list", NoTech) \in Request
  BY BlankTyped DEF Operations
<1> QED
  BY <1>1 DEF ReqType, Done, Reload

-----------------------------------------------------------------------------
(* Types *)

\* What the screens put into their requests.
Proper(q) ==
  /\ q.op \in {"create", "update"} => q.name \in Names
  /\ q.op \in {"update", "delete", "assign"} => q.tech \in TechIds
  /\ q.op = "assign" => q.number \in Placed

AllProper == \A s \in Slots : req[s] # Idle => Proper(req[s])

ServerTyped == StoreTypeOK /\ names \in [TechIds -> Names]

PageTyped ==
  /\ screen \in Screens /\ LocalOK /\ listed \subseteq StaffRow
  /\ held \in [Placed -> TechIds \cup {NoTech}] /\ missed \subseteq {"staff", "orders"}

LEMMA TypesSplit == TypeOK <=> ServerTyped /\ PageTyped /\ ReqType
BY DEF TypeOK, ServerTyped, PageTyped, ReqType

LEMMA TypesJoin == ServerTyped' /\ PageTyped' /\ ReqType' => TypeOK'
BY DEF TypeOK, ServerTyped, PageTyped, ReqType

LEMMA StaffRowsTyped == ServerTyped => StaffRows \in SUBSET StaffRow
<1> SUFFICES ASSUME ServerTyped PROVE StaffRows \in SUBSET StaffRow
  OBVIOUS
<1>1. ASSUME NEW t \in Existing
      PROVE  [id |-> t, name |-> names[t], active |-> Employed(t)] \in StaffRow
  <2>1. t \in TechIds /\ names[t] \in Names
    BY DEF ServerTyped, Existing
  <2>2. Employed(t) \in BOOLEAN
    BY DEF Employed
  <2> QED
    BY <2>1, <2>2 DEF StaffRow
<1> QED
  BY <1>1 DEF StaffRows

\* Giving out an order writes its row, and no order comes or goes.
LEMMA AssignedRow ==
  ASSUME StoreTypeOK, NEW n \in Placed, NEW t \in TechIds, UpdateOrder(n, Edited(orders[n], Assigned(t)))
  PROVE  /\ StoreTypeOK' /\ Placed' = Placed
         /\ orders'[n].executor = t /\ \A k \in Numbers \ {n} : orders'[k] = orders[k]
<1> DEFINE row == Edited(orders[n], Assigned(t))
<1>1. row = [executor |-> t, status |-> "assigned"]
  BY DEF Edited, Assigned, TechIds, NoTech, Keep
<1>2. row \in Row /\ row # Absent
  BY <1>1 DEF Row, Statuses, Absent, TechIds, NoTech
<1>3. orders' = [orders EXCEPT ![n] = row] /\ n \in Numbers
  BY DEF UpdateOrder, Placed
<1>4. StoreTypeOK'
  BY <1>2, <1>3 DEF StoreTypeOK, UpdateOrder
<1>5. Placed' = Placed
  BY <1>2, <1>3 DEF StoreTypeOK, Placed
<1> QED
  BY <1>1, <1>3, <1>4, <1>5 DEF StoreTypeOK

\* Every statement about technicians keeps the types and the orders.
LEMMA TechnicianStatements ==
  ASSUME ServerTyped, NEW t \in TechIds,
         \/ CanInsertTechnician /\ InsertTechnician
         \/ UpdateTechnician(t, "active")
         \/ UpdateTechnician(t, "fired")
         \/ DeleteTechnician(t)
  PROVE  StoreTypeOK' /\ orders' = orders /\ Placed' = Placed
<1> USE DEF ServerTyped, StoreTypeOK, TechStates
<1>1. CASE CanInsertTechnician /\ InsertTechnician
  <2>1. nextTechId' \in 1 .. (LastTechId + 1)
    BY <1>1 DEF CanInsertTechnician, InsertTechnician
  <2>2. technicians' \in [TechIds -> TechStates]
    BY <1>1 DEF InsertTechnician
  <2> QED
    BY <1>1, <2>1, <2>2 DEF InsertTechnician, Placed
<1>2. CASE UpdateTechnician(t, "active") \/ UpdateTechnician(t, "fired")
  BY <1>2 DEF UpdateTechnician, Placed, Keep
<1>3. CASE DeleteTechnician(t)
  BY <1>3 DEF DeleteTechnician, Placed
<1> QED
  BY <1>1, <1>2, <1>3

Typed == TypeOK /\ AllProper

LEMMA TypedInit == Init => Typed
<1> SUFFICES ASSUME Init PROVE Typed
  OBVIOUS
<1>1. ServerTyped
  BY DEF Init, StoreInit, ServerTyped, StoreTypeOK, TechStates, TechIds, NoTech, Numbers, Row, Absent
<1>2. \A n \in Placed : orders[n].executor \in TechIds \cup {NoTech}
  BY <1>1 DEF ServerTyped, StoreTypeOK, Placed, Row
<1>3. PageTyped
  BY <1>2 DEF Init, PageTyped, Screens, LocalOK
<1>4. Blank("list", NoTech) \in Request /\ Proper(Blank("list", NoTech))
  BY BlankTyped DEF Operations, Proper, Blank
<1>5. ReqType /\ AllProper
  BY <1>4 DEF Init, ReqType, AllProper
<1> QED
  BY <1>1, <1>3, <1>5, TypesSplit DEF Typed

\* What a click of the dispatcher sends.
LEMMA SendTyped ==
  ASSUME Typed, NEW s \in Slots, NEW q \in Request, Proper(q), Send(s, q), UNCHANGED server, PageTyped'
  PROVE  Typed'
<1>1. ReqType' /\ req'[s] = q /\ \A r \in Slots \ {s} : req'[r] = req[r]
  BY SendEffect, TypesSplit DEF Typed
<1>2. ServerTyped'
  BY TypesSplit DEF Typed, ServerTyped, server, tables, StoreTypeOK
<1>3. AllProper'
  BY <1>1 DEF Typed, AllProper, Proper, server, tables, Placed
<1> QED
  BY <1>1, <1>2, <1>3, TypesJoin DEF Typed

LEMMA QuietTyped ==
  ASSUME Typed, UNCHANGED <<server, req>>, PageTyped'
  PROVE  Typed'
<1>1. ServerTyped' /\ ReqType' /\ AllProper'
  BY TypesSplit DEF Typed, ServerTyped, server, tables, StoreTypeOK, ReqType, AllProper, Proper, Placed
<1> QED
  BY <1>1, TypesJoin DEF Typed

\* The request of a form that opened with row was.
SaveOf(was, name, active, changed) ==
  [Blank(IF was = New THEN "create" ELSE "update", was.id) EXCEPT
     !.name = name, !.active = active, !.changed = changed]

LEMMA SaveTyped ==
  ASSUME NEW was \in StaffRow \cup {New}, NEW name \in Names, NEW active \in BOOLEAN,
         NEW changed \in SUBSET {"name", "active"}
  PROVE  LET q == SaveOf(was, name, active, changed)
         IN  /\ q \in Request /\ Proper(q)
             /\ q.op = (IF was = New THEN "create" ELSE "update")
             /\ q.tech = was.id /\ q.name = name /\ q.active = active /\ q.changed = changed
             /\ q.answer = "none"
<1> DEFINE op == IF was = New THEN "create" ELSE "update"
           b == Blank(op, was.id)
           q == SaveOf(was, name, active, changed)
<1>1. was.id \in TechIds \cup {NoTech} /\ (was # New => was.id \in TechIds)
  BY DEF StaffRow, New
<1>2. b \in Request /\ b.op = op /\ b.tech = was.id /\ b.answer = "none"
  BY <1>1, BlankTyped DEF Operations, Blank
<1>3. q = [b EXCEPT !.name = name, !.active = active, !.changed = changed]
  BY DEF SaveOf
<1> HIDE DEF b, q
<1>4. q \in Request
  BY <1>2, <1>3 DEF Request
<1>5. /\ q.op = op /\ q.tech = was.id /\ q.name = name /\ q.active = active /\ q.changed = changed
      /\ q.answer = "none"
  BY <1>2, <1>3 DEF Request
<1>6. Proper(q)
  BY <1>1, <1>5 DEF Proper
<1> QED
  BY <1>4, <1>5, <1>6 DEF q

LEMMA ClicksTyped ==
  ASSUME Typed, Clicks
  PROVE  Typed'
<1>1. PageTyped /\ ReqType
  BY TypesSplit DEF Typed
<1>2. CASE \E to \in Screens \ {"detail"} : Navigate(to)
  <2>1. PageTyped'
    BY <1>1, <1>2 DEF Navigate, server, tables, PageTyped, LocalOK, Placed
  <2> QED
    BY <1>2, <2>1, QuietTyped DEF Navigate
<1>3. CASE \E n \in Numbers : OpenDetail(n)
  <2>1. PICK n \in Numbers : OpenDetail(n)
    BY <1>3
  <2>2. local'.kind = "detail" /\ local'.number = n /\ local'.chosen = held[n]
    BY <2>1 DEF OpenDetail
  <2>3. PageTyped'
    BY <1>1, <2>1, <2>2 DEF OpenDetail, server, tables, PageTyped, LocalOK, Placed, Screens
  <2> QED
    BY <2>1, <2>3, QuietTyped DEF OpenDetail
<1>4. CASE \E t \in TechIds \cup {NoTech} : Choose(t)
  <2>1. PICK t \in TechIds \cup {NoTech} : Choose(t)
    BY <1>4
  <2>2. screen = "detail"
    BY <1>1, <2>1 DEF Choose, PageTyped, LocalOK, Screens, Nothing
  <2>3. PageTyped'
    BY <1>1, <2>1, <2>2 DEF Choose, app, server, tables, PageTyped, LocalOK, Placed
  <2> QED
    BY <2>1, <2>3, QuietTyped DEF Choose, app
<1>5. CASE \E row \in listed \cup {New} : OpenForm(row)
  <2>1. PICK row \in listed \cup {New} : OpenForm(row)
    BY <1>5
  <2>2. local'.kind = "form" /\ local'.was = row
    BY <2>1 DEF OpenForm
  <2>3. row \in StaffRow \cup {New}
    BY <1>1, <2>1 DEF PageTyped
  <2>4. PageTyped'
    BY <1>1, <2>1, <2>2, <2>3 DEF OpenForm, app, server, tables, PageTyped, LocalOK, Placed
  <2> QED
    BY <2>1, <2>4, QuietTyped DEF OpenForm, app
<1>6. CASE \E row \in listed : AskDelete(row)
  <2>1. PICK row \in listed : AskDelete(row)
    BY <1>6
  <2>2. local'.kind = "delete" /\ local'.tech = row.id
    BY <2>1 DEF AskDelete
  <2>3. row.id \in TechIds
    BY <1>1, <2>1 DEF PageTyped, StaffRow
  <2>4. PageTyped'
    BY <1>1, <2>1, <2>2, <2>3 DEF AskDelete, app, server, tables, PageTyped, LocalOK, Placed
  <2> QED
    BY <2>1, <2>4, QuietTyped DEF AskDelete, app
<1>7. ASSUME local.kind \in {"form", "delete"}, local' = Nothing, UNCHANGED <<server, app, missed>>
      PROVE  PageTyped'
  BY <1>1, <1>7 DEF app, server, tables, PageTyped, LocalOK, Placed, Screens, Nothing
<1>8. CASE Dismiss
  BY <1>7, <1>8, QuietTyped DEF Dismiss
<1>9. CASE ConfirmDelete
  <2>1. local.tech \in TechIds
    BY <1>1, <1>9 DEF ConfirmDelete, PageTyped, LocalOK, Screens, Nothing
  <2>2. Blank("delete", local.tech) \in Request /\ Proper(Blank("delete", local.tech))
    BY <2>1, BlankTyped DEF Operations, Proper, Blank
  <2> QED
    BY <1>7, <1>9, <2>2, SendTyped DEF ConfirmDelete
<1>10. CASE Assign
  <2>1. local.number \in Placed /\ local.chosen \in TechIds
    BY <1>1, <1>10 DEF Assign, PageTyped, LocalOK, Screens, Nothing
  <2> DEFINE b == Blank("assign", local.chosen)
             q == [b EXCEPT !.number = local.number]
  <2>2. b \in Request /\ b.op = "assign" /\ b.tech = local.chosen
    BY <2>1, BlankTyped DEF Operations, Blank
  <2>3. local.number \in Numbers
    BY <2>1 DEF Placed
  <2>4. q \in Request /\ q.op = "assign" /\ q.tech = local.chosen /\ q.number = local.number
    BY <2>2, <2>3 DEF Request
  <2>5. Proper(q)
    BY <2>1, <2>4 DEF Proper
  <2>6. PageTyped'
    BY <1>1, <1>10 DEF Assign, app, server, tables, PageTyped, LocalOK, Placed
  <2> QED
    BY <1>10, <2>4, <2>5, <2>6, SendTyped DEF Assign
<1>11. ASSUME NEW name \in Names, NEW active \in BOOLEAN, Save(name, active)
       PROVE  Typed'
  <2>1. PICK s \in Slots, changed \in SUBSET {"name", "active"} :
          Send(s, SaveOf(local.was, name, active, changed))
    BY <1>11 DEF Save, SaveOf, FormOf
  <2>2. local.was \in StaffRow \cup {New}
    BY <1>1, <1>11 DEF Save, PageTyped, LocalOK, Screens, Nothing
  <2>3. /\ SaveOf(local.was, name, active, changed) \in Request
        /\ Proper(SaveOf(local.was, name, active, changed))
    BY <2>2, SaveTyped
  <2> QED
    BY <1>7, <1>11, <2>1, <2>3, SendTyped DEF Save
<1> QED
  BY <1>2, <1>3, <1>4, <1>5, <1>6, <1>8, <1>9, <1>10, <1>11 DEF Clicks

\* What an answer leaves as it was, whoever gives it.
LEMMA AnsweredTyped ==
  ASSUME Typed, NEW s \in Slots, req[s] # Idle, NEW a \in {"none", "ok", "error"},
         NEW rows \in SUBSET StaffRow, AnswerWith(s, a, rows), Placed' = Placed,
         ServerTyped', UNCHANGED <<app, local>>, missed' \subseteq {"staff", "orders"}
  PROVE  Typed'
<1>1. /\ ReqType' /\ Same(req[s], req'[s]) /\ \A r \in Slots \ {s} : req'[r] = req[r]
  BY AnswerEffect, TypesSplit DEF Typed
<1>2. AllProper'
  BY <1>1 DEF Typed, AllProper, Proper, Same
<1>3. PageTyped'
  BY TypesSplit DEF Typed, PageTyped, LocalOK, app
<1> QED
  BY <1>1, <1>2, <1>3, TypesJoin DEF Typed

\* The server's part of a request: what it does to the tables and answers.
LEMMA ServerEffect ==
  ASSUME Typed, NEW s \in Slots, Serve(s)
  PROVE  /\ req[s] \in Request /\ req[s] # Idle /\ req[s].answer = "none"
         /\ ServerTyped' /\ Placed' = Placed /\ missed' \in {missed, missed \ {"staff"}}
         /\ \E a \in {"ok", "error"}, rows \in SUBSET StaffRow : AnswerWith(s, a, rows)
<1>1. ServerTyped /\ ReqType
  BY TypesSplit DEF Typed
<1>2. req[s] \in Request /\ req[s] # Idle /\ req[s].answer = "none"
  BY <1>1 DEF Serve, ReqType
<1>3. Proper(req[s])
  BY <1>2 DEF Typed, AllProper
<1>4. ASSUME UNCHANGED server
      PROVE  ServerTyped' /\ Placed' = Placed
  BY <1>1, <1>4 DEF ServerTyped, StoreTypeOK, server, tables, Placed
<1>5. CASE Lists(s)
  BY <1>1, <1>2, <1>4, <1>5, StaffRowsTyped DEF Lists
<1>6. CASE Creates(s)
  <2>1. CASE CanInsertTechnician /\ InsertTechnician
             /\ names' = [names EXCEPT ![nextTechId] = req[s].name] /\ AnswerWith(s, "ok", {})
    <3>1. req[s].name \in Names
      BY <1>3, <1>6 DEF Proper, Creates
    <3>2. 1 \in TechIds
      BY DEF TechIds
    <3>3. StoreTypeOK' /\ Placed' = Placed
      BY <1>1, <2>1, <3>2, TechnicianStatements
    <3> QED
      BY <1>1, <1>2, <1>6, <2>1, <3>1, <3>3 DEF ServerTyped, Creates
  <2>2. CASE AnswerWith(s, "error", {}) /\ UNCHANGED server
    BY <1>2, <1>4, <1>6, <2>2 DEF Creates
  <2> QED
    BY <1>6, <2>1, <2>2 DEF Creates
<1>7. CASE Updates(s)
  <2> DEFINE t == req[s].tech
  <2>1. CASE /\ t \in Existing /\ UpdateTechnician(t, IF req[s].active THEN "active" ELSE "fired")
             /\ names' = [names EXCEPT ![t] = req[s].name] /\ AnswerWith(s, "ok", {})
    <3>1. t \in TechIds /\ req[s].name \in Names
      BY <1>3, <1>7 DEF Proper, Updates
    <3>2. UpdateTechnician(t, "active") \/ UpdateTechnician(t, "fired")
      BY <2>1
    <3>3. StoreTypeOK' /\ Placed' = Placed
      BY <1>1, <3>1, <3>2, TechnicianStatements
    <3> QED
      BY <1>1, <1>2, <1>7, <2>1, <3>1, <3>3 DEF ServerTyped, Updates
  <2>2. CASE AnswerWith(s, "error", {}) /\ UNCHANGED server
    BY <1>2, <1>4, <1>7, <2>2 DEF Updates
  <2> QED
    BY <1>7, <2>1, <2>2 DEF Updates
<1>8. CASE Deletes(s)
  <2> DEFINE t == req[s].tech
  <2>1. CASE DeleteTechnician(t) /\ AnswerWith(s, "ok", {}) /\ UNCHANGED names
    <3>1. t \in TechIds
      BY <1>3, <1>8 DEF Proper, Deletes
    <3>2. StoreTypeOK' /\ Placed' = Placed
      BY <1>1, <2>1, <3>1, TechnicianStatements
    <3> QED
      BY <1>1, <1>2, <1>8, <2>1, <3>2 DEF ServerTyped, Deletes
  <2>2. CASE AnswerWith(s, "error", {}) /\ UNCHANGED server
    BY <1>2, <1>4, <1>8, <2>2 DEF Deletes
  <2> QED
    BY <1>8, <2>1, <2>2 DEF Deletes
<1>9. CASE Assigns(s)
  <2> DEFINE t == req[s].tech
             n == req[s].number
  <2>1. CASE UpdateOrder(n, Edited(orders[n], Assigned(t))) /\ AnswerWith(s, "ok", {})
    <3>1. t \in TechIds /\ n \in Placed
      BY <1>3, <1>9 DEF Proper, Assigns
    <3>2. StoreTypeOK' /\ Placed' = Placed
      BY <1>1, <2>1, <3>1, AssignedRow DEF ServerTyped
    <3> QED
      BY <1>1, <1>2, <1>9, <2>1, <3>2 DEF ServerTyped, Assigns
  <2>2. CASE AnswerWith(s, "error", {}) /\ UNCHANGED tables
    <3>1. UNCHANGED server
      BY <1>9, <2>2 DEF server, Assigns
    <3> QED
      BY <1>2, <1>4, <1>9, <2>2, <3>1 DEF Assigns
  <2> QED
    BY <1>9, <2>1, <2>2 DEF Assigns
<1> QED
  BY <1>5, <1>6, <1>7, <1>8, <1>9 DEF Serve

LEMMA ServeTyped ==
  ASSUME Typed, NEW s \in Slots, Serve(s)
  PROVE  Typed'
<1>1. missed' \subseteq {"staff", "orders"}
  BY ServerEffect, TypesSplit DEF Typed, PageTyped
<1>2. UNCHANGED <<app, local>>
  BY DEF Serve
<1> QED
  BY <1>1, <1>2, ServerEffect, AnsweredTyped

LEMMA LoseTyped ==
  ASSUME Typed, NEW s \in Slots, Lose(s)
  PROVE  Typed'
<1>1. ServerTyped' /\ Placed' = Placed
  BY TypesSplit DEF Typed, Lose, ServerTyped, StoreTypeOK, server, tables, Placed
<1>2. missed' \subseteq {"staff", "orders"}
  BY TypesSplit DEF Typed, PageTyped, Lose, Unknown
<1> QED
  BY <1>1, <1>2, AnsweredTyped DEF Lose

\* What another dispatcher does.
LEMMA OthersTyped ==
  ASSUME Typed,
         \/ \E t \in TechIds, name \in Names, active \in BOOLEAN : OtherEdits(t, name, active)
         \/ \E n \in Numbers, t \in TechIds : OtherAssigns(n, t)
  PROVE  Typed'
<1>1. ServerTyped /\ PageTyped /\ ReqType
  BY TypesSplit DEF Typed
<1>2. UNCHANGED <<app, local, req>> /\ missed' \subseteq {"staff", "orders"}
  BY <1>1 DEF OtherEdits, OtherAssigns, PageTyped
<1>3. ASSUME NEW t \in TechIds, NEW name \in Names, NEW active \in BOOLEAN, OtherEdits(t, name, active)
      PROVE  ServerTyped' /\ Placed' = Placed
  <2>1. UpdateTechnician(t, "active") \/ UpdateTechnician(t, "fired")
    BY <1>3 DEF OtherEdits
  <2>2. StoreTypeOK' /\ Placed' = Placed
    BY <1>1, <2>1, TechnicianStatements
  <2> QED
    BY <1>1, <1>3, <2>2 DEF OtherEdits, ServerTyped
<1>4. ASSUME NEW n \in Numbers, NEW t \in TechIds, OtherAssigns(n, t)
      PROVE  ServerTyped' /\ Placed' = Placed
  BY <1>1, <1>4, AssignedRow DEF OtherAssigns, ServerTyped
<1>5. ServerTyped' /\ Placed' = Placed
  BY <1>3, <1>4
<1>6. PageTyped' /\ ReqType' /\ AllProper'
  BY <1>1, <1>2, <1>5 DEF Typed, PageTyped, LocalOK, app, ReqType, AllProper, Proper
<1> QED
  BY <1>5, <1>6, TypesJoin DEF Typed

LEMMA ReceiveTyped ==
  ASSUME Typed, NEW s \in Slots, Receive(s)
  PROVE  Typed'
<1>1. ServerTyped /\ PageTyped /\ ReqType /\ req[s] \in Request /\ Proper(req[s])
  BY TypesSplit DEF Typed, Receive, ReqType, AllProper
<1>2. ServerTyped' /\ Placed' = Placed /\ UNCHANGED <<screen, local, missed>>
  BY <1>1 DEF Receive, server, tables, ServerTyped, StoreTypeOK, Placed
<1>3. Done(s) \/ Reload(s)
  BY DEF Receive, Listed, Changed
<1>4. /\ ReqType' /\ \A r \in Slots \ {s} : req'[r] = req[r]
      /\ req'[s] = Idle \/ req'[s] = Blank("list", NoTech)
  BY <1>1, <1>3, DoneEffect
<1>5. AllProper'
  BY <1>2, <1>4 DEF Typed, AllProper, Proper, Blank
<1>6. listed' \subseteq StaffRow /\ held' \in [Placed -> TechIds \cup {NoTech}]
  <2>1. CASE Listed(s)
    BY <1>1, <2>1, Parts DEF Listed, PageTyped
  <2>2. CASE Changed(s)
    BY <1>1, <2>2, Parts DEF Changed, PageTyped, Proper
  <2> QED
    BY <2>1, <2>2 DEF Receive
<1>7. DOMAIN held' = DOMAIN held
  BY <1>1, <1>6 DEF PageTyped
<1>8. PageTyped'
  BY <1>1, <1>2, <1>6, <1>7 DEF PageTyped, LocalOK
<1> QED
  BY <1>2, <1>4, <1>5, <1>8, TypesJoin DEF Typed

LEMMA TypedStep == Typed /\ [Next]_vars => Typed'
<1> SUFFICES ASSUME Typed, [Next]_vars PROVE Typed'
  OBVIOUS
<1>1. CASE UNCHANGED vars
  <2>1. PageTyped'
    BY <1>1, TypesSplit DEF Typed, vars, app, server, tables, PageTyped, LocalOK, Placed
  <2> QED
    BY <1>1, <2>1, QuietTyped DEF vars
<1> QED
  BY <1>1, ClicksTyped, ServeTyped, LoseTyped, ReceiveTyped, OthersTyped DEF Next

LEMMA TypedAlways == Spec => []Typed
BY TypedInit, TypedStep, PTL DEF Spec

\* The types of the tables, the screens' state and every request, whatever is
\* clicked, answered and lost (TypeOK).
THEOREM TypeCorrect == Spec => []TypeOK
<1>1. Typed => TypeOK
  BY DEF Typed
<1> QED
  BY <1>1, TypedAlways, PTL

-----------------------------------------------------------------------------
(* What a step does to the requests and the tables, for what follows. *)

\* A dispatcher who waits has one request on its way at most.
OneAtATime == \A r, s \in Slots : r = s

\* What the screens send.
Clicked(q) ==
  /\ q \in Request /\ q.answer = "none"
  /\ \/ q.op \in {"create", "delete"}
     \/ /\ q.op = "update" /\ local.kind = "form" /\ local.was \in StaffRow
        /\ q.tech = local.was.id
        /\ "name" \notin q.changed => q.name = local.was.name
        /\ "active" \notin q.changed => q.active = local.was.active
     \/ /\ q.op = "assign" /\ local.kind = "detail"
        /\ q.tech = local.chosen /\ q.number = local.number

LEMMA ClickShape ==
  ASSUME Typed, Clicks
  PROVE  /\ UNCHANGED <<server, listed, held, missed>>
         /\ \/ req' = req
            \/ \E s \in Slots, q \in Request :
                 Send(s, q) /\ Clicked(q) /\ local' = (IF q.op = "assign" THEN local ELSE Nothing)
<1>1. PageTyped
  BY TypesSplit DEF Typed
<1>2. CASE \/ \E to \in Screens \ {"detail"} : Navigate(to)
           \/ \E n \in Numbers : OpenDetail(n)
           \/ \E t \in TechIds \cup {NoTech} : Choose(t)
           \/ \E row \in listed \cup {New} : OpenForm(row)
           \/ \E row \in listed : AskDelete(row)
           \/ Dismiss
  BY <1>2 DEF Navigate, OpenDetail, Choose, OpenForm, AskDelete, Dismiss, app
<1>3. CASE ConfirmDelete
  <2>1. local.tech \in TechIds
    BY <1>1, <1>3 DEF ConfirmDelete, PageTyped, LocalOK, Screens, Nothing
  <2>2. /\ Clicked(Blank("delete", local.tech)) /\ Blank("delete", local.tech).op = "delete"
        /\ Blank("delete", local.tech) \in Request
    BY <2>1, BlankTyped DEF Operations, Clicked, Blank
  <2> QED
    BY <1>3, <2>2 DEF ConfirmDelete, app
<1>4. CASE Assign
  <2> DEFINE b == Blank("assign", local.chosen)
             q == [b EXCEPT !.number = local.number]
  <2>1. local.number \in Numbers /\ local.chosen \in TechIds /\ local.kind = "detail"
    BY <1>1, <1>4 DEF Assign, PageTyped, LocalOK, Screens, Nothing, Placed
  <2>2. b \in Request /\ b.op = "assign" /\ b.tech = local.chosen /\ b.answer = "none"
    BY <2>1, BlankTyped DEF Operations, Blank
  <2>3. /\ q \in Request /\ q.op = "assign" /\ q.tech = local.chosen
        /\ q.number = local.number /\ q.answer = "none"
    BY <2>1, <2>2 DEF Request
  <2>4. Clicked(q)
    BY <2>1, <2>3 DEF Clicked
  <2> QED
    BY <1>4, <2>3, <2>4 DEF Assign, app
<1>5. ASSUME NEW name \in Names, NEW active \in BOOLEAN, Save(name, active)
      PROVE  /\ UNCHANGED <<server, listed, held, missed>> /\ local' = Nothing
             /\ \E s \in Slots, q \in Request : Send(s, q) /\ Clicked(q) /\ q.op # "assign"
  <2> DEFINE was == local.was
  <2>1. was \in StaffRow \cup {New} /\ local.kind = "form"
    BY <1>1, <1>5 DEF Save, PageTyped, LocalOK, Screens, Nothing
  <2> DEFINE changed == (IF name # was.name THEN {"name"} ELSE {})
                           \cup (IF active # was.active THEN {"active"} ELSE {})
             q == SaveOf(was, name, active, changed)
  <2>2. PICK s \in Slots : Send(s, q)
    BY <1>5 DEF Save, SaveOf, FormOf
  <2>3. changed \in SUBSET {"name", "active"}
    OBVIOUS
  <2>4. /\ q \in Request /\ q.op = (IF was = New THEN "create" ELSE "update")
        /\ q.tech = was.id /\ q.name = name /\ q.active = active /\ q.changed = changed
        /\ q.answer = "none"
    <3> HIDE DEF changed, q
    <3> QED
      BY <2>1, <2>3, SaveTyped DEF q
  <2>5. "name" \notin changed => name = was.name
    OBVIOUS
  <2>6. "active" \notin changed => active = was.active
    OBVIOUS
  <2>7. Clicked(q)
    <3> HIDE DEF changed, q
    <3> QED
      BY <2>1, <2>4, <2>5, <2>6 DEF Clicked
  <2>8. q.op # "assign"
    <3> HIDE DEF changed, q
    <3> QED
      BY <2>4
  <2>9. \E r \in Slots, p \in Request : Send(r, p) /\ Clicked(p) /\ p.op # "assign"
    <3> HIDE DEF changed, q
    <3> QED
      BY <2>2, <2>4, <2>7, <2>8
  <2>10. UNCHANGED <<server, listed, held, missed>> /\ local' = Nothing
    BY <1>5 DEF Save, app
  <2> QED
    BY <2>9, <2>10
<1>6. CASE \E name \in Names, active \in BOOLEAN : Save(name, active)
  <2>1. /\ UNCHANGED <<server, listed, held, missed>> /\ local' = Nothing
        /\ \E s \in Slots, q \in Request : Send(s, q) /\ Clicked(q) /\ q.op # "assign"
    BY <1>5, <1>6
  <2> QED
    BY <2>1
<1> QED
  BY <1>2, <1>3, <1>4, <1>6 DEF Clicks

\* The server carries out a request, or refuses it and changes nothing.
Refuses(s) ==
  req[s].op # "list" /\ req'[s].answer = "error" /\ UNCHANGED <<server, missed>>
GivesList(s) ==
  /\ req[s].op = "list" /\ req'[s].answer = "ok" /\ req'[s].rows = StaffRows
  /\ missed' = missed \ {"staff"} /\ UNCHANGED server
GivesOut(s) ==
  /\ req[s].op = "assign" /\ req'[s].answer = "ok"
  /\ Placed' = Placed /\ req[s].number \in Placed
  /\ orders'[req[s].number].executor = req[s].tech
  /\ \A k \in Numbers \ {req[s].number} : orders'[k] = orders[k]
  /\ UNCHANGED <<names, technicians, missed>>
ChangesStaff(s) ==
  /\ req[s].op \in {"create", "update", "delete"} /\ req'[s].answer = "ok"
  /\ req[s].op = "update" =>
       /\ req[s].tech \in Existing
       /\ names' = [names EXCEPT ![req[s].tech] = req[s].name]
       /\ technicians' = [technicians EXCEPT ![req[s].tech] =
                             IF req[s].active THEN "active" ELSE "fired"]
  /\ UNCHANGED <<orders, missed>>

LEMMA ServeShape ==
  ASSUME Typed, NEW s \in Slots, Serve(s)
  PROVE  /\ req[s] \in Request /\ req[s] # Idle /\ req[s].answer = "none"
         /\ req'[s] \in Request /\ Same(req[s], req'[s])
         /\ \A r \in Slots \ {s} : req'[r] = req[r]
         /\ UNCHANGED <<app, local>>
         /\ Refuses(s) \/ GivesList(s) \/ GivesOut(s) \/ ChangesStaff(s)
<1>1. ServerTyped /\ ReqType /\ req[s] # Idle /\ Proper(req[s])
  BY TypesSplit DEF Typed, Serve, AllProper
<1>2. /\ req[s] \in Request /\ req[s].answer = "none"
      /\ \E a \in {"ok", "error"}, rows \in SUBSET StaffRow : AnswerWith(s, a, rows)
  BY ServerEffect
<1>3. /\ req'[s] \in Request /\ Same(req[s], req'[s])
      /\ \A r \in Slots \ {s} : req'[r] = req[r]
  BY <1>1, <1>2, AnswerEffect
<1>4. ASSUME AnswerWith(s, "error", {}) PROVE req'[s].answer = "error"
  BY <1>1, <1>4, AnswerEffect
<1>5. ASSUME AnswerWith(s, "ok", {}) PROVE req'[s].answer = "ok"
  BY <1>1, <1>5, AnswerEffect
<1>6. ASSUME Lists(s) PROVE GivesList(s)
  <2>1. req'[s].answer = "ok" /\ req'[s].rows = StaffRows
    BY <1>1, <1>6, AnswerEffect, StaffRowsTyped DEF Lists
  <2> QED
    BY <1>6, <2>1 DEF Lists, GivesList
<1>7. ASSUME Creates(s) PROVE Refuses(s) \/ ChangesStaff(s)
  BY <1>4, <1>5, <1>7 DEF Creates, InsertTechnician, Refuses, ChangesStaff
<1>8. ASSUME Updates(s) PROVE Refuses(s) \/ ChangesStaff(s)
  <2>1. (IF req[s].active THEN "active" ELSE "fired") # Keep
    BY DEF Keep
  <2> QED
    BY <1>4, <1>5, <1>8, <2>1 DEF Updates, UpdateTechnician, Refuses, ChangesStaff
<1>9. ASSUME Deletes(s) PROVE Refuses(s) \/ ChangesStaff(s)
  BY <1>4, <1>5, <1>9 DEF Deletes, DeleteTechnician, Refuses, ChangesStaff
<1>10. ASSUME Assigns(s) PROVE Refuses(s) \/ GivesOut(s)
  <2> DEFINE t == req[s].tech
             n == req[s].number
  <2>1. CASE UpdateOrder(n, Edited(orders[n], Assigned(t))) /\ AnswerWith(s, "ok", {})
    <3>1. t \in TechIds /\ n \in Placed
      BY <1>1, <1>10 DEF Proper, Assigns
    <3>2. /\ Placed' = Placed /\ orders'[n].executor = t
          /\ \A k \in Numbers \ {n} : orders'[k] = orders[k]
      BY <1>1, <2>1, <3>1, AssignedRow DEF ServerTyped
    <3> QED
      BY <1>5, <1>10, <2>1, <3>1, <3>2 DEF Assigns, GivesOut, UpdateOrder
  <2>2. CASE AnswerWith(s, "error", {}) /\ UNCHANGED tables
    BY <1>4, <1>10, <2>2 DEF Assigns, Refuses, server
  <2> QED
    BY <1>10, <2>1, <2>2 DEF Assigns
<1> QED
  BY <1>1, <1>2, <1>3, <1>6, <1>7, <1>8, <1>9, <1>10 DEF Serve

-----------------------------------------------------------------------------
(* The list shown, and the edits made from it. *)

\* A list that arrives is that of the server; what changes nothing, or nothing
\* of the staff, is on its way over a current list.
ListsCurrent ==
  "staff" \notin missed =>
    \A s \in Slots : req[s] # Idle =>
      /\ req[s].op = "list" => /\ req[s].answer # "error"
                               /\ req[s].answer = "ok" => req[s].rows = StaffRows
      /\ req[s].op # "list" /\ (req[s].op = "assign" \/ req[s].answer # "ok") => listed = StaffRows

\* While a form is open nothing is on its way, so that its row stays current.
FormsCurrent ==
  local.kind = "form" =>
    /\ Quiet
    /\ "staff" \notin missed /\ local.was # New => local.was \in StaffRows

\* What an edit leaves alone it sends as it is.
EditsCurrent ==
  "staff" \notin missed =>
    \A s \in Slots : req[s].op = "update" /\ req[s].answer = "none" =>
      /\ "name" \notin req[s].changed => req[s].name = names[req[s].tech]
      /\ "active" \notin req[s].changed => req[s].active = Employed(req[s].tech)

Current == StaffIsCurrent /\ ListsCurrent /\ FormsCurrent /\ EditsCurrent

\* The rows shown depend on the names and the states of the technicians only.
LEMMA SameRows ==
  ASSUME UNCHANGED <<names, technicians>>
  PROVE  StaffRows' = StaffRows /\ \A t : Employed(t)' = Employed(t)
BY DEF StaffRows, Existing, Employed

LEMMA RowsSayWhatIs ==
  ASSUME NEW row \in StaffRows
  PROVE  row.id \in Existing /\ row.name = names[row.id] /\ row.active = Employed(row.id)
<1>1. PICK t \in Existing : row = [id |-> t, name |-> names[t], active |-> Employed(t)]
  BY DEF StaffRows
<1> QED
  BY <1>1

LEMMA CurrentInit == Init => Current
<1> SUFFICES ASSUME Init PROVE Current
  OBVIOUS
<1>1. Blank("list", NoTech) \in Request /\ Blank("list", NoTech).op = "list"
      /\ Blank("list", NoTech).answer = "none"
  BY BlankTyped DEF Operations, Blank
<1>2. PICK s \in Slots : req = [r \in Slots |-> IF r = s THEN Blank("list", NoTech) ELSE Idle]
  BY DEF Init
<1>3. req[s] # Idle
  BY <1>1, <1>2, IdleIsNoRequest
<1>4. \A r \in Slots : req[r] = Idle \/ req[r] = Blank("list", NoTech)
  BY <1>2
<1>5. StaffIsCurrent
  BY <1>3 DEF StaffIsCurrent, Quiet, Free
<1>6. ListsCurrent
  BY <1>1, <1>4 DEF ListsCurrent
<1>7. FormsCurrent
  BY DEF Init, FormsCurrent, Nothing
<1>8. EditsCurrent
  BY <1>1, <1>4, IdleIsNoRequest DEF EditsCurrent
<1> QED
  BY <1>5, <1>6, <1>7, <1>8 DEF Current

LEMMA CurrentClicks ==
  ASSUME OneAtATime, Typed, Current, Clicks
  PROVE  Current'
<1> USE DEF Current
<1>1. UNCHANGED <<server, listed, missed>> /\ UNCHANGED <<names, technicians>>
  BY ClickShape DEF server, tables
<1>2. StaffRows' = StaffRows /\ \A t : Employed(t)' = Employed(t)
  BY <1>1, SameRows
<1>3. ReqType
  BY TypesSplit DEF Typed
<1>4. CASE req' = req
  <2>1. StaffIsCurrent' /\ ListsCurrent' /\ EditsCurrent'
    BY <1>1, <1>2, <1>4 DEF StaffIsCurrent, Quiet, Free, ListsCurrent, EditsCurrent
  <2>2. FormsCurrent'
    <3>1. CASE \E row \in listed \cup {New} : OpenForm(row)
      <4>1. PICK row \in listed \cup {New} : OpenForm(row)
        BY <3>1
      <4>2. local'.was = row /\ Quiet
        BY <4>1 DEF OpenForm
      <4> QED
        BY <1>1, <1>2, <1>4, <4>2 DEF FormsCurrent, StaffIsCurrent, Quiet, Free
    <3>2. CASE local'.kind # "form" \/ local' = local
      BY <1>1, <1>2, <1>4, <3>2 DEF FormsCurrent, Quiet, Free
    <3>3. CASE ~ \E row \in listed \cup {New} : OpenForm(row)
      <4>1. local'.kind # "form" \/ local' = local
        <5>1. CASE \E t \in TechIds \cup {NoTech} : Choose(t)
          <6>1. PICK t \in TechIds \cup {NoTech} : Choose(t)
            BY <5>1
          <6>2. local'.kind = local.kind /\ local.kind = "detail"
            BY <6>1 DEF Choose
          <6> QED
            BY <6>2
        <5>2. CASE \E n \in Numbers : OpenDetail(n)
          BY <5>2 DEF OpenDetail
        <5>3. CASE \E row \in listed : AskDelete(row)
          BY <5>3 DEF AskDelete
        <5>4. CASE (\E to \in Screens \ {"detail"} : Navigate(to)) \/ ConfirmDelete \/ Dismiss
          BY <5>4 DEF Navigate, ConfirmDelete, Dismiss, Nothing
        <5>5. CASE Assign
          BY <5>5 DEF Assign
        <5>6. CASE \E name \in Names, active \in BOOLEAN : Save(name, active)
          <6>1. local' = Nothing
            BY <5>6 DEF Save
          <6> QED
            BY <6>1 DEF Nothing
        <5> QED
          BY <3>3, <5>1, <5>2, <5>3, <5>4, <5>5, <5>6 DEF Clicks
      <4> QED
        BY <3>2, <4>1
    <3> QED
      BY <3>1, <3>3
  <2> QED
    BY <2>1, <2>2
<1>5. CASE \E s \in Slots, q \in Request :
             Send(s, q) /\ Clicked(q) /\ local' = (IF q.op = "assign" THEN local ELSE Nothing)
  <2>1. PICK s \in Slots, q \in Request :
          Send(s, q) /\ Clicked(q) /\ local' = (IF q.op = "assign" THEN local ELSE Nothing)
    BY <1>5
  <2>2. q \in Request /\ q.op # "list" /\ q.answer = "none"
    BY <2>1 DEF Clicked
  <2>3. req[s] = Idle /\ req'[s] = q /\ q # Idle
    BY <1>3, <2>1, <2>2, SendEffect, IdleIsNoRequest
  <2>4. \A r \in Slots : r = s
    BY DEF OneAtATime
  <2>5. "staff" \notin missed => listed = StaffRows
    BY <2>3, <2>4 DEF StaffIsCurrent, Quiet, Free
  <2>6. ListsCurrent' /\ StaffIsCurrent'
    BY <1>1, <1>2, <2>2, <2>3, <2>4, <2>5 DEF ListsCurrent, StaffIsCurrent, Quiet, Free
  <2>7. FormsCurrent'
    <3>1. local'.kind # "form"
      BY <2>1 DEF Clicked, Nothing
    <3> QED
      BY <3>1 DEF FormsCurrent
  <2>8. EditsCurrent'
    <3>1. ASSUME q.op = "update", "staff" \notin missed
          PROVE  /\ "name" \notin q.changed => q.name = names[q.tech]
                 /\ "active" \notin q.changed => q.active = Employed(q.tech)
      <4>1. local.kind = "form" /\ local.was \in StaffRow /\ q.tech = local.was.id
        BY <2>1, <3>1 DEF Clicked
      <4>2. local.was # New
        BY <4>1 DEF StaffRow, New, TechIds, NoTech
      <4>3. local.was \in StaffRows
        BY <3>1, <4>1, <4>2 DEF FormsCurrent
      <4>4. local.was.name = names[q.tech] /\ local.was.active = Employed(q.tech)
        BY <4>1, <4>3, RowsSayWhatIs
      <4> QED
        BY <2>1, <3>1, <4>4 DEF Clicked
    <3> QED
      BY <1>1, <1>2, <2>3, <2>4, <3>1 DEF EditsCurrent
  <2> QED
    BY <2>6, <2>7, <2>8
<1> QED
  BY <1>4, <1>5, ClickShape

LEMMA CurrentServe ==
  ASSUME OneAtATime, Typed, Current, NEW s \in Slots, Serve(s)
  PROVE  Current'
<1> USE DEF Current
<1>1. /\ req[s] \in Request /\ req[s] # Idle /\ req[s].answer = "none"
      /\ req'[s] \in Request /\ Same(req[s], req'[s])
      /\ UNCHANGED <<app, local>>
      /\ Refuses(s) \/ GivesList(s) \/ GivesOut(s) \/ ChangesStaff(s)
  BY ServeShape
<1>2. \A r \in Slots : r = s
  BY DEF OneAtATime
<1>3. req'[s] # Idle /\ req'[s].op = req[s].op /\ listed' = listed
  BY <1>1, IdleIsNoRequest DEF Same, app
<1>4. StaffIsCurrent' /\ FormsCurrent'
  BY <1>1, <1>2, <1>3 DEF StaffIsCurrent, FormsCurrent, Quiet, Free
<1>5. req'[s].answer # "none"
  BY <1>1 DEF Refuses, GivesList, GivesOut, ChangesStaff
<1>6. EditsCurrent'
  BY <1>2, <1>5 DEF EditsCurrent
<1>7. ListsCurrent'
  <2>1. CASE Refuses(s)
    BY <1>1, <1>2, <1>3, <2>1, SameRows DEF Refuses, server, tables, ListsCurrent
  <2>2. CASE GivesList(s)
    BY <1>1, <1>2, <1>3, <2>2, SameRows DEF GivesList, server, tables, ListsCurrent
  <2>3. CASE GivesOut(s)
    BY <1>1, <1>2, <1>3, <2>3, SameRows DEF GivesOut, ListsCurrent
  <2>4. CASE ChangesStaff(s)
    BY <1>1, <1>2, <1>3, <2>4 DEF ChangesStaff, ListsCurrent
  <2> QED
    BY <1>1, <2>1, <2>2, <2>3, <2>4
<1> QED
  BY <1>4, <1>6, <1>7

LEMMA CurrentLose ==
  ASSUME OneAtATime, Typed, Current, NEW s \in Slots, Lose(s)
  PROVE  Current'
<1> USE DEF Current
<1>1. ReqType /\ UNCHANGED <<names, technicians, listed, local>>
  BY TypesSplit DEF Typed, Lose, server, tables, app
<1>2. /\ req[s] \in Request /\ req'[s] \in Request /\ Same(req[s], req'[s])
      /\ req'[s].answer = "error" /\ missed' = missed \cup Unknown(req[s]) /\ req[s] # Idle
  BY <1>1, AnswerEffect DEF Lose, ReqType
<1>3. \A r \in Slots : r = s
  BY DEF OneAtATime
<1>4. req'[s] # Idle /\ req'[s].op = req[s].op
  BY <1>2, IdleIsNoRequest DEF Same
<1>5. StaffRows' = StaffRows
  BY <1>1, SameRows
<1>6. StaffIsCurrent' /\ FormsCurrent'
  BY <1>1, <1>2, <1>3, <1>4 DEF StaffIsCurrent, FormsCurrent, Quiet, Free
<1>7. EditsCurrent'
  BY <1>2, <1>3 DEF EditsCurrent
<1>8. "staff" \notin missed' =>
        "staff" \notin missed /\ req[s].op # "list" /\ (req[s].op = "assign" \/ req[s].answer # "ok")
  BY <1>2 DEF Unknown
<1>9. ListsCurrent'
  BY <1>1, <1>2, <1>3, <1>4, <1>5, <1>8 DEF ListsCurrent
<1> QED
  BY <1>6, <1>7, <1>9

LEMMA CurrentReceive ==
  ASSUME OneAtATime, Typed, Current, NEW s \in Slots, Receive(s)
  PROVE  Current'
<1> USE DEF Current
<1>1. ReqType /\ UNCHANGED <<names, technicians, local, missed>> /\ req[s] # Idle /\ req[s].answer # "none"
  BY TypesSplit DEF Typed, Receive, server, tables
<1>2. req[s] \in Request /\ req[s].answer \in {"ok", "error"}
  BY <1>1, Parts DEF ReqType
<1>3. \A r \in Slots : r = s
  BY DEF OneAtATime
<1>4. StaffRows' = StaffRows
  BY <1>1, SameRows
<1>5. local.kind # "form"
  BY <1>1 DEF FormsCurrent, Quiet, Free
<1>6. FormsCurrent'
  BY <1>1, <1>5 DEF FormsCurrent
<1>7. CASE req'[s] = Idle
  <2>1. "staff" \notin missed => listed' = StaffRows
    <3>1. CASE Listed(s)
      BY <1>1, <1>2, <3>1 DEF Listed, ListsCurrent
    <3>2. CASE Changed(s)
      <4>1. req[s].answer # "ok"
        <5>1. CASE req[s].answer = "ok"
          <6>1. req'[s] = Blank("list", NoTech)
            BY <1>1, <3>2, <5>1, DoneEffect DEF Changed
          <6> QED
            BY <1>7, <6>1, BlankTyped, IdleIsNoRequest DEF Operations
        <5> QED
          BY <5>1
      <4> QED
        BY <1>1, <3>2, <4>1 DEF Changed, ListsCurrent
    <3> QED
      BY <3>1, <3>2 DEF Receive
  <2>2. StaffIsCurrent' /\ ListsCurrent' /\ EditsCurrent'
    BY <1>1, <1>3, <1>4, <1>7, <2>1, IdleIsNoRequest DEF StaffIsCurrent, ListsCurrent, EditsCurrent
  <2> QED
    BY <1>6, <2>2
<1>8. CASE req'[s] = Blank("list", NoTech)
  <2>1. /\ req'[s] # Idle /\ req'[s].op = "list" /\ req'[s].answer = "none"
    BY <1>8, BlankTyped, IdleIsNoRequest DEF Operations, Blank
  <2>2. StaffIsCurrent' /\ ListsCurrent' /\ EditsCurrent'
    BY <1>3, <2>1 DEF StaffIsCurrent, Quiet, Free, ListsCurrent, EditsCurrent
  <2> QED
    BY <1>6, <2>2
<1>9. Done(s) \/ Reload(s)
  BY DEF Receive, Listed, Changed
<1> QED
  BY <1>1, <1>7, <1>8, <1>9, DoneEffect

LEMMA CurrentOthers ==
  ASSUME Typed, Current,
         \/ \E t \in TechIds, name \in Names, active \in BOOLEAN : OtherEdits(t, name, active)
         \/ \E n \in Numbers, t \in TechIds : OtherAssigns(n, t)
  PROVE  Current'
<1> USE DEF Current
<1>1. UNCHANGED <<app, local, req>>
  BY DEF OtherEdits, OtherAssigns
<1>2. CASE \E t \in TechIds, name \in Names, active \in BOOLEAN : OtherEdits(t, name, active)
  <2>1. "staff" \in missed'
    BY <1>2 DEF OtherEdits
  <2> QED
    BY <1>1, <2>1 DEF StaffIsCurrent, ListsCurrent, FormsCurrent, EditsCurrent, Quiet, Free
<1>3. CASE \E n \in Numbers, t \in TechIds : OtherAssigns(n, t)
  <2>1. UNCHANGED <<names, technicians>> /\ missed' = missed \cup {"orders"}
    BY <1>3 DEF OtherAssigns, UpdateOrder
  <2>2. StaffRows' = StaffRows /\ \A t : Employed(t)' = Employed(t)
    BY <2>1, SameRows
  <2> QED
    BY <1>1, <2>1, <2>2 DEF app, StaffIsCurrent, ListsCurrent, FormsCurrent, EditsCurrent, Quiet, Free
<1> QED
  BY <1>2, <1>3

LEMMA CurrentStep == ASSUME OneAtATime PROVE Typed /\ Current /\ [Next]_vars => Current'
<1> SUFFICES ASSUME Typed, Current, [Next]_vars PROVE Current'
  OBVIOUS
<1>1. CASE UNCHANGED vars
  <2>1. StaffRows' = StaffRows /\ \A t : Employed(t)' = Employed(t)
    BY <1>1, SameRows DEF vars, server, tables
  <2> QED
    BY <1>1, <2>1 DEF Current, vars, app, server, StaffIsCurrent, ListsCurrent, FormsCurrent,
       EditsCurrent, Quiet, Free
<1> QED
  BY <1>1, CurrentClicks, CurrentServe, CurrentLose, CurrentReceive, CurrentOthers DEF Next

LEMMA CurrentAlways == ASSUME OneAtATime PROVE Spec => []Current
BY CurrentInit, CurrentStep, TypedAlways, PTL DEF Spec

\* A dispatcher who waits for the answers is shown the staff as it is, unless
\* somebody else changed it or an answer was lost (StaffIsCurrent).
THEOREM ListOfStaffIsCurrent == ASSUME OneAtATime PROVE Spec => []StaffIsCurrent
<1>1. Current => StaffIsCurrent
  BY DEF Current
<1> QED
  BY <1>1, CurrentAlways, PTL

\* Only the server's answer makes an answered request of a waiting one.
LEMMA OnlyServeServes ==
  ASSUME OneAtATime, Typed, [Next]_vars, NEW s \in Slots, Served(s)
  PROVE  Serve(s)
<1>1. ReqType /\ req[s] # Idle /\ req[s].answer = "none" /\ req'[s].answer = "ok"
  BY TypesSplit DEF Typed, Served
<1>2. \A r \in Slots : r = s
  BY DEF OneAtATime
<1>3. CASE Clicks
  BY <1>1, <1>2, <1>3, ClickShape DEF Send, Free
<1>4. CASE Lose(s)
  <2>1. req'[s].answer = "error"
    BY <1>1, <1>4, AnswerEffect DEF Lose
  <2> QED
    BY <1>1, <2>1
<1>5. CASE Receive(s)
  BY <1>1, <1>5 DEF Receive
<1>6. CASE \/ \E t \in TechIds, name \in Names, active \in BOOLEAN : OtherEdits(t, name, active)
           \/ \E n \in Numbers, t \in TechIds : OtherAssigns(n, t)
           \/ UNCHANGED vars
  BY <1>1, <1>6 DEF OtherEdits, OtherAssigns, vars
<1> QED
  BY <1>2, <1>3, <1>4, <1>5, <1>6 DEF Next

\* An edit he makes changes what he changed in the form and nothing else
\* (EditKeepsRest).
THEOREM EditsKeepTheRest == ASSUME OneAtATime PROVE Spec => EditKeepsRest
<1>1. ASSUME Typed, Current, [Next]_vars, NEW s \in Slots, Served(s), req[s].op = "update",
             "staff" \notin missed
      PROVE  LET t == req[s].tech
             IN  /\ "name" \notin req[s].changed => names'[t] = names[t]
                 /\ "active" \notin req[s].changed => technicians'[t] = technicians[t]
  <2>1. Serve(s)
    BY <1>1, OnlyServeServes
  <2>2. ChangesStaff(s) /\ req[s].answer = "none"
    BY <1>1, <2>1, ServeShape DEF Served, Refuses, GivesList, GivesOut
  <2>3. req[s].tech \in Existing
    BY <1>1, <2>2 DEF ChangesStaff
  <2>4. ServerTyped
    BY <1>1, TypesSplit DEF Typed
  <2>5. ASSUME "name" \notin req[s].changed
        PROVE  names'[req[s].tech] = names[req[s].tech]
    BY <1>1, <2>2, <2>3, <2>4, <2>5 DEF Current, EditsCurrent, ChangesStaff, ServerTyped, Existing
  <2>6. ASSUME "active" \notin req[s].changed
        PROVE  technicians'[req[s].tech] = technicians[req[s].tech]
    <3>1. req[s].active <=> technicians[req[s].tech] = "active"
      BY <1>1, <2>2, <2>6 DEF Current, EditsCurrent, Employed
    <3>2. technicians[req[s].tech] \in {"active", "fired"}
      BY <2>3, <2>4 DEF ServerTyped, StoreTypeOK, TechStates, Existing
    <3>3. technicians'[req[s].tech] = IF req[s].active THEN "active" ELSE "fired"
      BY <1>1, <2>2, <2>3, <2>4 DEF ChangesStaff, ServerTyped, StoreTypeOK, Existing
    <3> QED
      BY <3>1, <3>2, <3>3
  <2> QED
    BY <2>5, <2>6
<1>2. Typed /\ Current /\ [Next]_vars =>
        [\A s \in Slots :
           Served(s) /\ req[s].op = "update" /\ "staff" \notin missed =>
             LET t == req[s].tech
             IN  /\ "name" \notin req[s].changed => names'[t] = names[t]
                 /\ "active" \notin req[s].changed => technicians'[t] = technicians[t]]_vars
  BY <1>1
<1> QED
  BY <1>2, TypedAlways, CurrentAlways, PTL DEF Spec, EditKeepsRest
-----------------------------------------------------------------------------
(* Orders given to those who were dismissed *)

\* Nobody, somebody employed, or the one who has the order.
Fits(t, n) == t = NoTech \/ Employed(t) \/ orders[n].executor = t

\* The executors the page knows are those of the orders, but for one just given.
HeldsCurrent ==
  "orders" \notin missed =>
    \A n \in Placed : \/ held[n] = orders[n].executor
                      \/ \E s \in Slots : /\ req[s].op = "assign" /\ req[s].answer = "ok"
                                          /\ req[s].number = n /\ req[s].tech = orders[n].executor

\* While an order is open nothing happens to the staff but what others do; the
\* list that is loaded after an assignment finds the one chosen with the order.
DetailsCurrent ==
  local.kind = "detail" =>
    /\ missed = {} => Fits(local.chosen, local.number)
    /\ \A s \in Slots :
         /\ req[s].op \in {"none", "list", "assign"}
         /\ req[s].op = "assign" => req[s].tech = local.chosen /\ req[s].number = local.number
         /\ req[s].op = "list" /\ "orders" \notin missed =>
              orders[local.number].executor = local.chosen

GivesCurrent ==
  \A s \in Slots : req[s].op = "assign" =>
    /\ req[s].answer = "none" /\ missed = {} => Fits(req[s].tech, req[s].number)
    /\ req[s].answer = "ok" /\ "orders" \notin missed =>
         orders[req[s].number].executor = req[s].tech

Given == HeldsCurrent /\ DetailsCurrent /\ GivesCurrent

\* What fits depends on the orders and the states of the technicians only.
LEMMA SameFits ==
  ASSUME UNCHANGED <<orders, technicians>>
  PROVE  Placed' = Placed /\ \A t, n : Fits(t, n)' <=> Fits(t, n)
BY DEF Fits, Employed, Placed

LEMMA GivenInit == Init => Given
<1> SUFFICES ASSUME Init PROVE Given
  OBVIOUS
<1>1. Blank("list", NoTech).op = "list"
  BY DEF Blank
<1>2. \A s \in Slots : req[s] = Idle \/ req[s] = Blank("list", NoTech)
  BY DEF Init
<1>3. \A s \in Slots : req[s].op # "assign"
  BY <1>1, <1>2, IdleIsNoRequest
<1>4. HeldsCurrent
  BY DEF Init, HeldsCurrent
<1>5. DetailsCurrent /\ GivesCurrent
  BY <1>3 DEF Init, DetailsCurrent, GivesCurrent, Nothing
<1> QED
  BY <1>4, <1>5 DEF Given

LEMMA GivenClicks ==
  ASSUME OneAtATime, Typed, Current, Given, Clicks
  PROVE  Given'
<1>1. UNCHANGED <<orders, technicians, listed, held, missed>>
  BY ClickShape DEF server, tables
<1>2. Placed' = Placed /\ \A t, n : Fits(t, n)' <=> Fits(t, n)
  BY <1>1, SameFits
<1>3. ReqType /\ PageTyped
  BY TypesSplit DEF Typed
<1>4. CASE req' = req
  <2>1. HeldsCurrent' /\ GivesCurrent'
    BY <1>1, <1>2, <1>4 DEF Given, HeldsCurrent, GivesCurrent
  <2>2. CASE local' = local
    BY <1>1, <1>2, <1>4, <2>1, <2>2 DEF Given, DetailsCurrent
  <2>3. CASE local'.kind # "detail"
    BY <2>1, <2>3 DEF Given, DetailsCurrent
  <2>4. ASSUME Quiet, NEW t, NEW n, local'.kind = "detail", local'.chosen = t, local'.number = n,
               missed = {} => Fits(t, n)
        PROVE  Given'
    <3>1. \A s \in Slots : req'[s].op = "none"
      BY <1>4, <2>4, IdleIsNoRequest DEF Quiet, Free
    <3>2. missed' = {} => Fits(t, n)'
      BY <1>1, <1>2, <2>4
    <3> QED
      BY <2>1, <2>4, <3>1, <3>2 DEF Given, DetailsCurrent, Fits
  <2>5. CASE \E n \in Numbers : OpenDetail(n)
    <3>1. PICK n \in Numbers : OpenDetail(n)
      BY <2>5
    <3>2. Quiet /\ n \in Placed
      BY <1>3, <3>1 DEF OpenDetail, PageTyped
    <3>3. missed = {} => held[n] = orders[n].executor
      BY <3>2, IdleIsNoRequest DEF Given, HeldsCurrent, Quiet, Free
    <3>4. missed = {} => Fits(held[n], n)
      BY <3>3 DEF Fits
    <3>5. local'.kind = "detail" /\ local'.chosen = held[n] /\ local'.number = n
      BY <3>1 DEF OpenDetail
    <3> QED
      BY <2>4, <3>2, <3>4, <3>5
  <2>6. CASE \E t \in TechIds \cup {NoTech} : Choose(t)
    <3>1. PICK t \in TechIds \cup {NoTech} : Choose(t)
      BY <2>6
    <3>2. /\ local \in [kind : {"detail"}, number : DOMAIN held, chosen : TechIds \cup {NoTech}]
          /\ local' = [local EXCEPT !.chosen = t]
      BY <1>3, <3>1 DEF Choose, PageTyped, LocalOK, Screens, Nothing
    <3>3. local'.kind = "detail" /\ local'.chosen = t /\ local'.number = local.number
      BY <3>2
    <3>4. missed = {} => listed = StaffRows
      BY <3>1 DEF Choose, Current, StaffIsCurrent
    <3>5. missed = {} => t = NoTech \/ Employed(t)
      BY <3>1, <3>4, RowsSayWhatIs DEF Choose, ActiveTechs
    <3> QED
      BY <2>4, <3>1, <3>3, <3>5 DEF Fits, Choose
  <2>7. CASE (\E row \in listed \cup {New} : OpenForm(row)) \/ \E row \in listed : AskDelete(row)
    BY <2>3, <2>7 DEF OpenForm, AskDelete
  <2>8. CASE (\E to \in Screens \ {"detail"} : Navigate(to)) \/ ConfirmDelete \/ Dismiss
    BY <2>3, <2>8 DEF Navigate, ConfirmDelete, Dismiss, Nothing
  <2>9. CASE Assign
    BY <2>2, <2>9 DEF Assign
  <2>10. CASE \E name \in Names, active \in BOOLEAN : Save(name, active)
    <3>1. local' = Nothing
      BY <2>10 DEF Save
    <3> QED
      BY <2>3, <3>1 DEF Nothing
  <2> QED
    BY <2>5, <2>6, <2>7, <2>8, <2>9, <2>10 DEF Clicks
<1>5. CASE \E s \in Slots, q \in Request :
             Send(s, q) /\ Clicked(q) /\ local' = (IF q.op = "assign" THEN local ELSE Nothing)
  <2>1. PICK s \in Slots, q \in Request :
          Send(s, q) /\ Clicked(q) /\ local' = (IF q.op = "assign" THEN local ELSE Nothing)
    BY <1>5
  <2>2. req[s] = Idle /\ req'[s] = q /\ q.answer = "none"
    BY <1>3, <2>1, SendEffect DEF Clicked
  <2>3. \A r \in Slots : r = s
    BY DEF OneAtATime
  <2>4. HeldsCurrent'
    BY <1>1, <1>2, <2>2, <2>3, IdleIsNoRequest DEF Given, HeldsCurrent
  <2>5. CASE q.op = "assign"
    <3>1. /\ local' = local /\ local.kind = "detail"
          /\ q.tech = local.chosen /\ q.number = local.number
      BY <2>1, <2>5 DEF Clicked
    <3>2. missed = {} => Fits(q.tech, q.number)
      BY <3>1 DEF Given, DetailsCurrent
    <3>3. missed' = {} => Fits(q.tech, q.number)'
      BY <1>1, <1>2, <3>2 DEF Fits
    <3>4. DetailsCurrent'
      BY <1>1, <1>2, <2>2, <2>3, <2>5, <3>1 DEF Given, DetailsCurrent
    <3>5. GivesCurrent'
      BY <2>2, <2>3, <2>5, <3>3 DEF GivesCurrent, Fits
    <3> QED
      BY <2>4, <3>4, <3>5 DEF Given
  <2>6. CASE q.op # "assign"
    BY <2>1, <2>2, <2>3, <2>4, <2>6 DEF Given, DetailsCurrent, GivesCurrent, Nothing
  <2> QED
    BY <2>5, <2>6
<1> QED
  BY <1>4, <1>5, ClickShape

LEMMA GivenServe ==
  ASSUME OneAtATime, Typed, Given, NEW s \in Slots, Serve(s)
  PROVE  Given'
<1> USE DEF Given
<1>1. /\ req[s] # Idle /\ req[s].answer = "none" /\ Same(req[s], req'[s])
      /\ UNCHANGED <<app, local>>
      /\ Refuses(s) \/ GivesList(s) \/ GivesOut(s) \/ ChangesStaff(s)
  BY ServeShape
<1>2. \A r \in Slots : r = s
  BY DEF OneAtATime
<1>3. /\ req'[s].op = req[s].op /\ req'[s].tech = req[s].tech /\ req'[s].number = req[s].number
      /\ held' = held /\ local' = local
  BY <1>1 DEF Same, app
<1>4. "orders" \notin missed => \A n \in Placed : held[n] = orders[n].executor
  BY <1>1, <1>2 DEF HeldsCurrent
<1>5. CASE Refuses(s)
  <2>1. UNCHANGED <<orders, technicians, missed>> /\ req'[s].answer = "error"
    BY <1>5 DEF Refuses, server, tables
  <2>2. Placed' = Placed /\ \A t, n : Fits(t, n)' <=> Fits(t, n)
    BY <2>1, SameFits
  <2>3. HeldsCurrent' /\ GivesCurrent'
    BY <1>2, <1>3, <1>4, <2>1, <2>2 DEF HeldsCurrent, GivesCurrent
  <2>4. DetailsCurrent'
    BY <1>2, <1>3, <2>1, <2>2 DEF DetailsCurrent
  <2> QED
    BY <2>3, <2>4
<1>6. CASE GivesList(s)
  <2>1. UNCHANGED <<orders, technicians>> /\ missed' = missed \ {"staff"} /\ req[s].op = "list"
    BY <1>6 DEF GivesList, server, tables
  <2>2. Placed' = Placed
    BY <2>1, SameFits
  <2>3. HeldsCurrent' /\ GivesCurrent'
    BY <1>2, <1>3, <1>4, <2>1, <2>2 DEF HeldsCurrent, GivesCurrent
  <2>4. ASSUME local.kind = "detail", "orders" \notin missed'
        PROVE  orders'[local.number].executor = local.chosen
    BY <2>1, <2>4 DEF DetailsCurrent
  <2>5. DetailsCurrent'
    BY <1>2, <1>3, <2>1, <2>4 DEF DetailsCurrent, Fits
  <2> QED
    BY <2>3, <2>5
<1>7. CASE GivesOut(s)
  <2>1. /\ req[s].op = "assign" /\ req'[s].answer = "ok" /\ missed' = missed
        /\ Placed' = Placed /\ Placed \subseteq Numbers
        /\ orders'[req[s].number].executor = req[s].tech
        /\ \A k \in Numbers \ {req[s].number} : orders'[k] = orders[k]
    BY <1>7 DEF GivesOut, Placed
  <2>2. HeldsCurrent' /\ GivesCurrent'
    BY <1>2, <1>3, <1>4, <2>1 DEF HeldsCurrent, GivesCurrent
  <2>3. DetailsCurrent'
    BY <1>2, <1>3, <2>1 DEF DetailsCurrent, Fits
  <2> QED
    BY <2>2, <2>3
<1>8. CASE ChangesStaff(s)
  <2>1. UNCHANGED <<orders, missed>> /\ req[s].op \in {"create", "update", "delete"}
    BY <1>8 DEF ChangesStaff
  <2>2. HeldsCurrent' /\ GivesCurrent'
    BY <1>2, <1>3, <1>4, <2>1 DEF HeldsCurrent, GivesCurrent, Placed
  <2>3. local.kind # "detail"
    BY <2>1 DEF DetailsCurrent
  <2> QED
    BY <1>3, <2>2, <2>3 DEF DetailsCurrent
<1> QED
  BY <1>1, <1>5, <1>6, <1>7, <1>8

LEMMA GivenLose ==
  ASSUME OneAtATime, Typed, Given, NEW s \in Slots, Lose(s)
  PROVE  Given'
<1> USE DEF Given
<1>1. ReqType /\ UNCHANGED <<orders, technicians, held, local>>
  BY TypesSplit DEF Typed, Lose, server, tables, app
<1>2. /\ Same(req[s], req'[s]) /\ req'[s].answer = "error"
      /\ missed' = missed \cup Unknown(req[s])
  BY <1>1, AnswerEffect DEF Lose
<1>3. \A r \in Slots : r = s
  BY DEF OneAtATime
<1>4. Placed' = Placed /\ \A t, n : Fits(t, n)' <=> Fits(t, n)
  BY <1>1, SameFits
<1>5. "orders" \notin missed' => "orders" \notin missed /\ ~ (req[s].op = "assign" /\ req[s].answer = "ok")
  BY <1>2 DEF Unknown
<1>6. HeldsCurrent' /\ GivesCurrent'
  BY <1>1, <1>2, <1>3, <1>4, <1>5 DEF HeldsCurrent, GivesCurrent
<1>7. missed' = {} => missed = {}
  BY <1>2
<1>8. DetailsCurrent'
  BY <1>1, <1>2, <1>3, <1>4, <1>5, <1>7 DEF DetailsCurrent, Same
<1> QED
  BY <1>6, <1>8

LEMMA GivenReceive ==
  ASSUME OneAtATime, Typed, Given, NEW s \in Slots, Receive(s)
  PROVE  Given'
<1> USE DEF Given
<1>1. /\ ReqType /\ PageTyped /\ UNCHANGED <<orders, technicians, local, missed>>
      /\ req[s] # Idle /\ req[s].answer # "none"
  BY TypesSplit DEF Typed, Receive, server, tables
<1>2. \A r \in Slots : r = s
  BY DEF OneAtATime
<1>3. Placed' = Placed /\ \A t, n : Fits(t, n)' <=> Fits(t, n)
  BY <1>1, SameFits
<1>4. /\ Blank("list", NoTech).op = "list" /\ Idle.op = "none"
      /\ req'[s] = Idle \/ req'[s] = Blank("list", NoTech)
  BY <1>1, DoneEffect DEF Receive, Listed, Changed, Blank, Idle
<1>5. GivesCurrent'
  BY <1>2, <1>4 DEF GivesCurrent
<1>6. "orders" \notin missed => \A n \in Placed : held'[n] = orders[n].executor
  <2>1. CASE req[s].op = "assign" /\ req[s].answer = "ok"
    <3>1. held' = [held EXCEPT ![req[s].number] = req[s].tech] /\ req[s].number \in Placed
      BY <1>1, <2>1 DEF Receive, Listed, Changed, Typed, AllProper, Proper
    <3>2. "orders" \notin missed => orders[req[s].number].executor = req[s].tech
      BY <2>1 DEF GivesCurrent
    <3> QED
      BY <1>1, <1>2, <3>1, <3>2 DEF HeldsCurrent, PageTyped
  <2>2. CASE ~ (req[s].op = "assign" /\ req[s].answer = "ok")
    <3>1. held' = held
      BY <2>2 DEF Receive, Listed, Changed
    <3> QED
      BY <1>2, <2>2, <3>1 DEF HeldsCurrent
  <2> QED
    BY <2>1, <2>2
<1>7. HeldsCurrent'
  BY <1>1, <1>3, <1>6 DEF HeldsCurrent
<1>8. ASSUME local.kind = "detail", req'[s].op = "list", "orders" \notin missed
      PROVE  orders[local.number].executor = local.chosen
  <2>1. req[s].op \in {"list", "assign"}
    BY <1>1, <1>8, IdleIsNoRequest, Parts DEF DetailsCurrent, ReqType, Operations
  <2>2. Changed(s) /\ req[s].answer = "ok"
    <3>1. ~ Done(s)
      BY <1>1, <1>4, <1>8, DoneEffect
    <3> QED
      BY <3>1 DEF Receive, Listed, Changed
  <2>3. req[s].op = "assign"
    BY <2>1, <2>2 DEF Changed
  <2> QED
    BY <1>8, <2>2, <2>3 DEF DetailsCurrent, GivesCurrent
<1>9. DetailsCurrent'
  BY <1>1, <1>2, <1>3, <1>4, <1>8 DEF DetailsCurrent
<1> QED
  BY <1>5, <1>7, <1>9

LEMMA GivenOthers ==
  ASSUME Given,
         \/ \E t \in TechIds, name \in Names, active \in BOOLEAN : OtherEdits(t, name, active)
         \/ \E n \in Numbers, t \in TechIds : OtherAssigns(n, t)
  PROVE  Given'
<1> USE DEF Given
<1>1. UNCHANGED <<held, local, req>>
  BY DEF OtherEdits, OtherAssigns, app
<1>2. CASE \E t \in TechIds, name \in Names, active \in BOOLEAN : OtherEdits(t, name, active)
  <2>1. orders' = orders /\ missed' = missed \cup {"staff"}
    BY <1>2 DEF OtherEdits, UpdateTechnician
  <2> QED
    BY <1>1, <2>1 DEF HeldsCurrent, DetailsCurrent, GivesCurrent, Placed
<1>3. CASE \E n \in Numbers, t \in TechIds : OtherAssigns(n, t)
  <2>1. "orders" \in missed'
    BY <1>3 DEF OtherAssigns
  <2> QED
    BY <1>1, <2>1 DEF HeldsCurrent, DetailsCurrent, GivesCurrent
<1> QED
  BY <1>2, <1>3

LEMMA GivenStep ==
  ASSUME OneAtATime
  PROVE  Typed /\ Current /\ Given /\ [Next]_vars => Given'
<1> SUFFICES ASSUME Typed, Current, Given, [Next]_vars PROVE Given'
  OBVIOUS
<1>1. CASE UNCHANGED vars
  <2>1. Placed' = Placed /\ \A t, n : Fits(t, n)' <=> Fits(t, n)
    BY <1>1, SameFits DEF vars, server, tables
  <2> QED
    BY <1>1, <2>1 DEF vars, server, tables, app, Given, HeldsCurrent, DetailsCurrent, GivesCurrent
<1> QED
  BY <1>1, GivenClicks, GivenServe, GivenLose, GivenReceive, GivenOthers DEF Next

LEMMA GivenAlways == ASSUME OneAtATime PROVE Spec => []Given
BY GivenInit, GivenStep, TypedAlways, CurrentAlways, PTL DEF Spec

\* As far as the page can know, he gives no order to a technician who was
\* dismissed and has not got it already (DismissedGetsNothingNew).
THEOREM DismissedAreSpared == ASSUME OneAtATime PROVE Spec => DismissedGetsNothingNew
<1>1. ASSUME Typed, Given, NEW s \in Slots, Served(s), req[s].op = "assign", missed = {}
      PROVE  Employed(req[s].tech) \/ orders[req[s].number].executor = req[s].tech
  <2>1. Fits(req[s].tech, req[s].number)
    BY <1>1 DEF Given, GivesCurrent, Served
  <2>2. req[s].tech # NoTech
    BY <1>1 DEF Typed, AllProper, Proper, Served, TechIds, NoTech
  <2> QED
    BY <2>1, <2>2 DEF Fits
<1>2. Typed /\ Given =>
        [\A s \in Slots :
           Served(s) /\ req[s].op = "assign" /\ missed = {} =>
             Employed(req[s].tech) \/ orders[req[s].number].executor = req[s].tech]_vars
  BY <1>1
<1> QED
  BY <1>2, TypedAlways, GivenAlways, PTL DEF Spec, DismissedGetsNothingNew
=============================================================================
