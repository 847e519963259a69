---------------------------- MODULE ApartProofs -----------------------------
(***************************************************************************)
(* Backend implements Atomic as long as the requests that can disturb each *)
(* other keep apart; and what the comments of the code promise of a PATCH, *)
(* of rights and of errors holds as long.                                  *)
(***************************************************************************)
EXTENDS Apart, BackendProofs

USE NumberAssumption, RoleAssumption, SeedAssumption, CallAssumption

(***************************************************************************)
(* What request r has found still holds, nobody having changed it: no line *)
(* of the code would notice if it did not.  The link that authMiddleware   *)
(* has loaded may go, with the technician, while a PATCH is on its way;    *)
(* then the order was not this user's.                                     *)
(***************************************************************************)
LinkHolds(r) ==
  \/ me[r] = links[call[r].user]
  \/ links[call[r].user] = NoTech /\ me[r] \in TechIds \ Existing /\ me[r] < nextTechId

StillHolds(r) ==
  /\ Working(r) => Permitted(r) /\ call[r].valid
  /\ pc[r] = "list" /\ Role(r) = "montazhnik" => me[r] = links[call[r].user]
  /\ pc[r] \in {"getOrder", "getTech", "update"} => LinkHolds(r)
  /\ pc[r] = "insertOrder" => IsNextNumber(number[r])
  /\ pc[r] = "getTech" => draft[r] = orders[number[r]] /\ AssignsSomeone(call[r])
  /\ pc[r] = "update" =>
       /\ draft[r] = Edited(orders[number[r]], call[r])
       /\ MayTouch(Role(r), me[r], orders[number[r]])
       /\ CanUpdateOrder(draft[r])
       /\ ~ StatusRefused(call[r]) /\ (call[r].sets => Role(r) = "dispatcher")
  /\ pc[r] \in {"count", "delete"} => call[r].tech \in Existing
  /\ pc[r] = "delete" => CanDeleteTechnician(call[r].tech)

-----------------------------------------------------------------------------
(* A step of r leaves r with what the next one relies on. *)

\* Whoever has answered holds nothing.
LEMMA AnswerHoldsNothing ==
  ASSUME TypeOK, NEW r \in Requests, NEW a, Answer(r, a)
  PROVE  StillHolds(r)'
BY DEF Answer, TypeOK, StillHolds, Working, Statements

LEMMA ProceedTo ==
  ASSUME TypeOK, NEW r \in Requests, NEW l, NEW row, Proceed(r, l, row)
  PROVE  pc'[r] = l /\ draft'[r] = row /\ reply' = reply
BY DEF Proceed, TypeOK

\* The link is as good as when it was loaded: it says what the present one would.
LEMMA LinkStillRight ==
  ASSUME IInv, NEW r \in Requests, pc[r] # "idle", LinkHolds(r), orders[number[r]] # Absent
  PROVE  MayTouch(Role(r), me[r], orders[number[r]])
           <=> MayTouch(Role(r), links[call[r].user], orders[number[r]])
<1>1. orders[number[r]].executor \in Existing \cup {NoTech}
  BY DEF IInv, StoreIntegrity, TypeOK
<1> QED
  BY <1>1 DEF LinkHolds, MayTouch

\* ApplyUpdate on the row that is in the table, its new executor checked.
LEMMA ApplyHolds ==
  ASSUME IInv, NEW r \in Requests, pc[r] \in {"getOrder", "getTech"}, StillHolds(r),
         NEW row \in Row, row = orders[number[r]], MayTouch(Role(r), me[r], row),
         AssignsSomeone(call[r]) => call[r].tech \in Existing,
         call[r].sets => Role(r) = "dispatcher",
         ApplyUpdate(r, row), UNCHANGED <<tables, call, me, number>>
  PROVE  StillHolds(r)'
<1>1. TypeOK /\ number[r] \in Numbers
  BY DEF IInv, TypeOK
<1>2. CASE Answer(r, "badRequest")
  BY <1>1, <1>2, AnswerHoldsNothing
<1>3. CASE ~ StatusRefused(call[r]) /\ Proceed(r, "update", Edited(row, call[r]))
  <2>1. pc'[r] = "update" /\ draft'[r] = Edited(row, call[r])
    BY <1>1, <1>3, ProceedTo
  <2>2. row.executor \in Existing \cup {NoTech}
    BY <1>1 DEF IInv, StoreIntegrity
  <2>3. Edited(row, call[r]).executor \in Existing \cup {NoTech}
    BY <2>2 DEF Edited, AssignsSomeone
  <2>4. LinkHolds(r)' /\ Permitted(r)' /\ call'[r].valid
    BY DEF StillHolds, LinkHolds, tables, Existing, Working, Statements, Permitted, Role
  <2>5. StatusRefused(call'[r]) <=> StatusRefused(call[r])
    OBVIOUS
  <2> QED
    BY <1>3, <2>1, <2>3, <2>4, <2>5 DEF StillHolds, tables, Role, CanUpdateOrder, Existing
<1> QED
  BY <1>2, <1>3 DEF ApplyUpdate

\* A step of the middleware and of the handlers that ends at statement l.
LEMMA Onward ==
  ASSUME TypeOK, NEW r \in Requests, NEW l \in Statements, Proceed(r, l, Absent),
         UNCHANGED call, l \notin {"reread", "auth"} => Permitted(r) /\ call[r].valid,
         l \in {"reread", "nextNumber", "insertTech", "updateTech", "checkTech"}
  PROVE  StillHolds(r)'
<1>1. pc'[r] = l
  BY ProceedTo
<1>2. Permitted(r)' <=> Permitted(r)
  BY DEF Permitted, Role
<1> QED
  BY <1>1, <1>2 DEF StillHolds, Working

LEMMA AdmitHolds ==
  ASSUME IInv, NEW r \in Requests, Admit(r)
  PROVE  StillHolds(r)'
<1>1. TypeOK
  BY DEF IInv
<1>2. CASE \E a \in Refusals : Answer(r, a)
  BY <1>1, <1>2, AnswerHoldsNothing
<1>3. CASE Permitted(r) /\ call[r].valid /\ Proceed(r, FirstStatement(call[r].op), Absent)
  <2>1. pc'[r] = FirstStatement(call[r].op) /\ call[r] \in Call
    BY <1>1, <1>3, ProceedTo DEF Admit, TypeOK
  <2>2. pc'[r] \in {"list", "nextNumber", "getOrder", "insertTech", "updateTech", "checkTech"}
    BY <2>1 DEF FirstStatement, Call, Ops, DispatcherOps
  <2>3. me'[r] = links'[call'[r].user]
    BY <1>1 DEF Admit, TypeOK, tables
  <2>4. Permitted(r)' /\ call'[r].valid
    BY <1>3 DEF Admit, Permitted, Role
  <2> QED
    BY <2>2, <2>3, <2>4 DEF StillHolds, LinkHolds
<1> QED
  BY <1>2, <1>3 DEF Admit, Refusals

LEMMA GetOrderHolds ==
  ASSUME IInv, NEW r \in Requests, StillHolds(r), GetOrder(r)
  PROVE  StillHolds(r)'
<1> DEFINE row == orders[number[r]]
<1>1. TypeOK /\ row \in Row \cup {Absent}
  BY DEF IInv, TypeOK, StoreTypeOK
<1>2. CASE \E a \in Refusals : Answer(r, a)
  BY <1>1, <1>2, AnswerHoldsNothing
<1>3. CASE AssignsSomeone(call[r]) /\ Proceed(r, "getTech", row)
  <2>1. pc'[r] = "getTech" /\ draft'[r] = row
    BY <1>1, <1>3, ProceedTo
  <2>2. LinkHolds(r)' /\ Permitted(r)' /\ call'[r].valid
    BY DEF GetOrder, StillHolds, LinkHolds, tables, Existing, Working, Statements, Permitted, Role
  <2>3. AssignsSomeone(call'[r])
    BY <1>3 DEF GetOrder
  <2> QED
    BY <2>1, <2>2, <2>3 DEF GetOrder, StillHolds, tables
<1>4. CASE /\ row # Absent /\ MayTouch(Role(r), me[r], row) /\ ApplyUpdate(r, row)
           /\ ~ call[r].sets \/ (Role(r) = "dispatcher" /\ ~ AssignsSomeone(call[r]))
  <2>1. ~ AssignsSomeone(call[r])
    BY <1>4 DEF AssignsSomeone
  <2> QED
    BY <1>1, <1>4, <2>1, ApplyHolds DEF GetOrder
<1> QED
  BY <1>2, <1>3, <1>4 DEF GetOrder, Refusals

LEMMA GetTechnicianHolds ==
  ASSUME IInv, NEW r \in Requests, StillHolds(r), GetTechnician(r)
  PROVE  StillHolds(r)'
<1>1. TypeOK
  BY DEF IInv
<1>2. CASE Answer(r, "badRequest")
  BY <1>1, <1>2, AnswerHoldsNothing
<1>3. CASE call[r].tech \in Existing /\ ApplyUpdate(r, draft[r])
  <2>1. draft[r] \in Row /\ draft[r] = orders[number[r]] /\ Role(r) = "dispatcher"
    BY <1>1 DEF GetTechnician, TypeOK, StillHolds, IInv, Knows, EditInHand
  <2>2. MayTouch(Role(r), me[r], draft[r])
    BY <2>1 DEF MayTouch
  <2>3. PICK row \in Row : row = draft[r]
    BY <2>1
  <2> QED
    BY <1>3, <2>1, <2>2, <2>3, ApplyHolds DEF GetTechnician
<1> QED
  BY <1>2, <1>3 DEF GetTechnician

\* Each step of r but its last holds what the next one relies on.
LEMMA StillHoldsAfter ==
  ASSUME IInv, NEW r \in Requests, StillHolds(r),
         Step(r) \/ Abort(r) \/ \E c \in Calls : Accept(r, c)
  PROVE  StillHolds(r)'
<1>1. TypeOK /\ number[r] \in Numbers /\ StoreSound
  BY DEF IInv, TypeOK, StoreSound
<1>2. CASE Abort(r) \/ \E c \in Calls : Accept(r, c)
  <2>1. pc'[r] \in {"idle", "auth"}
    BY <1>1, <1>2 DEF Abort, Accept, TypeOK
  <2> QED
    BY <2>1 DEF StillHolds, Working, Statements
<1>3. CASE Reject(r) \/ ListOrders(r) \/ Reread(r) \/ Fail(r)
  BY <1>1, <1>3, AnswerHoldsNothing DEF Reject, ListOrders, Reread, Fail
<1>4. CASE NextNumber(r)
  <2>1. PICK n \in Numbers : IsNextNumber(n) /\ number' = [number EXCEPT ![r] = n]
    BY <1>4 DEF NextNumber
  <2>2. pc'[r] = "insertOrder" /\ number'[r] = n
    BY <1>1, <1>4, <2>1, ProceedTo DEF NextNumber, TypeOK
  <2>3. Permitted(r)' /\ call'[r].valid
    BY <1>4 DEF NextNumber, StillHolds, Working, Statements, Permitted, Role
  <2>4. Placed' = Placed
    BY <1>4 DEF NextNumber, Placed, tables
  <2>5. IsNextNumber(number[r])'
    BY <2>1, <2>2, <2>4 DEF IsNextNumber, IsMaxNumber
  <2> QED
    BY <2>2, <2>3, <2>5 DEF StillHolds
<1>5. CASE CreateOrder(r) \/ SaveOrder(r)
  <2>1. CASE Proceed(r, "reread", Absent)
    BY <1>1, <1>5, <2>1, Onward DEF CreateOrder, SaveOrder, Statements
  <2>2. CASE Answer(r, "internal")
    BY <1>1, <2>2, AnswerHoldsNothing
  <2> QED
    BY <1>5, <2>1, <2>2 DEF CreateOrder, SaveOrder, Committed, Refused
<1>6. CASE CreateTechnician(r) \/ AmendTechnician(r) \/ RemoveTechnician(r)
  BY <1>1, <1>6, AnswerHoldsNothing
     DEF CreateTechnician, AmendTechnician, RemoveTechnician, Committed, Refused
<1>7. CASE CheckTechnician(r) \/ CountOrders(r)
  <2>1. CASE \E a \in Refusals : Answer(r, a)
    BY <1>1, <2>1, AnswerHoldsNothing
  <2>2. /\ Permitted(r)' /\ call'[r].valid /\ call' = call
        /\ UNCHANGED <<orders, technicians>>
    BY <1>7 DEF CheckTechnician, CountOrders, StillHolds, Working, Statements, Permitted, Role, tables
  <2>3. CASE CheckTechnician(r) /\ call[r].tech \in Existing /\ Proceed(r, "count", Absent)
    <3>1. pc'[r] = "count"
      BY <1>1, <2>3, ProceedTo
    <3> QED
      BY <2>2, <2>3, <3>1 DEF StillHolds, Existing
  <2>4. CASE CountOrders(r) /\ NumbersOf(call[r].tech) = {} /\ Proceed(r, "delete", Absent)
    <3>1. pc'[r] = "delete"
      BY <1>1, <2>4, ProceedTo
    <3>2. call'[r].tech \in Existing'
      BY <2>2, <2>4 DEF CountOrders, StillHolds, Existing
    <3>3. CanDeleteTechnician(call[r].tech)'
      BY <2>2, <2>4 DEF CanDeleteTechnician, NumbersOf, Placed
    <3> QED
      BY <2>2, <3>1, <3>2, <3>3 DEF StillHolds
  <2> QED
    BY <1>7, <2>1, <2>3, <2>4 DEF CheckTechnician, CountOrders, Refusals
<1> QED
  BY <1>2, <1>3, <1>4, <1>5, <1>6, <1>7, AdmitHolds, GetOrderHolds, GetTechnicianHolds DEF Step

-----------------------------------------------------------------------------
(* A step of r leaves the others with it, unless it disturbs them. *)

\* What r does to the tables, with what it knows.
LEMMA TablesAfter ==
  ASSUME TypeOK, NEW r \in Requests, Step(r) \/ Abort(r) \/ \E c \in Calls : Accept(r, c)
  PROVE  \/ UNCHANGED tables
         \/ CreateOrder(r) /\ CanInsertOrder(number[r]) /\ InsertOrder(number[r])
         \/ SaveOrder(r) /\ UpdateOrder(number[r], draft[r])
         \/ InsertTechnician
         \/ \E t \in Existing, s \in {"active", "fired", Keep} : UpdateTechnician(t, s)
         \/ RemoveTechnician(r) /\ CanDeleteTechnician(call[r].tech) /\ DeleteTechnician(call[r].tech)
<1>1. CASE Abort(r) \/ \E c \in Calls : Accept(r, c)
  BY <1>1 DEF Abort, Accept
<1>2. CASE \/ Reject(r) \/ Admit(r) \/ ListOrders(r) \/ NextNumber(r) \/ Reread(r) \/ GetOrder(r)
           \/ GetTechnician(r) \/ CheckTechnician(r) \/ CountOrders(r) \/ Fail(r)
  BY <1>2 DEF Reject, Admit, ListOrders, NextNumber, Reread, GetOrder, GetTechnician,
              CheckTechnician, CountOrders, Fail
<1>3. CASE CreateOrder(r) \/ SaveOrder(r) \/ CreateTechnician(r) \/ RemoveTechnician(r)
  BY <1>3 DEF CreateOrder, SaveOrder, CreateTechnician, RemoveTechnician, Refused
<1>4. CASE AmendTechnician(r)
  <2>1. call[r].status \in {"active", "fired", Keep}
    BY <1>4 DEF AmendTechnician, TypeOK, Fits, Statements, Call
  <2> QED
    BY <1>4, <2>1 DEF AmendTechnician
<1> QED
  BY <1>1, <1>2, <1>3, <1>4 DEF Step

\* What must not change under q.
LEMMA HoldsWhile ==
  ASSUME TypeOK, NEW q \in Requests, SameLocals(q), StillHolds(q),
         pc[q] = "list" /\ Role(q) = "montazhnik" => links'[call[q].user] = links[call[q].user],
         pc[q] \in {"getOrder", "getTech", "update"} => LinkHolds(q)',
         pc[q] = "insertOrder" => Placed' = Placed,
         pc[q] \in {"getTech", "update"} => orders'[number[q]] = orders[number[q]],
         pc[q] = "update" => draft[q].executor \in Existing' \cup {NoTech},
         pc[q] \in {"count", "delete"} => call[q].tech \in Existing',
         pc[q] = "delete" => NumbersOf(call[q].tech)' = {}
  PROVE  StillHolds(q)'
<1>1. /\ pc'[q] = pc[q] /\ call'[q] = call[q] /\ me'[q] = me[q] /\ number'[q] = number[q]
      /\ draft'[q] = draft[q]
  BY DEF SameLocals
<1>2. Role(q)' = Role(q) /\ (Working(q)' <=> Working(q)) /\ (Permitted(q)' <=> Permitted(q))
  BY <1>1 DEF Role, Working, Permitted
<1>3. pc[q] = "insertOrder" => IsNextNumber(number[q])'
  BY <1>1 DEF StillHolds, IsNextNumber, IsMaxNumber
<1>4. pc[q] = "update" => CanUpdateOrder(draft[q])'
  BY <1>1 DEF CanUpdateOrder
<1>5. pc[q] = "delete" => CanDeleteTechnician(call[q].tech)'
  BY <1>1 DEF CanDeleteTechnician
<1> QED
  BY <1>1, <1>2, <1>3, <1>4, <1>5 DEF StillHolds

\* What a request at a statement works on, for the cases below.
LEMMA AtWork ==
  ASSUME IInv, NEW q \in Requests
  PROVE  /\ pc[q] = "insertOrder" => Working(q) /\ call[q].op = "createOrder"
         /\ pc[q] \in {"getTech", "update"} =>
              /\ Working(q) /\ call[q].op = "updateOrder" /\ number[q] = call[q].number
              /\ number[q] \in Placed
         /\ pc[q] \in {"count", "delete"} =>
              Working(q) /\ call[q].op = "deleteTechnician" /\ call[q].tech \in TechIds
         /\ pc[q] = "list" => Working(q) /\ call[q].op = "listOrders"
         /\ pc[q] = "update" => draft[q] \in Row
BY DEF IInv, TypeOK, Knows, EditInHand, Statements, Fits, Working, Call

\* The executor of a row about to be written is one of another who overlaps
\* with the deletion of t only if the row of the order names him.
LEMMA DraftExecutor ==
  ASSUME IInv, NEW q \in Requests, StillHolds(q), pc[q] = "update", NEW t \in TechIds,
         AssignsSomeone(call[q]) => call[q].tech # t, NumbersOf(t) = {}
  PROVE  draft[q].executor \in (Existing \cup {NoTech}) \ {t}
<1>1. number[q] \in Placed /\ draft[q] = Edited(orders[number[q]], call[q])
  BY AtWork DEF StillHolds
<1>2. orders[number[q]].executor # t
  BY <1>1 DEF NumbersOf
<1>3. draft[q].executor # t
  BY <1>1, <1>2 DEF Edited, AssignsSomeone, NoTech, TechIds
<1> QED
  BY <1>3 DEF StillHolds, CanUpdateOrder

LEMMA OthersHold ==
  ASSUME IInv, Apart, NEW r \in Requests, NEW q \in Requests, q # r, StillHolds(r), StillHolds(q),
         Step(r) \/ Abort(r) \/ \E c \in Calls : Accept(r, c)
  PROVE  StillHolds(q)'
<1>1. TypeOK /\ StoreTypeOK /\ SameLocals(q)
  BY OthersKeep DEF IInv, TypeOK
<1>2. /\ call'[q] = call[q] /\ me'[q] = me[q]
      /\ pc[q] \in {"list", "getOrder", "getTech", "update"} => call[q].user \in Users
  BY <1>1 DEF SameLocals, TypeOK, Statements, Call
<1>3. ASSUME UNCHANGED links, nextTechId' = nextTechId,
             \A t \in TechIds \ Existing : t < nextTechId => t \notin Existing'
      PROVE  pc[q] \in {"getOrder", "getTech", "update"} => LinkHolds(q)'
  BY <1>2, <1>3 DEF StillHolds, LinkHolds
<1>4. CASE UNCHANGED tables
  <2>1. Placed' = Placed /\ Existing' = Existing
    BY <1>4 DEF tables, Placed, Existing
  <2>2. NumbersOf(call[q].tech)' = NumbersOf(call[q].tech)
    BY <1>2, <1>4, <2>1 DEF NumbersOf, tables
  <2> QED
    BY <1>1, <1>3, <1>4, <2>1, <2>2, HoldsWhile
       DEF StillHolds, tables, CanUpdateOrder, CanDeleteTechnician
<1>5. CASE CreateOrder(r) /\ CanInsertOrder(number[r]) /\ InsertOrder(number[r])
  <2>1. Working(r) /\ call[r].op = "createOrder" /\ number[r] \in Numbers
    BY <1>1, <1>5, AtWork DEF CreateOrder, TypeOK
  <2>2. pc[q] # "insertOrder"
    BY <2>1, AtWork DEF Apart, Disturbs
  <2>3. Existing' = Existing /\ UNCHANGED <<links, nextTechId>>
    BY <1>5 DEF InsertOrder, Existing
  <2>4. pc[q] \in {"getTech", "update"} => orders'[number[q]] = orders[number[q]]
    BY <1>1, <1>5, AtWork DEF InsertOrder, CanInsertOrder, StoreTypeOK
  <2>5. pc[q] = "delete" => NumbersOf(call[q].tech)' = {}
    <3> SUFFICES ASSUME pc[q] = "delete" PROVE NumbersOf(call[q].tech)' = {}
      OBVIOUS
    <3>1. PICK t \in TechIds : t = call[q].tech
      BY AtWork
    <3>2. NumbersOf(t) = {}
      BY <3>1 DEF StillHolds, CanDeleteTechnician
    <3>3. \A n \in Numbers : orders'[n].executor = t => n # number[r] /\ orders'[n] = orders[n]
      BY <1>1, <1>5, <2>1 DEF InsertOrder, StoreTypeOK, TechIds, NoTech
    <3>4. NumbersOf(t)' = {}
      BY <3>2, <3>3 DEF NumbersOf, Placed
    <3> QED
      BY <1>2, <3>1, <3>4
  <2> QED
    BY <1>1, <1>3, <2>2, <2>3, <2>4, <2>5, HoldsWhile DEF StillHolds, CanUpdateOrder
<1>6. CASE SaveOrder(r) /\ UpdateOrder(number[r], draft[r])
  <2>1. /\ Working(r) /\ pc[r] = "update" /\ call[r].op = "updateOrder" /\ draft[r] \in Row
        /\ number[r] = call[r].number /\ number[r] \in Placed
    BY <1>6, AtWork DEF SaveOrder
  <2>2. orders' = [orders EXCEPT ![number[r]] = draft[r]] /\ Placed' = Placed
    BY <1>1, <1>6, <2>1 DEF UpdateOrder, Placed, StoreTypeOK, Row, Absent, Statuses
  <2>3. Existing' = Existing /\ UNCHANGED <<links, nextTechId>>
    BY <1>6 DEF UpdateOrder, Existing
  <2>4. pc[q] \in {"getTech", "update"} => orders'[number[q]] = orders[number[q]]
    <3>1. pc[q] \in {"getTech", "update"} => number[q] # number[r]
      BY <2>1, AtWork DEF Apart, Disturbs
    <3> QED
      BY <1>1, <2>2, <3>1 DEF StoreTypeOK
  <2>5. pc[q] = "delete" => NumbersOf(call[q].tech)' = {}
    <3> SUFFICES ASSUME pc[q] = "delete" PROVE NumbersOf(call[q].tech)' = {}
      OBVIOUS
    <3>1. PICK t \in TechIds : t = call[q].tech
      BY AtWork
    <3>2. AssignsSomeone(call[r]) => call[r].tech # t
      BY <2>1, <3>1, AtWork DEF Apart, Disturbs
    <3>3. NumbersOf(t) = {}
      BY <3>1 DEF StillHolds, CanDeleteTechnician
    <3>4. draft[r].executor # t
      BY <2>1, <3>2, <3>3, DraftExecutor
    <3>5. NumbersOf(t)' = {}
      BY <1>1, <2>1, <2>2, <3>3, <3>4 DEF NumbersOf, StoreTypeOK
    <3> QED
      BY <1>2, <3>1, <3>5
  <2> QED
    BY <1>1, <1>3, <2>2, <2>3, <2>4, <2>5, HoldsWhile DEF StillHolds, CanUpdateOrder
<1>7. CASE InsertTechnician \/ \E t \in Existing, s \in {"active", "fired", Keep} : UpdateTechnician(t, s)
  <2>1. UNCHANGED <<orders, links>> /\ nextTechId' >= nextTechId
    BY <1>1, <1>7 DEF InsertTechnician, UpdateTechnician, StoreTypeOK
  <2>2. \A t \in Existing : t \in Existing'
    BY <1>1, <1>7 DEF InsertTechnician, UpdateTechnician, Existing, StoreTypeOK
  <2>3. \A t \in TechIds \ Existing : t < nextTechId => t \notin Existing' /\ t < nextTechId'
    <3>1. CASE InsertTechnician
      BY <1>1, <3>1 DEF InsertTechnician, Existing, StoreTypeOK, TechIds
    <3>2. ASSUME NEW t \in Existing, NEW s \in {"active", "fired", Keep}, UpdateTechnician(t, s)
          PROVE  Existing' \subseteq Existing /\ nextTechId' = nextTechId
      BY <1>1, <3>2 DEF UpdateTechnician, Existing, StoreTypeOK
    <3> QED
      BY <1>7, <3>1, <3>2
  <2>4. Placed' = Placed /\ NumbersOf(call[q].tech)' = NumbersOf(call[q].tech)
    BY <1>2, <2>1 DEF Placed, NumbersOf
  <2>5. pc[q] \in {"getOrder", "getTech", "update"} => LinkHolds(q)'
    BY <1>2, <2>1, <2>3 DEF StillHolds, LinkHolds
  <2> QED
    BY <1>1, <2>1, <2>2, <2>4, <2>5, HoldsWhile DEF StillHolds, CanUpdateOrder, CanDeleteTechnician
<1>8. CASE /\ RemoveTechnician(r) /\ CanDeleteTechnician(call[r].tech)
           /\ DeleteTechnician(call[r].tech)
  <2>1. /\ Working(r) /\ call[r].op = "deleteTechnician" /\ call[r].tech \in TechIds
        /\ call[r].tech < nextTechId
    BY <1>8, AtWork DEF RemoveTechnician, IInv, Knows, RightsInHand
  <2>2. PICK t \in TechIds : t = call[r].tech
    BY <2>1
  <2>3. /\ Existing' = Existing \ {t} /\ UNCHANGED <<orders, nextTechId>>
        /\ \A u \in Users : links'[u] = (IF links[u] = t THEN NoTech ELSE links[u])
    BY <1>1, <1>8, <2>2 DEF DeleteTechnician, Existing, StoreTypeOK
  <2>4. Placed' = Placed /\ NumbersOf(call[q].tech)' = NumbersOf(call[q].tech)
    BY <1>2, <2>3 DEF Placed, NumbersOf
  <2>5. pc[q] = "list" /\ Role(q) = "montazhnik" => links'[call[q].user] = links[call[q].user]
    BY <1>2, <2>1, <2>2, <2>3, AtWork DEF Apart, Disturbs, Role
  <2>6. pc[q] \in {"getOrder", "getTech", "update"} => LinkHolds(q)'
    BY <1>2, <2>1, <2>2, <2>3 DEF StillHolds, LinkHolds
  <2>7. pc[q] = "update" => draft[q].executor \in Existing' \cup {NoTech}
    <3> SUFFICES ASSUME pc[q] = "update" PROVE draft[q].executor \in Existing' \cup {NoTech}
      OBVIOUS
    <3>1. AssignsSomeone(call[q]) => call[q].tech # t
      BY <2>1, <2>2, AtWork DEF Apart, Disturbs
    <3>2. NumbersOf(t) = {}
      BY <1>8, <2>2 DEF CanDeleteTechnician
    <3> QED
      BY <2>3, <3>1, <3>2, DraftExecutor
  <2>8. pc[q] \in {"count", "delete"} => call[q].tech \in Existing'
    BY <2>1, <2>2, <2>3, AtWork DEF Apart, Disturbs, StillHolds
  <2> QED
    BY <1>1, <2>3, <2>4, <2>5, <2>6, <2>7, <2>8, HoldsWhile DEF StillHolds, CanDeleteTechnician
<1> QED
  BY <1>1, <1>4, <1>5, <1>6, <1>7, <1>8, TablesAfter

-----------------------------------------------------------------------------
(* The invariant of ApartSpec. *)

AllHold == \A r \in Requests : StillHolds(r)

LEMMA ApartInit == Init => Apart /\ AllHold
BY DEF Init, Apart, Working, Statements, AllHold, StillHolds

LEMMA ApartStep == IInv /\ Apart /\ AllHold /\ [Next /\ Apart']_vars => IInv' /\ Apart' /\ AllHold'
<1> SUFFICES ASSUME IInv, Apart, AllHold, [Next /\ Apart']_vars PROVE IInv' /\ Apart' /\ AllHold'
  OBVIOUS
<1>1. IInv'
  BY IInvNext
<1>2. CASE UNCHANGED vars
  <2>1. Apart'
    BY <1>2 DEF vars, tables, locals, Apart, Working, Disturbs
  <2>2. ASSUME NEW q \in Requests PROVE StillHolds(q)'
    <3>1. StillHolds(q)
      BY DEF AllHold
    <3> QED
      BY <1>2, <3>1 DEF vars, tables, locals, StillHolds, LinkHolds, Working, Permitted, Role, Placed,
         Existing, CanUpdateOrder, CanDeleteTechnician, NumbersOf, IsNextNumber, IsMaxNumber
  <2> QED
    BY <1>1, <2>1, <2>2 DEF AllHold
<1>3. ASSUME NEW r \in Requests, Step(r) \/ Abort(r) \/ \E c \in Calls : Accept(r, c)
      PROVE  AllHold'
  BY <1>3, StillHoldsAfter, OthersHold DEF AllHold
<1> QED
  BY <1>1, <1>2, <1>3 DEF Next

LEMMA ApartInvariance == ApartSpec => [](IInv /\ AllHold)
<1>1. Init => IInv /\ Apart /\ AllHold
  BY IInvInit, ApartInit
<1> QED
  BY <1>1, ApartStep, PTL DEF ApartSpec

-----------------------------------------------------------------------------
(* Atomic's rules are the store's and the domain's, at the same tables. *)

LEMMA SameRules ==
  /\ Moment!tables = tables /\ Moment!Numbers = Numbers /\ Moment!NoTech = NoTech
  /\ Moment!Placed = Placed /\ Moment!Existing = Existing
  /\ Moment!DispatcherOps = DispatcherOps
  /\ Moment!CanInsertTechnician <=> CanInsertTechnician
  /\ Moment!InsertTechnician <=> InsertTechnician
<1> USE DEF Moment!tables, tables, Moment!Numbers, Numbers, Moment!NoTech, NoTech, Moment!Placed,
        Placed, Moment!Existing, Existing, Moment!TechIds, TechIds, Moment!Absent, Absent,
        Moment!DispatcherOps, DispatcherOps, Moment!CanInsertTechnician, CanInsertTechnician,
        Moment!InsertTechnician, InsertTechnician
<1> QED
  OBVIOUS

LEMMA SameOrderRules ==
  ASSUME NEW n
  PROVE  /\ Moment!IsNextNumber(n) <=> IsNextNumber(n)
         /\ Moment!CanInsertOrder(n) <=> CanInsertOrder(n)
         /\ Moment!InsertOrder(n) <=> InsertOrder(n)
         /\ \A row : Moment!UpdateOrder(n, row) <=> UpdateOrder(n, row)
BY SameRules
   DEF Moment!IsNextNumber, IsNextNumber, Moment!IsMaxNumber, IsMaxNumber, Moment!LPad, LPad,
       Moment!CanInsertOrder, CanInsertOrder, Moment!InsertOrder, InsertOrder,
       Moment!UpdateOrder, UpdateOrder

LEMMA SameStaffRules ==
  ASSUME NEW t
  PROVE  /\ Moment!NumbersOf(t) = NumbersOf(t)
         /\ Moment!CanDeleteTechnician(t) <=> CanDeleteTechnician(t)
         /\ Moment!DeleteTechnician(t) <=> DeleteTechnician(t)
         /\ \A status : Moment!UpdateTechnician(t, status) <=> UpdateTechnician(t, status)
BY SameRules
   DEF Moment!NumbersOf, NumbersOf, Moment!CanDeleteTechnician, CanDeleteTechnician,
       Moment!DeleteTechnician, DeleteTechnician, Moment!UpdateTechnician, UpdateTechnician,
       Moment!Keep, Keep

LEMMA SameCallRules ==
  ASSUME NEW c
  PROVE  /\ Moment!AssignsSomeone(c) <=> AssignsSomeone(c)
         /\ Moment!StatusRefused(c) <=> StatusRefused(c)
         /\ \A role, link, row : Moment!MayTouch(role, link, row) <=> MayTouch(role, link, row)
         /\ \A row : Moment!Edited(row, c) = Edited(row, c)
BY SameRules
   DEF Moment!AssignsSomeone, AssignsSomeone, Moment!StatusRefused, StatusRefused, Moment!Valid,
       Valid, Moment!Statuses, Statuses, Moment!Keep, Keep, Moment!MayTouch, MayTouch,
       Moment!Edited, Edited

-----------------------------------------------------------------------------
(* A step of Backend, read as one of Atomic. *)

Stage == [r \in Requests |-> StageOf(pc[r])]

LEMMA StageMoves ==
  ASSUME TypeOK, NEW r \in Requests, NEW l, pc' = [pc EXCEPT ![r] = l]
  PROVE  Stage' = [Stage EXCEPT ![r] = StageOf(l)]
BY DEF TypeOK, Stage

LEMMA AnswerAtomic ==
  ASSUME TypeOK, NEW r \in Requests, NEW a, Answer(r, a), UNCHANGED call
  PROVE  Moment!Answer(r, a)
<1>1. Stage' = [Stage EXCEPT ![r] = "done"]
  BY StageMoves DEF Answer, StageOf, Statements
<1> QED
  BY <1>1 DEF Answer, Moment!Answer, Stage

\* Reading on shows nothing.
LEMMA ProceedStutters ==
  ASSUME TypeOK, NEW r \in Requests, NEW l \in Statements \ {"reread"}, NEW row,
         pc[r] \in Statements \ {"reread"}, Proceed(r, l, row), UNCHANGED <<tables, call, seen>>
  PROVE  UNCHANGED Moment!vars
<1>1. Stage' = [Stage EXCEPT ![r] = "waiting"]
  BY StageMoves DEF Proceed, StageOf
<1>2. Stage[r] = "waiting"
  BY DEF Stage, StageOf
<1>3. Stage' = Stage
  BY <1>1, <1>2 DEF Stage
<1> QED
  BY <1>3 DEF Proceed, Moment!vars, Moment!tables, tables, Stage

\* At a statement, the request is what Atomic calls waiting or served.
LEMMA StageAt ==
  ASSUME NEW r \in Requests
  PROVE  /\ pc[r] = "reread" => Stage[r] = "served"
         /\ pc[r] \in Statements \ {"reread"} => Stage[r] = "waiting"
         /\ pc[r] \in {"idle", "done"} => Stage[r] = pc[r]
BY DEF Stage, StageOf, Statements

\* A request past the checks before the first statement is welcome.
LEMMA WorkingIsWelcome ==
  ASSUME NEW r \in Requests, StillHolds(r)
  PROVE  /\ Working(r) => Moment!Welcome(call[r])
         /\ Moment!Welcome(call[r]) <=> Permitted(r) /\ call[r].valid
BY SameRules DEF StillHolds, Moment!Welcome, Permitted, Role

\* A refusal changes nothing but the request.
LEMMA RefusalAtomic ==
  ASSUME TypeOK, NEW r \in Requests, Stage[r] = "waiting", UNCHANGED <<tables, call, seen>>,
         \/ \E a \in Refusals : Moment!Refused(call[r], a) /\ Answer(r, a)
         \/ Moment!RunOut(call[r]) /\ Answer(r, "internal")
  PROVE  Moment!Refuse(r)
<1>1. UNCHANGED Moment!tables
  BY DEF Moment!tables, tables
<1> QED
  BY <1>1, AnswerAtomic DEF Moment!Refuse, Refusals, Stage

\* A change is answered, or its answer is lost, or is still owed.
LEMMA CommitAtomic ==
  ASSUME TypeOK, NEW r \in Requests, Stage[r] = "waiting", Moment!Effect(call[r]),
         UNCHANGED <<call, seen>>,
         Committed(r, Answer(r, Moment!Success(call[r])) \/ Proceed(r, "reread", Absent))
  PROVE  Moment!CarryOut(r)
<1>1. CASE Answer(r, Moment!Success(call[r]))
  BY <1>1, AnswerAtomic DEF Moment!CarryOut, Stage
<1>2. CASE Faults /\ Answer(r, "internal")
  BY <1>2, AnswerAtomic DEF Moment!CarryOut, Stage
<1>3. CASE Proceed(r, "reread", Absent)
  <2>1. Stage' = [Stage EXCEPT ![r] = "served"]
    BY <1>3, StageMoves DEF Proceed, StageOf
  <2> QED
    BY <1>3, <2>1 DEF Moment!CarryOut, Stage, Proceed
<1> QED
  BY <1>1, <1>2, <1>3 DEF Committed

LEMMA AcceptAtomic ==
  ASSUME TypeOK, NEW r \in Requests, NEW c \in Calls, Accept(r, c)
  PROVE  Moment!Accept(r, c)
<1>1. Stage[r] \in {"idle", "done"} /\ UNCHANGED Moment!tables
  BY StageAt DEF Accept, Moment!tables, tables
<1>2. Stage' = [Stage EXCEPT ![r] = "waiting"]
  BY StageMoves DEF Accept, StageOf, Statements
<1> QED
  BY <1>1, <1>2 DEF Accept, Moment!Accept, Stage

LEMMA AbortAtomic ==
  ASSUME TypeOK, NEW r \in Requests, Abort(r)
  PROVE  Moment!Crash(r)
<1>1. Stage[r] \in {"waiting", "served"} /\ UNCHANGED Moment!tables
  BY StageAt DEF Abort, Moment!tables, tables
<1>2. Stage' = [Stage EXCEPT ![r] = "idle"]
  BY StageMoves DEF Abort, StageOf, Statements
<1> QED
  BY <1>1, <1>2 DEF Abort, Moment!Crash, Stage, NoCall

LEMMA FailAtomic ==
  ASSUME IInv, NEW r \in Requests, StillHolds(r), Fail(r)
  PROVE  Moment!Fail(r)
<1>1. TypeOK /\ UNCHANGED Moment!tables
  BY DEF Fail, Moment!tables, tables, IInv
<1>2. CASE pc[r] = "getTech"
  <2>1. Stage[r] = "waiting" /\ call[r].op = "updateOrder" /\ Moment!AssignsSomeone(call[r])
    BY <1>2, AtWork, StageAt, SameCallRules DEF StillHolds, Statements
  <2>2. Moment!Answer(r, "badRequest")
    BY <1>1, <1>2, AnswerAtomic DEF Fail
  <2> QED
    BY <1>1, <2>1, <2>2 DEF Fail, Moment!Fail, Stage
<1>3. CASE pc[r] # "getTech"
  <2>1. Stage[r] \in {"waiting", "served"}
    BY StageAt DEF Fail
  <2>2. Moment!Answer(r, "internal")
    BY <1>1, <1>3, AnswerAtomic DEF Fail
  <2> QED
    BY <1>1, <2>1, <2>2 DEF Fail, Moment!Fail, Stage
<1> QED
  BY <1>2, <1>3

LEMMA AdmitAtomic ==
  ASSUME IInv, NEW r \in Requests, StillHolds(r), Reject(r) \/ Admit(r)
  PROVE  Moment!Refuse(r) \/ UNCHANGED Moment!vars
<1>1. TypeOK /\ Stage[r] = "waiting" /\ UNCHANGED <<tables, call, seen>> /\ pc[r] = "auth"
  BY StageAt DEF Reject, Admit, IInv, Statements
<1>2. CASE Reject(r)
  BY <1>1, <1>2, RefusalAtomic DEF Reject, Moment!Refused, Refusals
<1>3. CASE /\ ~ (Permitted(r) /\ call[r].valid)
           /\ Answer(r, "forbidden") \/ Answer(r, "badRequest")
  BY <1>1, <1>3, WorkingIsWelcome, RefusalAtomic DEF Moment!Refused, Refusals
<1>4. CASE Admit(r) /\ Proceed(r, FirstStatement(call[r].op), Absent)
  <2>1. call[r].op \in Ops
    BY <1>1 DEF TypeOK, Statements, Call
  <2>2. FirstStatement(call[r].op) \in Statements \ {"reread"}
    BY <2>1 DEF FirstStatement, Statements, Ops, DispatcherOps
  <2> QED
    BY <1>1, <1>4, <2>2, ProceedStutters DEF Statements
<1> QED
  BY <1>2, <1>3, <1>4 DEF Admit

LEMMA ListAtomic ==
  ASSUME IInv, NEW r \in Requests, StillHolds(r), ListOrders(r)
  PROVE  Moment!List(r)
<1>1. TypeOK /\ pc[r] = "list" /\ call[r].op = "listOrders" /\ Working(r)
  BY AtWork DEF ListOrders, IInv
<1>2. Stage[r] = "waiting" /\ Moment!Welcome(call[r])
  BY <1>1, StageAt, WorkingIsWelcome DEF Statements
<1>3. Moment!Listing(call[r]) =
        (IF Role(r) = "montazhnik" /\ me[r] # NoTech THEN NumbersOf(me[r]) ELSE Placed)
  BY <1>1, SameRules, SameStaffRules DEF StillHolds, Moment!Listing, Role
<1>4. Moment!Answer(r, "ok") /\ UNCHANGED Moment!tables
  BY <1>1, AnswerAtomic DEF ListOrders, Moment!tables, tables
<1> QED
  BY <1>1, <1>2, <1>3, <1>4 DEF Moment!List, ListOrders, Stage

LEMMA CreateAtomic ==
  ASSUME IInv, NEW r \in Requests, StillHolds(r), CreateOrder(r)
  PROVE  Moment!CarryOut(r) \/ Moment!Refuse(r)
<1>1. /\ TypeOK /\ Stage[r] = "waiting" /\ call[r].op = "createOrder" /\ number[r] \in Numbers
      /\ Moment!Welcome(call[r]) /\ IsNextNumber(number[r])
  BY AtWork, StageAt, WorkingIsWelcome DEF CreateOrder, IInv, TypeOK, StillHolds, Statements
<1>2. CASE /\ CanInsertOrder(number[r]) /\ InsertOrder(number[r])
           /\ Committed(r, Proceed(r, "reread", Absent))
  <2>1. Moment!Effect(call[r])
    BY <1>1, <1>2, SameRules, SameOrderRules DEF Moment!Effect
  <2>2. Committed(r, Answer(r, Moment!Success(call[r])) \/ Proceed(r, "reread", Absent))
    BY <1>2 DEF Committed
  <2> QED
    BY <1>1, <2>1, <2>2, CommitAtomic DEF CreateOrder
<1>3. CASE ~ CanInsertOrder(number[r]) /\ Refused(r)
  <2>1. Moment!RunOut(call[r])
    BY <1>1, <1>3, SameRules, SameOrderRules DEF Moment!RunOut
  <2> QED
    BY <1>1, <1>3, <2>1, RefusalAtomic DEF CreateOrder, Refused
<1> QED
  BY <1>2, <1>3 DEF CreateOrder

LEMMA RereadAtomic ==
  ASSUME IInv, NEW r \in Requests, Reread(r)
  PROVE  Moment!Finish(r)
<1>1. TypeOK /\ Stage[r] = "served" /\ call[r].op \in {"createOrder", "updateOrder"}
  BY StageAt DEF Reread, IInv, TypeOK, Fits, Statements
<1>2. Moment!Success(call[r]) = (IF call[r].op = "createOrder" THEN "created" ELSE "ok")
  BY <1>1 DEF Moment!Success
<1>3. Moment!Answer(r, Moment!Success(call[r]))
  BY <1>1, <1>2, AnswerAtomic DEF Reread
<1> QED
  BY <1>1, <1>3 DEF Reread, Moment!Finish, Moment!tables, tables, Stage

\* What GetOrder and GetTechnician find out is what Atomic asks.
LEMMA EditRules ==
  ASSUME IInv, NEW r \in Requests, StillHolds(r), pc[r] \in {"getOrder", "getTech", "update"}
  PROVE  /\ Stage[r] = "waiting" /\ call[r].op = "updateOrder" /\ number[r] = call[r].number
         /\ number[r] \in Numbers /\ Moment!Welcome(call[r])
         /\ number[r] \in Moment!Placed <=> orders[number[r]] # Absent
         /\ orders[number[r]] # Absent =>
              (Moment!Entitled(call[r]) <=> MayTouch(Role(r), me[r], orders[number[r]]))
         /\ Moment!Proper(call[r]) <=>
              /\ call[r].sets => Role(r) = "dispatcher"
              /\ AssignsSomeone(call[r]) => call[r].tech \in Existing
              /\ ~ StatusRefused(call[r])
<1>1. /\ call[r].op = "updateOrder" /\ Working(r) /\ number[r] \in Numbers
      /\ number[r] = call[r].number /\ LinkHolds(r) /\ pc[r] # "idle"
  BY DEF IInv, TypeOK, Fits, Statements, Working, Knows, EditInHand, StillHolds
<1>2. Stage[r] = "waiting" /\ Moment!Welcome(call[r])
  BY <1>1, StageAt, WorkingIsWelcome DEF Statements
<1>3. number[r] \in Moment!Placed <=> orders[number[r]] # Absent
  BY <1>1, SameRules DEF Placed
<1>4. orders[number[r]] # Absent =>
        (Moment!Entitled(call[r]) <=> MayTouch(Role(r), me[r], orders[number[r]]))
  BY <1>1, LinkStillRight, SameCallRules DEF Moment!Entitled, Role
<1>5. Moment!Proper(call[r]) <=>
        /\ call[r].sets => Role(r) = "dispatcher"
        /\ AssignsSomeone(call[r]) => call[r].tech \in Existing
        /\ ~ StatusRefused(call[r])
  BY SameRules, SameCallRules DEF Moment!Proper, Role
<1> QED
  BY <1>1, <1>2, <1>3, <1>4, <1>5

LEMMA ApplyAtomic ==
  ASSUME IInv, NEW r \in Requests, StillHolds(r), pc[r] \in {"getOrder", "getTech"},
         orders[number[r]] # Absent, MayTouch(Role(r), me[r], orders[number[r]]),
         NEW row, ApplyUpdate(r, row), UNCHANGED <<tables, call, seen>>
  PROVE  Moment!Refuse(r) \/ UNCHANGED Moment!vars
<1>1. TypeOK
  BY DEF IInv
<1>2. CASE StatusRefused(call[r]) /\ Answer(r, "badRequest")
  <2>1. Moment!Refused(call[r], "badRequest")
    BY <1>2, EditRules DEF Moment!Refused
  <2> QED
    BY <1>1, <1>2, <2>1, EditRules, RefusalAtomic DEF Refusals
<1>3. CASE Proceed(r, "update", Edited(row, call[r]))
  BY <1>1, <1>3, ProceedStutters DEF Statements
<1> QED
  BY <1>2, <1>3 DEF ApplyUpdate

LEMMA GetOrderAtomic ==
  ASSUME IInv, NEW r \in Requests, StillHolds(r), GetOrder(r)
  PROVE  Moment!Refuse(r) \/ UNCHANGED Moment!vars
<1> DEFINE row  == orders[number[r]]
           mine == MayTouch(Role(r), me[r], row)
<1>1. TypeOK /\ pc[r] = "getOrder" /\ UNCHANGED <<tables, call, seen>>
  BY DEF IInv, GetOrder
<1>2. ASSUME NEW a \in Refusals, Answer(r, a), Moment!Refused(call[r], a)
      PROVE  Moment!Refuse(r)
  BY <1>1, <1>2, EditRules, RefusalAtomic
<1>3. CASE row = Absent /\ Answer(r, "notFound")
  <2>1. Moment!Refused(call[r], "notFound")
    BY <1>1, <1>3, EditRules DEF Moment!Refused
  <2> QED
    BY <1>2, <1>3, <2>1 DEF Refusals
<1>4. CASE row # Absent /\ ~ mine /\ Answer(r, "forbidden")
  <2>1. Moment!Refused(call[r], "forbidden")
    BY <1>1, <1>4, EditRules DEF Moment!Refused
  <2> QED
    BY <1>2, <1>4, <2>1 DEF Refusals
<1>5. CASE /\ row # Absent /\ mine /\ Role(r) = "montazhnik" /\ call[r].sets
           /\ Answer(r, "badRequest")
  <2>1. Moment!Refused(call[r], "badRequest")
    BY <1>1, <1>5, EditRules DEF Moment!Refused
  <2> QED
    BY <1>2, <1>5, <2>1 DEF Refusals
<1>6. CASE Proceed(r, "getTech", row)
  BY <1>1, <1>6, ProceedStutters DEF Statements
<1>7. CASE row # Absent /\ mine /\ ApplyUpdate(r, row)
  BY <1>1, <1>7, ApplyAtomic
<1> QED
  BY <1>3, <1>4, <1>5, <1>6, <1>7 DEF GetOrder

LEMMA GetTechnicianAtomic ==
  ASSUME IInv, NEW r \in Requests, StillHolds(r), GetTechnician(r)
  PROVE  Moment!Refuse(r) \/ UNCHANGED Moment!vars
<1>1. /\ TypeOK /\ pc[r] = "getTech" /\ UNCHANGED <<tables, call, seen>>
      /\ Role(r) = "dispatcher" /\ orders[number[r]] # Absent /\ AssignsSomeone(call[r])
  BY DEF IInv, GetTechnician, Knows, EditInHand, Placed, StillHolds
<1>2. MayTouch(Role(r), me[r], orders[number[r]])
  BY <1>1 DEF MayTouch
<1>3. CASE call[r].tech \notin Existing /\ Answer(r, "badRequest")
  <2>1. Moment!Refused(call[r], "badRequest")
    BY <1>1, <1>2, <1>3, EditRules DEF Moment!Refused
  <2> QED
    BY <1>1, <1>3, <2>1, EditRules, RefusalAtomic DEF Refusals
<1>4. CASE ApplyUpdate(r, draft[r])
  BY <1>1, <1>2, <1>4, ApplyAtomic
<1> QED
  BY <1>3, <1>4 DEF GetTechnician

LEMMA SaveAtomic ==
  ASSUME IInv, NEW r \in Requests, StillHolds(r), SaveOrder(r)
  PROVE  Moment!CarryOut(r)
<1>1. /\ TypeOK /\ pc[r] = "update" /\ number[r] \in Placed
      /\ draft[r] = Edited(orders[number[r]], call[r])
      /\ MayTouch(Role(r), me[r], orders[number[r]]) /\ CanUpdateOrder(draft[r])
      /\ ~ StatusRefused(call[r]) /\ (call[r].sets => Role(r) = "dispatcher")
  BY AtWork DEF SaveOrder, IInv, StillHolds
<1>2. AssignsSomeone(call[r]) => call[r].tech \in Existing
  BY <1>1 DEF CanUpdateOrder, Edited, AssignsSomeone
<1>3. UpdateOrder(number[r], draft[r]) /\ Committed(r, Proceed(r, "reread", Absent))
  BY <1>1 DEF SaveOrder
<1>4. Moment!Entitled(call[r]) /\ Moment!Proper(call[r]) /\ call[r].number \in Moment!Placed
  BY <1>1, <1>2, EditRules DEF Placed
<1>5. Moment!UpdateOrder(call[r].number, Moment!Edited(orders[call[r].number], call[r]))
  BY <1>1, <1>3, EditRules, SameOrderRules, SameCallRules
<1>6. Moment!Effect(call[r])
  BY <1>1, <1>4, <1>5, EditRules DEF Moment!Effect
<1>7. Committed(r, Answer(r, Moment!Success(call[r])) \/ Proceed(r, "reread", Absent))
  BY <1>3 DEF Committed
<1> QED
  BY <1>1, <1>6, <1>7, EditRules, CommitAtomic DEF SaveOrder

\* What the requests about technicians are.
LEMMA StaffRules ==
  ASSUME IInv, NEW r \in Requests, StillHolds(r),
         pc[r] \in {"insertTech", "updateTech", "checkTech", "count", "delete"}
  PROVE  /\ Stage[r] = "waiting" /\ Moment!Welcome(call[r])
         /\ call[r].op = (IF pc[r] = "insertTech" THEN "createTechnician"
                          ELSE IF pc[r] = "updateTech" THEN "updateTechnician"
                          ELSE "deleteTechnician")
<1>1. Working(r) /\ Stage[r] = "waiting"
  BY StageAt DEF Working, Statements
<1>2. Fits(pc[r], call[r].op)
  BY DEF IInv, TypeOK, Statements
<1> QED
  BY <1>1, <1>2, WorkingIsWelcome DEF Fits

LEMMA HireAtomic ==
  ASSUME IInv, NEW r \in Requests, StillHolds(r), CreateTechnician(r)
  PROVE  Moment!CarryOut(r) \/ Moment!Refuse(r)
<1>1. TypeOK /\ pc[r] = "insertTech" /\ call[r].op = "createTechnician"
  BY StaffRules DEF CreateTechnician, IInv
<1>2. CASE CanInsertTechnician /\ InsertTechnician /\ Committed(r, Answer(r, "created"))
  <2>1. Moment!Effect(call[r]) /\ Moment!Success(call[r]) = "created"
    BY <1>1, <1>2, StaffRules, SameRules DEF Moment!Effect, Moment!Success
  <2>2. Committed(r, Answer(r, Moment!Success(call[r])) \/ Proceed(r, "reread", Absent))
    BY <1>2, <2>1 DEF Committed
  <2> QED
    BY <1>1, <2>1, <2>2, StaffRules, CommitAtomic DEF CreateTechnician
<1>3. CASE ~ CanInsertTechnician /\ Refused(r)
  <2>1. Moment!RunOut(call[r])
    BY <1>1, <1>3, SameRules DEF Moment!RunOut
  <2> QED
    BY <1>1, <1>3, <2>1, StaffRules, RefusalAtomic DEF CreateTechnician, Refused
<1> QED
  BY <1>2, <1>3 DEF CreateTechnician

LEMMA AmendAtomic ==
  ASSUME IInv, NEW r \in Requests, StillHolds(r), AmendTechnician(r)
  PROVE  Moment!CarryOut(r) \/ Moment!Refuse(r)
<1>1. TypeOK /\ pc[r] = "updateTech" /\ call[r].op = "updateTechnician"
  BY StaffRules DEF AmendTechnician, IInv
<1>2. CASE /\ call[r].tech \in Existing /\ UpdateTechnician(call[r].tech, call[r].status)
           /\ Committed(r, Answer(r, "ok"))
  <2>1. Moment!Effect(call[r]) /\ Moment!Success(call[r]) = "ok"
    BY <1>1, <1>2, StaffRules, SameRules, SameStaffRules DEF Moment!Effect, Moment!Success
  <2>2. Committed(r, Answer(r, Moment!Success(call[r])) \/ Proceed(r, "reread", Absent))
    BY <1>2, <2>1 DEF Committed
  <2> QED
    BY <1>1, <2>1, <2>2, StaffRules, CommitAtomic DEF AmendTechnician
<1>3. CASE call[r].tech \notin Existing /\ Answer(r, "notFound") /\ UNCHANGED <<tables, wrote>>
  <2>1. Moment!Refused(call[r], "notFound")
    BY <1>1, <1>3, StaffRules, SameRules DEF Moment!Refused
  <2> QED
    BY <1>1, <1>3, <2>1, StaffRules, RefusalAtomic DEF AmendTechnician, Refusals
<1> QED
  BY <1>2, <1>3 DEF AmendTechnician

LEMMA CheckAtomic ==
  ASSUME IInv, NEW r \in Requests, StillHolds(r), CheckTechnician(r) \/ CountOrders(r)
  PROVE  Moment!Refuse(r) \/ UNCHANGED Moment!vars
<1>1. /\ TypeOK /\ pc[r] \in {"checkTech", "count"} /\ call[r].op = "deleteTechnician"
      /\ UNCHANGED <<tables, call, seen>>
  BY StaffRules DEF CheckTechnician, CountOrders, IInv
<1>2. ASSUME NEW l \in {"count", "delete"}, Proceed(r, l, Absent)
      PROVE  UNCHANGED Moment!vars
  BY <1>1, <1>2, ProceedStutters DEF Statements
<1>3. CASE CheckTechnician(r) /\ call[r].tech \notin Existing /\ Answer(r, "notFound")
  <2>1. Moment!Refused(call[r], "notFound")
    BY <1>1, <1>3, StaffRules, SameRules DEF Moment!Refused
  <2> QED
    BY <1>1, <1>3, <2>1, StaffRules, RefusalAtomic DEF Refusals
<1>4. CASE CountOrders(r) /\ NumbersOf(call[r].tech) # {} /\ Answer(r, "conflict")
  <2>1. call[r].tech \in Existing /\ ~ CanDeleteTechnician(call[r].tech)
    BY <1>4 DEF CountOrders, StillHolds, CanDeleteTechnician
  <2>2. Moment!Refused(call[r], "conflict")
    BY <1>1, <2>1, StaffRules, SameRules, SameStaffRules DEF Moment!Refused
  <2> QED
    BY <1>1, <1>4, <2>2, StaffRules, RefusalAtomic DEF Refusals
<1> QED
  BY <1>2, <1>3, <1>4 DEF CheckTechnician, CountOrders

LEMMA RemoveAtomic ==
  ASSUME IInv, NEW r \in Requests, StillHolds(r), RemoveTechnician(r)
  PROVE  Moment!CarryOut(r)
<1>1. /\ TypeOK /\ pc[r] = "delete" /\ call[r].op = "deleteTechnician"
      /\ call[r].tech \in Existing /\ CanDeleteTechnician(call[r].tech)
  BY StaffRules DEF RemoveTechnician, IInv, StillHolds
<1>2. DeleteTechnician(call[r].tech) /\ Committed(r, Answer(r, "noContent"))
  BY <1>1 DEF RemoveTechnician
<1>3. Moment!Effect(call[r]) /\ Moment!Success(call[r]) = "noContent"
  BY <1>1, <1>2, StaffRules, SameRules, SameStaffRules DEF Moment!Effect, Moment!Success
<1>4. Committed(r, Answer(r, Moment!Success(call[r])) \/ Proceed(r, "reread", Absent))
  BY <1>2, <1>3 DEF Committed
<1> QED
  BY <1>1, <1>3, <1>4, StaffRules, CommitAtomic DEF RemoveTechnician

LEMMA InitAtomic == Init => Moment!Init
<1> SUFFICES ASSUME Init PROVE Moment!Init
  OBVIOUS
<1>1. Moment!StoreInit
  BY DEF Init, StoreInit, Moment!StoreInit, Moment!TechIds, TechIds
<1>2. Stage = [r \in Requests |-> "idle"]
  BY DEF Init, Stage, StageOf, Statements
<1> QED
  BY <1>1, <1>2 DEF Init, Moment!Init, Stage, NoCall

\* What the step of request r is to a client.
LEMMA StepIsAtomic ==
  ASSUME IInv, NEW r \in Requests, StillHolds(r),
         Step(r) \/ Abort(r) \/ \E c \in Calls : Accept(r, c)
  PROVE  \/ \E c \in Calls : Moment!Accept(r, c)
         \/ Moment!Refuse(r) \/ Moment!List(r) \/ Moment!CarryOut(r) \/ Moment!Finish(r)
         \/ Moment!Fail(r) \/ Moment!Crash(r)
         \/ UNCHANGED Moment!vars
<1>1. TypeOK
  BY DEF IInv
<1>2. CASE NextNumber(r)
  BY <1>1, <1>2, ProceedStutters DEF NextNumber, Statements
<1> QED
  BY <1>1, <1>2, AcceptAtomic, AbortAtomic, FailAtomic, AdmitAtomic, ListAtomic, CreateAtomic,
     RereadAtomic, GetOrderAtomic, GetTechnicianAtomic, SaveAtomic, HireAtomic, AmendAtomic,
     CheckAtomic, RemoveAtomic
     DEF Step

\* As long as the requests that disturb each other keep apart, each request of
\* the service is carried out, or refused, at one moment: nobody outside can
\* tell that it is several statements without a transaction.
THEOREM ApartImplementsAtomic == ApartSpec => ImplementsAtomic
<1>1. IInv /\ AllHold /\ [Next /\ Apart']_vars => [Moment!Next]_(Moment!vars)
  <2> SUFFICES ASSUME IInv, AllHold, [Next /\ Apart']_vars PROVE [Moment!Next]_(Moment!vars)
    OBVIOUS
  <2>1. CASE UNCHANGED vars
    BY <2>1 DEF vars, locals, tables, Moment!vars, Moment!tables
  <2>2. ASSUME NEW r \in Requests, Step(r) \/ Abort(r) \/ \E c \in Calls : Accept(r, c)
        PROVE  Moment!Next \/ UNCHANGED Moment!vars
    BY <2>2, StepIsAtomic DEF AllHold, Moment!Next
  <2> QED
    BY <2>1, <2>2 DEF Next
<1> QED
  BY <1>1, InitAtomic, ApartInvariance, PTL DEF ApartSpec, ImplementsAtomic, Moment!Spec

-----------------------------------------------------------------------------
(* What the comments of the code promise, as long as requests keep apart. *)

\* The write of an update, and any write of a montazhnik, seen from the request
\* that makes it.
LEMMA UpdateWrites ==
  ASSUME IInv, NEW r \in Requests, Writes(r), [Next]_vars,
         call[r].op = "updateOrder" \/ Role(r) = "montazhnik"
  PROVE  /\ SaveOrder(r) /\ number[r] = call[r].number /\ number[r] \in Placed
         /\ orders'[number[r]] = draft[r]
<1>1. PICK q \in Requests : Step(q) \/ Abort(q) \/ \E c \in Calls : Accept(q, c)
  BY DEF Next, Writes, vars, locals
<1>2. q = r
  BY <1>1, OthersKeep DEF IInv, SameLocals, Writes
<1>3. TypeOK /\ KnowsOf(r)
  BY DEF IInv, Knows, KnowsOf
<1>4. ~ (CreateOrder(r) \/ CreateTechnician(r) \/ AmendTechnician(r) \/ RemoveTechnician(r))
  BY <1>3 DEF TypeOK, KnowsOf, RightsInHand, Statements, Fits, DispatcherOps,
              CreateOrder, CreateTechnician, AmendTechnician, RemoveTechnician
<1>5. SaveOrder(r)
  BY <1>1, <1>2, <1>3, <1>4 DEF Step, Writes, TypeOK, Reject, Admit, ListOrders, NextNumber, Reread,
     GetOrder, GetTechnician, CheckTechnician, CountOrders, Fail, Abort, Accept
<1>6. UpdateOrder(number[r], draft[r])
  BY <1>3, <1>5 DEF SaveOrder, Refused, Writes, TypeOK
<1> QED
  BY <1>3, <1>5, <1>6 DEF SaveOrder, UpdateOrder, KnowsOf, EditInHand, TypeOK, StoreTypeOK, Placed,
                          Statements, Fits

\* As long as requests keep apart, a PATCH changes nothing that it does not
\* carry: the row that UpdateOrder writes back is the row that is there.
THEOREM ApartKeepsTheRest == ApartSpec => FieldNotPassedNotChanged
<1> DEFINE Keeps(r) ==
      LET n == call[r].number IN
      Writes(r) /\ call[r].op = "updateOrder" /\ ~ call[r].sets =>
        /\ orders'[n].executor = orders[n].executor
        /\ call[r].status = Keep => orders'[n] = orders[n]
<1>1. ASSUME IInv, AllHold, [Next]_vars, NEW r \in Requests
      PROVE  Keeps(r)
  <2> SUFFICES ASSUME Writes(r), call[r].op = "updateOrder", ~ call[r].sets PROVE Keeps(r)
    OBVIOUS
  <2>1. /\ SaveOrder(r) /\ number[r] = call[r].number /\ number[r] \in Placed
        /\ orders'[number[r]] = draft[r]
    BY <1>1, UpdateWrites
  <2>2. draft[r] = Edited(orders[number[r]], call[r])
    BY <1>1, <2>1 DEF SaveOrder, AllHold, StillHolds
  <2>3. orders[number[r]] \in Row
    BY <1>1, <2>1 DEF IInv, TypeOK, StoreTypeOK, Placed
  <2> QED
    BY <2>1, <2>2, <2>3 DEF Edited, Row
<1>2. IInv /\ AllHold /\ [Next /\ Apart']_vars => [\A r \in Requests : Keeps(r)]_vars
  BY <1>1
<1> QED
  BY <1>2, ApartInvariance, PTL DEF ApartSpec, FieldNotPassedNotChanged

\* As long as requests keep apart, a montazhnik changes only an order that is
\* his when it is written, by the link his account has then.
THEOREM ApartOwnOrders == ApartSpec => OwnOrdersOnly
<1> DEFINE Own(r) ==
      Writes(r) /\ Role(r) = "montazhnik" =>
        /\ links[call[r].user] # NoTech
        /\ orders[call[r].number].executor = links[call[r].user]
<1>1. ASSUME IInv, AllHold, [Next]_vars, NEW r \in Requests
      PROVE  Own(r)
  <2> SUFFICES ASSUME Writes(r), Role(r) = "montazhnik" PROVE Own(r)
    OBVIOUS
  <2>1. /\ SaveOrder(r) /\ pc[r] = "update" /\ number[r] = call[r].number
        /\ orders[number[r]] # Absent
    BY <1>1, UpdateWrites DEF SaveOrder, Placed
  <2>2. LinkHolds(r) /\ MayTouch(Role(r), me[r], orders[number[r]])
    BY <1>1, <2>1 DEF AllHold, StillHolds
  <2>3. MayTouch(Role(r), links[call[r].user], orders[number[r]])
    BY <1>1, <2>1, <2>2, LinkStillRight
  <2> QED
    BY <2>1, <2>3 DEF MayTouch
<1>2. IInv /\ AllHold /\ [Next /\ Apart']_vars => [\A r \in Requests : Own(r)]_vars
  BY <1>1
<1> QED
  BY <1>2, ApartInvariance, PTL DEF ApartSpec, OwnOrdersOnly

\* Where no statement fails, a new 500 says that a number or an id has run out.
LEMMA NewInternal ==
  ASSUME IInv, NEW r \in Requests, StillHolds(r), ~ Faults, reply'[r] = "internal",
         Step(r) \/ Abort(r) \/ \E c \in Calls : Accept(r, c)
  PROVE  call'[r] = call[r] /\ (reply[r] = "internal" \/ Moment!RunOut(call[r]))
<1>1. TypeOK
  BY DEF IInv
<1>2. ASSUME NEW a, Moment!Answer(r, a)
      PROVE  a = "internal" /\ call' = call
  BY <1>1, <1>2 DEF Moment!Answer, TypeOK
<1>3. CASE \E c \in Calls : Moment!Accept(r, c)
  BY <1>1, <1>3 DEF Moment!Accept, TypeOK
<1>4. CASE Moment!Refuse(r)
  BY <1>2, <1>4 DEF Moment!Refuse
<1>5. CASE Moment!List(r)
  BY <1>2, <1>5 DEF Moment!List
<1>6. CASE Moment!CarryOut(r) \/ Moment!Finish(r)
  BY <1>2, <1>6 DEF Moment!CarryOut, Moment!Finish, Moment!Success
<1>7. CASE UNCHANGED Moment!vars
  BY <1>7 DEF Moment!vars
<1> QED
  BY <1>3, <1>4, <1>5, <1>6, <1>7, StepIsAtomic DEF Moment!Fail, Moment!Crash

LEMMA RunOutAtLimits ==
  ASSUME IInv, NEW r \in Requests, Moment!RunOut(call[r])
  PROVE  \/ call[r].op = "createOrder" /\ Limit - 1 \in Placed
         \/ call[r].op = "createTechnician" /\ nextTechId > LastTechId
<1>1. StoreSound
  BY DEF IInv, TypeOK, StoreSound
<1>2. ASSUME NEW n \in Numbers, IsNextNumber(n), ~ CanInsertOrder(n)
      PROVE  Limit - 1 \in Placed
  BY <1>1, <1>2, NextNumberFollows DEF CanInsertOrder
<1>3. ~ CanInsertTechnician => nextTechId > LastTechId
  BY <1>1 DEF CanInsertTechnician, StoreSound, StoreTypeOK
<1> QED
  BY <1>2, <1>3, SameRules, SameOrderRules DEF Moment!RunOut

\* As long as requests keep apart and no statement fails, a 500 says that the
\* numbers or the ids have run out, and never stands for a refused foreign key.
THEOREM ApartInternalAtLimits ==
  ASSUME ~ Faults
  PROVE  ApartSpec => []InternalOnlyAtLimits
<1>1. Init => InternalOnlyAtLimits
  BY DEF Init, InternalOnlyAtLimits
<1>2. IInv /\ IInv' /\ AllHold /\ InternalOnlyAtLimits /\ [Next /\ Apart']_vars => InternalOnlyAtLimits'
  <2>0. SUFFICES ASSUME IInv, AllHold, InternalOnlyAtLimits, [Next]_vars, NEW r \in Requests,
                        reply'[r] = "internal"
                 PROVE  \/ call'[r].op = "createOrder" /\ Limit - 1 \in Placed'
                        \/ call'[r].op = "createTechnician" /\ nextTechId' > LastTechId
    BY DEF InternalOnlyAtLimits
  <2>1. call'[r] = call[r] /\ (reply[r] = "internal" \/ Moment!RunOut(call[r]))
    <3>1. CASE UNCHANGED vars
      BY <2>0, <3>1 DEF vars, locals
    <3>2. CASE Step(r) \/ Abort(r) \/ \E c \in Calls : Accept(r, c)
      BY <2>0, <3>2, NewInternal DEF AllHold
    <3>3. ASSUME NEW q \in Requests, q # r, Step(q) \/ Abort(q) \/ \E c \in Calls : Accept(q, c)
          PROVE  call'[r] = call[r] /\ reply'[r] = reply[r]
      BY <2>0, <3>3, OthersKeep DEF IInv, SameLocals
    <3> QED
      BY <2>0, <3>1, <3>2, <3>3 DEF Next
  <2>2. \/ call[r].op = "createOrder" /\ Limit - 1 \in Placed
        \/ call[r].op = "createTechnician" /\ nextTechId > LastTechId
    BY <2>0, <2>1, RunOutAtLimits DEF InternalOnlyAtLimits
  <2>3. /\ \A n \in Placed : n \in Placed'
        /\ nextTechId <= nextTechId' /\ nextTechId \in Nat /\ nextTechId' \in Nat
    BY <2>0, TypeNext, StepIsTableStep, TableStepMonotone DEF IInv, TypeOK, StoreTypeOK
  <2> QED
    BY <2>1, <2>2, <2>3
<1> QED
  BY <1>1, <1>2, ApartInvariance, PTL DEF ApartSpec

\* In particular a technician with orders is then answered 409, as the README
\* promises: no foreign key has to refuse his deletion.
THEOREM ApartConflictIs409 ==
  ASSUME ~ Faults
  PROVE  ApartSpec => []DeleteConflictIs409
<1>1. InternalOnlyAtLimits => DeleteConflictIs409
  BY DEF InternalOnlyAtLimits, DeleteConflictIs409
<1> QED
  BY <1>1, ApartInternalAtLimits, PTL
=============================================================================
