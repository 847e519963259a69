---------------------------- MODULE BackendProofs ----------------------------
(***************************************************************************)
(* Proofs about Backend for every value of its constants.                  *)
(***************************************************************************)
EXTENDS Backend, StoreProofs

\* The definitions that only name sets and records.
USE NumberAssumption, RoleAssumption, SeedAssumption, CallAssumption

\* What ending a step leaves behind has the types it should.
LEMMA AnswerType ==
  ASSUME TypeOK, NEW r \in Requests, NEW a \in Replies, Answer(r, a)
  PROVE  /\ pc' \in [Requests -> Labels]
         /\ pc' = [pc EXCEPT ![r] = "done"]
         /\ draft' \in [Requests -> Row \cup {Absent}]
         /\ \A q \in Requests : pc'[q] \in {"getTech", "update"} => draft'[q] \in Row
         /\ reply' \in [Requests -> Replies]
         /\ \A q \in Requests : pc'[q] \in Statements => Fits(pc'[q], call[q].op)
BY DEF Answer, TypeOK, Labels, Statements

LEMMA ProceedType ==
  ASSUME TypeOK, NEW r \in Requests, NEW l \in Statements, NEW row \in Row \cup {Absent},
         l \in {"getTech", "update"} => row \in Row, Fits(l, call[r].op), Proceed(r, l, row)
  PROVE  /\ pc' \in [Requests -> Labels]
         /\ pc' = [pc EXCEPT ![r] = l]
         /\ draft' \in [Requests -> Row \cup {Absent}]
         /\ \A q \in Requests : pc'[q] \in {"getTech", "update"} => draft'[q] \in Row
         /\ reply' \in [Requests -> Replies]
         /\ \A q \in Requests : pc'[q] \in Statements => Fits(pc'[q], call[q].op)
BY DEF Proceed, TypeOK, Labels

\* The row a PATCH writes back is a row, with a status.
LEMMA EditedType ==
  ASSUME NEW c \in Call, NEW row \in Row, ~ StatusRefused(c)
  PROVE  Edited(row, c) \in Row
BY DEF Edited, Call, Row, StatusRefused, Valid, Statuses

LEMMA TypeInit == Init => TypeOK
  BY DEF Init, StoreInit, TypeOK, StoreTypeOK, Labels, Statements, Replies, TechStates, Row,
         Absent, Numbers, TechIds, NoTech

LEMMA TypeNext == TypeOK /\ [Next]_vars => TypeOK'
<1> SUFFICES ASSUME TypeOK, [Next]_vars PROVE TypeOK'
  OBVIOUS
<1> USE DEF TypeOK, StoreTypeOK, tables
<1>1. CASE UNCHANGED vars
  BY <1>1 DEF vars, locals
<1>2. ASSUME NEW r \in Requests, NEW c \in Calls, Accept(r, c) PROVE TypeOK'
  BY <1>2 DEF Accept, Labels, Statements, Replies, Call, NoTech, Fits
<1>3. ASSUME NEW r \in Requests, Abort(r) PROVE TypeOK'
  BY <1>3 DEF Abort, Labels, Statements, NoTech, Absent, Row, Numbers
<1>4. ASSUME NEW r \in Requests, Reject(r) PROVE TypeOK'
  <2>1. Answer(r, "unauthorized")  BY <1>4 DEF Reject
  <2> QED  BY <1>4, <2>1, AnswerType DEF Reject, Replies, Refusals
<1>5. ASSUME NEW r \in Requests, Admit(r) PROVE TypeOK'
  <2>1. me' \in [Requests -> TechIds \cup {NoTech}] /\ call[r] \in Call
    BY <1>5 DEF Admit, Call, Statements
  <2>2. CASE \E a \in Refusals : Answer(r, a)
    BY <1>5, <2>1, <2>2, AnswerType DEF Admit, Replies
  <2>3. CASE Proceed(r, FirstStatement(call[r].op), Absent)
    <3>1. /\ FirstStatement(call[r].op) \in Statements \ {"getTech", "update"}
          /\ Fits(FirstStatement(call[r].op), call[r].op)
      BY <2>1 DEF FirstStatement, Fits, Statements, Call, Ops, DispatcherOps
    <3> QED  BY <1>5, <2>1, <2>3, <3>1, ProceedType DEF Admit
  <2> QED  BY <1>5, <2>2, <2>3 DEF Admit, Refusals
<1>6. ASSUME NEW r \in Requests, ListOrders(r) PROVE TypeOK'
  <2>1. seen' \in [Requests -> SUBSET Numbers]
    BY <1>6 DEF ListOrders, NumbersOf, Placed
  <2> QED  BY <1>6, <2>1, AnswerType DEF ListOrders, Replies
<1>7. ASSUME NEW r \in Requests, NextNumber(r) PROVE TypeOK'
  <2>1. Fits("insertOrder", call[r].op)  BY <1>7 DEF NextNumber, Statements, Fits
  <2> QED  BY <1>7, <2>1, ProceedType DEF NextNumber, Statements
<1>8. ASSUME NEW r \in Requests, CreateOrder(r) PROVE TypeOK'
  <2>1. CASE UNCHANGED <<tables, wrote>> /\ Answer(r, "internal")
    BY <1>8, <2>1, AnswerType DEF CreateOrder, Replies
  <2>2. CASE InsertOrder(number[r]) /\ wrote' = [wrote EXCEPT ![r] = TRUE]
    <3>1. StoreTypeOK'  BY <2>2 DEF InsertOrder, Row, Statuses
    <3>2. CASE Answer(r, "internal")
      BY <1>8, <2>2, <3>1, <3>2, AnswerType DEF CreateOrder, Replies
    <3>3. CASE Proceed(r, "reread", Absent)
      <4>1. Fits("reread", call[r].op)  BY <1>8 DEF CreateOrder, Statements, Fits
      <4> QED  BY <1>8, <2>2, <3>1, <3>3, <4>1, ProceedType DEF CreateOrder, Statements
    <3> QED  BY <1>8, <3>2, <3>3 DEF CreateOrder, Committed, Refused
  <2> QED  BY <1>8, <2>1, <2>2 DEF CreateOrder, Committed, Refused
<1>9. ASSUME NEW r \in Requests, Reread(r) PROVE TypeOK'
  BY <1>9, AnswerType DEF Reread, Replies
<1>10. ASSUME NEW r \in Requests, NEW row \in Row, ApplyUpdate(r, row),
              pc[r] \in {"getOrder", "getTech"}, UNCHANGED <<tables, call, me, number, seen, wrote>>
       PROVE  TypeOK'
  <2>1. call[r] \in Call /\ Fits("update", call[r].op)  BY <1>10 DEF Fits, Statements
  <2>2. CASE Answer(r, "badRequest")
    BY <1>10, <2>2, AnswerType DEF Replies, Refusals
  <2>3. CASE ~ StatusRefused(call[r]) /\ Proceed(r, "update", Edited(row, call[r]))
    BY <1>10, <2>1, <2>3, EditedType, ProceedType DEF Statements
  <2> QED  BY <1>10, <2>2, <2>3 DEF ApplyUpdate
<1>11. ASSUME NEW r \in Requests, GetOrder(r) PROVE TypeOK'
  <2> DEFINE row == orders[number[r]]
  <2>1. row \in Row \cup {Absent}  OBVIOUS
  <2>2. CASE \E a \in Refusals : Answer(r, a)
    BY <1>11, <2>2, AnswerType DEF GetOrder, Replies
  <2>3. CASE Proceed(r, "getTech", row)
    <3>1. Fits("getTech", call[r].op)  BY <1>11 DEF GetOrder, Statements, Fits
    <3>2. row \in Row  BY <1>11, <2>1, <2>3 DEF GetOrder, Proceed, Answer, ApplyUpdate
    <3> QED  BY <1>11, <2>3, <3>1, <3>2, ProceedType DEF GetOrder, Statements
  <2>4. CASE row # Absent /\ ApplyUpdate(r, row)
    BY <1>10, <1>11, <2>1, <2>4 DEF GetOrder
  <2> QED  BY <1>11, <2>2, <2>3, <2>4 DEF GetOrder, Refusals
<1>12. ASSUME NEW r \in Requests, GetTechnician(r) PROVE TypeOK'
  <2>1. CASE Answer(r, "badRequest")
    BY <1>12, <2>1, AnswerType DEF GetTechnician, Replies, Refusals
  <2>2. CASE ApplyUpdate(r, draft[r])
    <3>1. draft[r] \in Row  BY <1>12 DEF GetTechnician
    <3> QED  BY <1>10, <1>12, <2>2, <3>1 DEF GetTechnician
  <2> QED  BY <1>12, <2>1, <2>2 DEF GetTechnician
<1>13. ASSUME NEW r \in Requests, SaveOrder(r) PROVE TypeOK'
  <2>1. CASE UNCHANGED <<tables, wrote>> /\ Answer(r, "internal")
    BY <1>13, <2>1, AnswerType DEF SaveOrder, Replies
  <2>2. CASE UpdateOrder(number[r], draft[r]) /\ wrote' = [wrote EXCEPT ![r] = TRUE]
    <3>1. StoreTypeOK'  BY <1>13, <2>2 DEF SaveOrder, UpdateOrder
    <3>2. CASE Answer(r, "internal")
      BY <1>13, <2>2, <3>1, <3>2, AnswerType DEF SaveOrder, Replies
    <3>3. CASE Proceed(r, "reread", Absent)
      <4>1. Fits("reread", call[r].op)  BY <1>13 DEF SaveOrder, Statements, Fits
      <4> QED  BY <1>13, <2>2, <3>1, <3>3, <4>1, ProceedType DEF SaveOrder, Statements
    <3> QED  BY <1>13, <3>2, <3>3 DEF SaveOrder, Committed, Refused
  <2> QED  BY <1>13, <2>1, <2>2 DEF SaveOrder, Committed, Refused
<1>14. ASSUME NEW r \in Requests, CreateTechnician(r) PROVE TypeOK'
  <2>1. PICK a \in Replies : Answer(r, a)
    BY <1>14 DEF CreateTechnician, Committed, Refused, Replies
  <2>2. StoreTypeOK'
    BY <1>14 DEF CreateTechnician, CanInsertTechnician, InsertTechnician, Refused, TechStates, TechIds
  <2>3. wrote' \in [Requests -> BOOLEAN]
    BY <1>14 DEF CreateTechnician, Committed, Refused
  <2> QED  BY <1>14, <2>1, <2>2, <2>3, AnswerType DEF CreateTechnician
<1>15. ASSUME NEW r \in Requests, AmendTechnician(r) PROVE TypeOK'
  <2>1. PICK a \in Replies : Answer(r, a)
    BY <1>15 DEF AmendTechnician, Committed, Replies, Refusals
  <2>2. call[r].op = "updateTechnician" /\ call[r].status \in {"active", "fired", Keep}
    BY <1>15 DEF AmendTechnician, Call, Statements, Fits
  <2>3. StoreTypeOK'
    BY <1>15, <2>2 DEF AmendTechnician, UpdateTechnician, TechStates, Existing
  <2>4. wrote' \in [Requests -> BOOLEAN]
    BY <1>15 DEF AmendTechnician, Committed
  <2> QED  BY <1>15, <2>1, <2>3, <2>4, AnswerType DEF AmendTechnician
<1>16. ASSUME NEW r \in Requests, CheckTechnician(r) PROVE TypeOK'
  <2>1. Fits("count", call[r].op)  BY <1>16 DEF CheckTechnician, Statements, Fits
  <2> QED  BY <1>16, <2>1, AnswerType, ProceedType DEF CheckTechnician, Statements, Replies, Refusals
<1>17. ASSUME NEW r \in Requests, CountOrders(r) PROVE TypeOK'
  <2>1. Fits("delete", call[r].op)  BY <1>17 DEF CountOrders, Statements, Fits
  <2> QED  BY <1>17, <2>1, AnswerType, ProceedType DEF CountOrders, Statements, Replies, Refusals
<1>18. ASSUME NEW r \in Requests, RemoveTechnician(r) PROVE TypeOK'
  <2>1. PICK a \in Replies : Answer(r, a)
    BY <1>18 DEF RemoveTechnician, Committed, Refused, Replies
  <2>2. StoreTypeOK'
    BY <1>18 DEF RemoveTechnician, DeleteTechnician, Refused, TechStates, NoTech
  <2>3. wrote' \in [Requests -> BOOLEAN]
    BY <1>18 DEF RemoveTechnician, Committed, Refused
  <2> QED  BY <1>18, <2>1, <2>2, <2>3, AnswerType DEF RemoveTechnician
<1>19. ASSUME NEW r \in Requests, Fail(r) PROVE TypeOK'
  <2>1. PICK a \in Replies : Answer(r, a)  BY <1>19 DEF Fail, Replies, Refusals
  <2>2. pc[r] # "idle"  BY <1>19 DEF Fail, Statements
  <2> QED  BY <1>19, <2>1, <2>2, AnswerType DEF Fail
<1>20. QED
  BY <1>1, <1>2, <1>3, <1>4, <1>5, <1>6, <1>7, <1>8, <1>9, <1>11, <1>12, <1>13, <1>14,
     <1>15, <1>16, <1>17, <1>18, <1>19 DEF Next, Step

\* The types of Backend's variables.
THEOREM TypeCorrect == Spec => []TypeOK
  BY TypeInit, TypeNext, PTL DEF Spec

-----------------------------------------------------------------------------
(***************************************************************************)
(* The inductive invariant.  The safety properties are not inductive: they *)
(* say nothing of what a request carries from one statement to the next.   *)
(* Knows says it for every request.                                        *)
(***************************************************************************)

\* The number a creation carries was next when it was read: since then the
\* numbers below it are in use, and others may have taken it as well.
NumberInHand(r) ==
  pc[r] = "insertOrder" =>
    \/ number[r] \in Placed
    \/ number[r] >= FirstNumber /\ \A k \in FirstNumber .. (number[r] - 1) : k \in Placed

\* A PATCH that has passed the checks works on the order it names, and a
\* montazhnik's PATCH carries a row with himself as the executor.
EditInHand(r) ==
  /\ pc[r] # "idle" /\ call[r].op = "updateOrder" => number[r] = call[r].number
  /\ pc[r] \in {"getTech", "update", "reread"} => number[r] \in Placed
  /\ pc[r] = "getTech" => Role(r) = "dispatcher"
  /\ pc[r] = "update" /\ Role(r) = "montazhnik" =>
       /\ me[r] # NoTech
       /\ draft[r].executor = me[r]
       /\ call[r].status \in {draft[r].status, Keep}

\* Only a dispatcher's request is at the statements only dispatchers reach;
\* a deletion past its first check names an id that was given out.
RightsInHand(r) ==
  /\ pc[r] \in Statements \ {"auth"} /\ call[r].op \in DispatcherOps => Role(r) = "dispatcher"
  /\ pc[r] \in {"count", "delete"} => call[r].tech < nextTechId

\* What a request has written, and what it may still answer.
OutcomeInHand(r) ==
  /\ wrote[r] => pc[r] \in {"reread", "done"}
  /\ reply[r] # "none" => pc[r] = "done"
  /\ reply[r] \in Refusals => ~ wrote[r]
  /\ wrote[r] /\ call[r].op = "createOrder" => number[r] \in Placed
  /\ pc[r] = "reread" => wrote[r]
  /\ reply[r] = "created" /\ call[r].op = "createOrder" => wrote[r]
  /\ reply[r] = "noContent" =>
       call[r].tech \in TechIds \ Existing /\ call[r].tech < nextTechId

Knows == \A r \in Requests :
  NumberInHand(r) /\ EditInHand(r) /\ RightsInHand(r) /\ OutcomeInHand(r)

\* No two creations have written the same number.
OwnNumbers ==
  \A r, s \in Requests :
    r # s /\ wrote[r] /\ wrote[s] /\ call[r].op = "createOrder" /\ call[s].op = "createOrder"
      => number[r] # number[s]

IInv ==
  /\ TypeOK
  /\ StoreIntegrity
  /\ NumbersAreGapless
  /\ FirstNumber = 1 \/ FirstNumber \in Placed
  /\ Knows
  /\ OwnNumbers

-----------------------------------------------------------------------------
LEMMA StepIsTableStep ==
  ASSUME IInv, [Next]_vars
  PROVE  TableStep
<1> USE DEF IInv, tables
<1>1. CASE UNCHANGED vars
  BY <1>1 DEF vars, TableStep
<1>2. ASSUME NEW r \in Requests, CreateOrder(r) PROVE TableStep
  <2>1. number[r] \in Numbers /\ NumberInHand(r)  BY DEF TypeOK, Knows
  <2> QED  BY <1>2, <2>1 DEF CreateOrder, CanInsertOrder, Refused, TableStep, NumberInHand
<1>3. ASSUME NEW r \in Requests, SaveOrder(r) PROVE TableStep
  <2>1. number[r] \in Placed /\ draft[r] \in Row
    BY <1>3 DEF SaveOrder, TypeOK, Knows, EditInHand
  <2> QED  BY <1>3, <2>1 DEF SaveOrder, Refused, TableStep
<1>4. ASSUME NEW r \in Requests, CreateTechnician(r) PROVE TableStep
  BY <1>4 DEF CreateTechnician, Refused, TableStep
<1>5. ASSUME NEW r \in Requests, AmendTechnician(r) PROVE TableStep
  <2>1. call[r].status \in {"active", "fired", Keep}
    BY <1>5 DEF AmendTechnician, TypeOK, Fits, Statements, Call
  <2> QED  BY <1>5, <2>1 DEF AmendTechnician, TableStep
<1>6. ASSUME NEW r \in Requests, RemoveTechnician(r) PROVE TableStep
  <2>1. call[r].tech \in TechIds /\ call[r].tech < nextTechId
    BY <1>6 DEF RemoveTechnician, TypeOK, Fits, Statements, Call, Knows, RightsInHand
  <2> QED  BY <1>6, <2>1 DEF RemoveTechnician, Refused, TableStep
<1>7. ASSUME NEW r \in Requests,
             \/ Reject(r) \/ Admit(r) \/ ListOrders(r) \/ NextNumber(r) \/ Reread(r)
             \/ GetOrder(r) \/ GetTechnician(r) \/ CheckTechnician(r) \/ CountOrders(r)
             \/ Fail(r) \/ Abort(r) \/ \E c \in Calls : Accept(r, c)
      PROVE  TableStep
  BY <1>7 DEF Reject, Admit, ListOrders, NextNumber, Reread, GetOrder, GetTechnician,
              CheckTechnician, CountOrders, Fail, Abort, Accept, TableStep
<1>8. QED
  BY <1>1, <1>2, <1>3, <1>4, <1>5, <1>6, <1>7 DEF Next, Step

-----------------------------------------------------------------------------
(* What a step does to the requests. *)

SameLocals(q) ==
  /\ pc'[q] = pc[q] /\ call'[q] = call[q] /\ me'[q] = me[q] /\ number'[q] = number[q]
  /\ draft'[q] = draft[q] /\ reply'[q] = reply[q] /\ wrote'[q] = wrote[q]

\* A step of r leaves the local state of the other requests alone.
LEMMA OthersKeep ==
  ASSUME TypeOK, NEW r \in Requests, NEW q \in Requests, q # r,
         Step(r) \/ Abort(r) \/ \E c \in Calls : Accept(r, c)
  PROVE  SameLocals(q)
<1> USE DEF TypeOK, SameLocals
<1>1. ASSUME NEW a, Answer(r, a)
      PROVE  pc'[q] = pc[q] /\ reply'[q] = reply[q] /\ draft'[q] = draft[q]
  BY <1>1 DEF Answer
<1>2. ASSUME NEW l, NEW row, Proceed(r, l, row)
      PROVE  pc'[q] = pc[q] /\ reply'[q] = reply[q] /\ draft'[q] = draft[q]
  BY <1>2 DEF Proceed
<1>3. CASE \E c \in Calls : Accept(r, c)
  BY <1>3 DEF Accept
<1>4. CASE Abort(r)
  BY <1>4 DEF Abort
<1>5. CASE Reject(r) \/ Admit(r) \/ ListOrders(r) \/ NextNumber(r) \/ Reread(r) \/ Fail(r)
  BY <1>1, <1>2, <1>5 DEF Reject, Admit, ListOrders, NextNumber, Reread, Fail
<1>6. CASE GetOrder(r) \/ GetTechnician(r) \/ CheckTechnician(r) \/ CountOrders(r)
  BY <1>1, <1>2, <1>6 DEF GetOrder, GetTechnician, CheckTechnician, CountOrders, ApplyUpdate
<1>7. CASE CreateOrder(r) \/ SaveOrder(r)
  BY <1>1, <1>2, <1>7 DEF CreateOrder, SaveOrder, Committed, Refused
<1>8. CASE CreateTechnician(r) \/ AmendTechnician(r) \/ RemoveTechnician(r)
  BY <1>1, <1>2, <1>8 DEF CreateTechnician, AmendTechnician, RemoveTechnician, Committed, Refused
<1>9. QED
  BY <1>3, <1>4, <1>5, <1>6, <1>7, <1>8 DEF Step

KnowsOf(r) == NumberInHand(r) /\ EditInHand(r) /\ RightsInHand(r) /\ OutcomeInHand(r)

\* What a request knows stays true while others take steps.
LEMMA OthersKnow ==
  ASSUME TypeOK, TypeOK', TableStep, NEW q \in Requests, KnowsOf(q), SameLocals(q)
  PROVE  KnowsOf(q)'
<1>1. /\ \A n \in Placed : n \in Placed'
      /\ \A t \in TechIds : t \notin Existing /\ t < nextTechId => t \notin Existing'
      /\ nextTechId <= nextTechId' /\ nextTechId \in Nat /\ nextTechId' \in Nat
  BY TableStepMonotone DEF TypeOK, StoreTypeOK
<1> USE DEF SameLocals, KnowsOf
<1>2. NumberInHand(q)'
  BY <1>1 DEF NumberInHand, TypeOK
<1>3. EditInHand(q)'
  BY <1>1 DEF EditInHand, Role
<1>4. RightsInHand(q)'
  <2>1. pc[q] \in {"count", "delete"} => call[q].tech \in TechIds
    BY DEF TypeOK, Statements, Fits, Call
  <2> QED  BY <1>1, <2>1 DEF RightsInHand, Role, TechIds
<1>5. OutcomeInHand(q)'
  BY <1>1 DEF OutcomeInHand, TechIds
<1>6. QED
  BY <1>2, <1>3, <1>4, <1>5

\* Each step of r leaves r knowing what the next one relies on.
LEMMA KnowsAfter ==
  ASSUME IInv, TypeOK', TableStep, NEW r \in Requests,
         Step(r) \/ Abort(r) \/ \E c \in Calls : Accept(r, c)
  PROVE  KnowsOf(r)'
<1> USE DEF KnowsOf, NumberInHand, EditInHand, RightsInHand, OutcomeInHand, Role
<1>1. TypeOK /\ KnowsOf(r)
  BY DEF IInv, Knows
<1>2. /\ \A n \in Placed : n \in Placed'
      /\ \A t \in TechIds : t \notin Existing /\ t < nextTechId => t \notin Existing'
      /\ nextTechId <= nextTechId' /\ nextTechId \in Nat /\ nextTechId' \in Nat
  BY <1>1, TableStepMonotone DEF TypeOK, StoreTypeOK
<1>3. ASSUME NEW c \in Calls, Accept(r, c) PROVE KnowsOf(r)'
  BY <1>1, <1>3 DEF Accept, TypeOK, Statements, Refusals
<1>4. ASSUME Abort(r) PROVE KnowsOf(r)'
  BY <1>1, <1>4 DEF Abort, TypeOK, Statements, Refusals
<1>5. ASSUME NEW a, Answer(r, a), pc[r] \in Statements, UNCHANGED <<call, number>>,
             \/ UNCHANGED wrote /\ a # "noContent" /\ (a \in Refusals => pc[r] # "reread")
                /\ (a = "created" => pc[r] = "reread")
             \/ /\ wrote' = [wrote EXCEPT ![r] = TRUE]
                /\ a \in {"ok", "created", "internal", "noContent"}
                /\ pc[r] \in {"insertOrder", "update", "insertTech", "updateTech", "delete"}
                /\ pc[r] = "insertOrder" => number[r] \in Placed'
                /\ a = "created" => pc[r] = "insertTech"
                /\ a = "noContent" => call[r].tech \notin Existing' /\ pc[r] = "delete"
      PROVE  KnowsOf(r)'
  <2>1. /\ pc'[r] = "done" /\ reply'[r] = a /\ call'[r] = call[r] /\ number'[r] = number[r]
        /\ Fits(pc[r], call[r].op) /\ call[r] \in Call
    BY <1>1, <1>5 DEF Answer, TypeOK, Statements
  <2>2. call[r].op \in DispatcherOps => pc[r] # "getOrder"
    BY <2>1 DEF Fits, DispatcherOps
  <2>3. NumberInHand(r)' /\ RightsInHand(r)'
    BY <2>1 DEF Statements
  <2>4. EditInHand(r)'
    BY <1>1, <1>5, <2>1 DEF Statements
  <2>5. OutcomeInHand(r)'
    <3>1. CASE UNCHANGED wrote
      BY <1>1, <1>2, <1>5, <2>1, <3>1 DEF TypeOK, Statements, Fits, Refusals
    <3>2. CASE wrote' = [wrote EXCEPT ![r] = TRUE]
      <4>1. wrote'[r] /\ a \notin Refusals
        BY <1>1, <1>5, <3>2 DEF TypeOK, Statements, Refusals
      <4>2. call[r].op = "createOrder" => number[r] \in Placed'
        BY <1>1, <1>2, <1>5, <2>1, <3>2, <4>1 DEF Fits, TypeOK
      <4>3. a = "noContent" =>
              call[r].tech \in TechIds \ Existing' /\ call[r].tech < nextTechId
        BY <1>1, <1>5, <2>1, <4>1 DEF Fits, Call, Refusals
      <4> QED  BY <1>2, <2>1, <4>1, <4>2, <4>3 DEF TechIds
    <3> QED  BY <1>5, <3>1, <3>2
  <2> QED  BY <2>3, <2>4, <2>5
<1>6. CASE Reject(r)
  BY <1>5, <1>6 DEF Reject, Statements, Refusals
<1>7. CASE Admit(r)
  <2>1. CASE \E a \in {"forbidden", "badRequest"} : Answer(r, a)
    BY <1>5, <1>7, <2>1 DEF Admit, Statements, Refusals
  <2>2. CASE Permitted(r) /\ Proceed(r, FirstStatement(call[r].op), Absent)
    <3>1. /\ FirstStatement(call[r].op) \in {"list", "nextNumber", "getOrder", "insertTech",
                                             "updateTech", "checkTech"}
      BY <1>1, <1>7 DEF Admit, FirstStatement, TypeOK, Statements, Call, Ops, DispatcherOps
    <3> QED  BY <1>1, <1>7, <2>2, <3>1 DEF Admit, Permitted, Proceed, TypeOK, Statements
  <2> QED  BY <1>7, <2>1, <2>2 DEF Admit
<1>8. CASE ListOrders(r)
  BY <1>5, <1>8 DEF ListOrders, Statements, Refusals
<1>9. CASE NextNumber(r)
  <2>1. PICK n \in Numbers : IsNextNumber(n) /\ number' = [number EXCEPT ![r] = n]
    BY <1>9 DEF NextNumber
  <2>2. StoreSound
    BY DEF IInv, TypeOK, StoreSound
  <2>3. \/ n \in Placed
        \/ n >= FirstNumber /\ \A k \in FirstNumber .. (n - 1) : k \in Placed
    BY <2>1, <2>2, NextNumberFollows
  <2>4. Placed' = Placed
    BY <1>9 DEF NextNumber, Placed, tables
  <2> QED
    BY <1>1, <1>9, <2>1, <2>3, <2>4 DEF NextNumber, Proceed, TypeOK, Statements, Fits, Refusals,
                                       DispatcherOps
<1>10. CASE CreateOrder(r)
  <2>1. CASE Refused(r)
    BY <1>5, <1>10, <2>1 DEF CreateOrder, Refused, Statements, Refusals
  <2>2. CASE InsertOrder(number[r]) /\ wrote' = [wrote EXCEPT ![r] = TRUE]
    <3>1. number'[r] \in Placed'
      BY <1>1, <1>10, <2>2 DEF CreateOrder, InsertOrder, Placed, TypeOK, StoreTypeOK, Absent
    <3>2. CASE Answer(r, "internal")
      BY <1>5, <1>10, <2>2, <3>1, <3>2 DEF CreateOrder, Statements
    <3>3. CASE Proceed(r, "reread", Absent)
      BY <1>1, <1>10, <2>2, <3>1, <3>3 DEF CreateOrder, Proceed, TypeOK, Statements, Fits, Refusals,
                                           DispatcherOps
    <3> QED  BY <1>10, <2>2, <3>2, <3>3 DEF CreateOrder, Committed, Refused
  <2> QED  BY <1>10, <2>1, <2>2 DEF CreateOrder, Committed, Refused
<1>11. CASE Reread(r)
  BY <1>5, <1>11 DEF Reread, Statements, Refusals
<1>12. CASE Fail(r)
  BY <1>5, <1>12 DEF Fail, Statements, Refusals
<1>13. ASSUME NEW row \in Row, row.executor = orders[number[r]].executor \/ Role(r) = "dispatcher",
              orders[number[r]] # Absent, MayTouch(Role(r), me[r], row),
              call[r].sets => Role(r) = "dispatcher",
              pc[r] \in {"getOrder", "getTech"}, ApplyUpdate(r, row),
              UNCHANGED <<tables, call, me, number, wrote>>
       PROVE  KnowsOf(r)'
  <2>1. CASE Answer(r, "badRequest")
    BY <1>5, <1>13, <2>1 DEF Statements, Refusals
  <2>2. CASE Proceed(r, "update", Edited(row, call[r]))
    <3>1. /\ pc'[r] = "update" /\ draft'[r] = Edited(row, call[r]) /\ UNCHANGED reply
          /\ call[r].op = "updateOrder" /\ number[r] \in Placed' /\ reply[r] = "none"
          /\ ~ wrote[r] /\ call[r].number = number[r]
      BY <1>1, <1>13, <2>2 DEF Proceed, TypeOK, Statements, Fits, tables, Placed
    <3>2. Role(r) = "montazhnik" =>
            /\ me[r] # NoTech /\ Edited(row, call[r]).executor = me[r]
            /\ call[r].status \in {Edited(row, call[r]).status, Keep}
      BY <1>13 DEF MayTouch, Edited
    <3> QED  BY <1>13, <3>1, <3>2 DEF Statements, DispatcherOps, Refusals
  <2> QED  BY <1>13, <2>1, <2>2 DEF ApplyUpdate
<1>14. CASE GetOrder(r)
  <2> DEFINE row == orders[number[r]]
  <2>1. CASE \E a \in {"notFound", "forbidden", "badRequest"} : Answer(r, a)
    BY <1>5, <1>14, <2>1 DEF GetOrder, Statements, Refusals
  <2>2. CASE row # Absent /\ Role(r) = "dispatcher" /\ Proceed(r, "getTech", row)
    BY <1>1, <1>14, <2>2 DEF GetOrder, Proceed, TypeOK, Statements, Fits, tables, Placed,
                             DispatcherOps, Refusals
  <2>3. CASE /\ row # Absent /\ MayTouch(Role(r), me[r], row) /\ ApplyUpdate(r, row)
             /\ call[r].sets => Role(r) = "dispatcher"
    BY <1>1, <1>13, <1>14, <2>3 DEF GetOrder, TypeOK, StoreTypeOK
  <2> QED  BY <1>14, <2>1, <2>2, <2>3 DEF GetOrder
<1>15. CASE GetTechnician(r)
  <2>1. CASE Answer(r, "badRequest")
    BY <1>5, <1>15, <2>1 DEF GetTechnician, Statements, Refusals
  <2>2. CASE ApplyUpdate(r, draft[r])
    <3>1. draft[r] \in Row /\ Role(r) = "dispatcher" /\ orders[number[r]] # Absent
      BY <1>1, <1>15 DEF GetTechnician, TypeOK, Placed
    <3> QED  BY <1>13, <1>15, <2>2, <3>1 DEF GetTechnician, MayTouch
  <2> QED  BY <1>15, <2>1, <2>2 DEF GetTechnician
<1>16. CASE SaveOrder(r)
  <2>1. CASE Answer(r, "internal")
    BY <1>5, <1>16, <2>1 DEF SaveOrder, Committed, Refused, Statements, Refusals
  <2>2. CASE Proceed(r, "reread", Absent) /\ wrote' = [wrote EXCEPT ![r] = TRUE]
    BY <1>1, <1>2, <1>16, <2>2 DEF SaveOrder, Proceed, TypeOK, Statements, Fits, Refusals,
                                   DispatcherOps
  <2> QED  BY <1>16, <2>1, <2>2 DEF SaveOrder, Committed, Refused
<1>17. CASE CreateTechnician(r)
  BY <1>5, <1>17 DEF CreateTechnician, Committed, Refused, Statements, Refusals
<1>18. CASE AmendTechnician(r)
  BY <1>5, <1>18 DEF AmendTechnician, Committed, Statements, Refusals
<1>19. CASE CheckTechnician(r) \/ CountOrders(r)
  <2>1. CASE \E a \in {"notFound", "conflict"} : Answer(r, a)
    BY <1>5, <1>19, <2>1 DEF CheckTechnician, CountOrders, Statements, Refusals
  <2>2. CASE CheckTechnician(r) /\ Proceed(r, "count", Absent)
    <3>1. call[r].tech < nextTechId
      <4>1. call[r].tech \in Existing
        BY <1>1, <2>2 DEF CheckTechnician, Answer, Proceed, TypeOK
      <4> QED  BY <1>2, <4>1 DEF Existing, IInv, StoreIntegrity, TechIds
    <3> QED  BY <1>1, <2>2, <3>1 DEF CheckTechnician, Proceed, TypeOK, Statements, Fits,
                                     DispatcherOps, Refusals, tables
  <2>3. CASE CountOrders(r) /\ Proceed(r, "delete", Absent)
    BY <1>1, <2>3 DEF CountOrders, Proceed, TypeOK, Statements, Fits, DispatcherOps, Refusals, tables
  <2> QED  BY <1>19, <2>1, <2>2, <2>3 DEF CheckTechnician, CountOrders
<1>20. CASE RemoveTechnician(r)
  <2>1. CASE UNCHANGED wrote /\ Answer(r, "internal")
    BY <1>5, <1>20, <2>1 DEF RemoveTechnician, Statements, Refusals
  <2>2. CASE DeleteTechnician(call[r].tech) /\ wrote' = [wrote EXCEPT ![r] = TRUE]
    <3>1. call[r].tech \notin Existing'
      BY <1>1, <2>2 DEF DeleteTechnician, Existing, TypeOK, StoreTypeOK
    <3> QED  BY <1>5, <1>20, <2>2, <3>1 DEF RemoveTechnician, Committed, Refused, Statements
  <2> QED  BY <1>20, <2>1, <2>2 DEF RemoveTechnician, Committed, Refused
<1>21. QED
  BY <1>3, <1>4, <1>6, <1>7, <1>8, <1>9, <1>10, <1>11, <1>12, <1>14, <1>15, <1>16, <1>17, <1>18,
     <1>19, <1>20 DEF Step

\* A creation writes only a number without a row, so that it differs from
\* the numbers other creations have written.
LEMMA OwnNumbersNext ==
  ASSUME IInv, TypeOK', NEW r \in Requests, Step(r) \/ Abort(r) \/ \E c \in Calls : Accept(r, c)
  PROVE  OwnNumbers'
<1>1. \A q \in Requests \ {r} : SameLocals(q)
  BY OthersKeep DEF IInv
<1>2. \A q \in Requests :
        wrote[q] /\ call[q].op = "createOrder" => number[q] \in Placed
  BY DEF IInv, Knows, OutcomeInHand
<1>3. ASSUME wrote'[r], call'[r].op = "createOrder"
      PROVE  \/ number'[r] \notin Placed
             \/ wrote[r] /\ call[r].op = "createOrder" /\ number'[r] = number[r]
  <2> USE DEF IInv, TypeOK
  <2>1. CASE CreateOrder(r)
    BY <2>1, <1>3 DEF CreateOrder, Refused, Committed, CanInsertOrder
  <2>2. CASE SaveOrder(r) \/ CreateTechnician(r) \/ AmendTechnician(r) \/ RemoveTechnician(r)
    <3>1. call[r].op # "createOrder"
      BY <2>2 DEF SaveOrder, CreateTechnician, AmendTechnician, RemoveTechnician, Statements, Fits
    <3> QED  BY <2>2, <3>1, <1>3
               DEF SaveOrder, CreateTechnician, AmendTechnician, RemoveTechnician
  <2>3. CASE Abort(r) \/ \E c \in Calls : Accept(r, c)
    BY <2>3, <1>3 DEF Abort, Accept
  <2>4. CASE NextNumber(r)
    BY <2>4, <1>3 DEF NextNumber, Knows, OutcomeInHand
  <2>5. CASE \/ Reject(r) \/ Admit(r) \/ ListOrders(r) \/ Reread(r) \/ GetOrder(r)
             \/ GetTechnician(r) \/ CheckTechnician(r) \/ CountOrders(r) \/ Fail(r)
    BY <2>5, <1>3 DEF Reject, Admit, ListOrders, Reread, GetOrder, GetTechnician, CheckTechnician,
                      CountOrders, Fail
  <2> QED  BY <2>1, <2>2, <2>3, <2>4, <2>5 DEF Step
<1> QED
  BY <1>1, <1>2, <1>3 DEF IInv, OwnNumbers, SameLocals

LEMMA IInvInit == Init => IInv
<1> SUFFICES ASSUME Init PROVE IInv
  OBVIOUS
<1>1. TypeOK  BY TypeInit
<1>2. StoreIntegrity
  BY <1>1 DEF Init, StoreInit, StoreIntegrity, Existing, TypeOK, StoreTypeOK, TechIds
<1>3. NumbersAreGapless /\ (FirstNumber = 1 \/ FirstNumber \in Placed)
  BY DEF Init, StoreInit, NumbersAreGapless, Placed, Numbers
<1>4. Knows /\ OwnNumbers
  BY DEF Init, Knows, NumberInHand, EditInHand, RightsInHand, OutcomeInHand, OwnNumbers, Statements,
         Refusals
<1> QED  BY <1>1, <1>2, <1>3, <1>4 DEF IInv

LEMMA IInvNext == IInv /\ [Next]_vars => IInv'
<1> SUFFICES ASSUME IInv, [Next]_vars PROVE IInv'
  OBVIOUS
<1>1. TypeOK /\ TypeOK' /\ StoreTypeOK
  BY TypeNext DEF IInv, TypeOK
<1>2. TableStep  BY StepIsTableStep
<1>3. StoreIntegrity' /\ NumbersAreGapless'
  BY <1>1, <1>2, TableStepSafe DEF IInv
<1>4. FirstNumber = 1 \/ FirstNumber \in Placed'
  BY <1>1, <1>2, TableStepMonotone DEF IInv
<1>5. Knows' /\ OwnNumbers'
  <2>1. CASE UNCHANGED vars
    BY <2>1 DEF vars, locals, tables, IInv, Knows, OwnNumbers, NumberInHand, EditInHand, RightsInHand,
                OutcomeInHand, Placed, Existing, Role
  <2>2. ASSUME NEW r \in Requests, Step(r) \/ Abort(r) \/ \E c \in Calls : Accept(r, c)
        PROVE  Knows' /\ OwnNumbers'
    <3>1. OwnNumbers'  BY <1>1, <2>2, OwnNumbersNext
    <3>2. KnowsOf(r)'  BY <1>1, <1>2, <2>2, KnowsAfter
    <3>3. ASSUME NEW q \in Requests, q # r PROVE KnowsOf(q)'
      <4>1. KnowsOf(q)  BY DEF IInv, Knows, KnowsOf
      <4> QED  BY <1>1, <1>2, <2>2, <3>3, <4>1, OthersKeep, OthersKnow
    <3> QED  BY <3>1, <3>2, <3>3 DEF Knows, KnowsOf
  <2> QED  BY <2>1, <2>2 DEF Next
<1> QED  BY <1>1, <1>3, <1>4, <1>5 DEF IInv

LEMMA Invariance == Spec => []IInv
  BY IInvInit, IInvNext, PTL DEF Spec

-----------------------------------------------------------------------------
(* The theorems *)

\* However requests interleave and wherever they are cut short, no order and
\* no user refers to a technician who is gone.
THEOREM IntegrityHolds == Spec => []StoreIntegrity
  BY Invariance, PTL DEF IInv

\* The numbers of the orders never have a gap, whatever number a creation
\* carries to its insert and however long it carries it.
THEOREM NumbersStayGapless == Spec => []NumbersAreGapless
  BY Invariance, PTL DEF IInv

\* A 4xx answer has changed nothing, also when it comes from reading a row
\* back after the write.
THEOREM RefusalsHaveNoEffect == Spec => []RefusalHasNoEffect
<1>1. IInv => RefusalHasNoEffect
  BY DEF IInv, Knows, OutcomeInHand, RefusalHasNoEffect
<1> QED  BY <1>1, Invariance, PTL

\* Any number of dispatchers may create orders at once: two answers 201
\* never name the same order.
THEOREM CreatedDistinct == Spec => []CreatedOrdersDistinct
<1>1. IInv => CreatedOrdersDistinct
  BY DEF IInv, Knows, OutcomeInHand, OwnNumbers, CreatedOrdersDistinct
<1> QED  BY <1>1, Invariance, PTL

\* A technician whose deletion was answered 204 never comes back, and
\* nothing refers to him again.
THEOREM DeletedStay == Spec => []DeletedStaysDeleted
<1>1. ASSUME IInv PROVE DeletedStaysDeleted
  <2> SUFFICES ASSUME NEW r \in Requests, reply[r] = "noContent"
               PROVE  /\ call[r].tech \notin Existing
                      /\ NumbersOf(call[r].tech) = {}
                      /\ \A u \in Users : links[u] # call[r].tech
    BY DEF DeletedStaysDeleted
  <2>1. call[r].tech \in TechIds \ Existing
    BY <1>1 DEF IInv, Knows, OutcomeInHand
  <2>2. call[r].tech # NoTech
    BY <2>1 DEF TechIds, NoTech
  <2> QED
    BY <1>1, <2>1, <2>2 DEF IInv, StoreIntegrity, NumbersOf, Placed
<1> QED  BY <1>1, Invariance, PTL

\* What a montazhnik's request writes is an edit of the order it names in his
\* own name, even if the order was reassigned after his rights were checked.
THEOREM MontazhnikOnlyAsHimself == Spec => MontazhnikActsAsHimself
<1> DEFINE Own(r) ==
      Writes(r) /\ Role(r) = "montazhnik" =>
        /\ orders' = [orders EXCEPT ![call[r].number] =
                        [executor |-> me[r], status |-> orders'[call[r].number].status]]
        /\ me[r] # NoTech
        /\ call[r].status \in {orders'[call[r].number].status, Keep}
        /\ UNCHANGED <<technicians, nextTechId, links>>
<1>1. ASSUME IInv, Next, NEW r \in Requests PROVE Own(r)
  <2> SUFFICES ASSUME Writes(r), Role(r) = "montazhnik" PROVE Own(r)
    OBVIOUS
  <2>1. PICK q \in Requests : Step(q) \/ Abort(q) \/ \E c \in Calls : Accept(q, c)
    BY <1>1 DEF Next
  <2>2. q = r
    BY <1>1, <2>1, OthersKeep DEF IInv, SameLocals, Writes
  <2>3. TypeOK /\ KnowsOf(r)
    BY <1>1 DEF IInv, Knows, KnowsOf
  <2>4. ~ (CreateOrder(r) \/ CreateTechnician(r) \/ AmendTechnician(r) \/ RemoveTechnician(r))
    BY <2>3 DEF TypeOK, KnowsOf, RightsInHand, Statements, Fits, DispatcherOps,
                CreateOrder, CreateTechnician, AmendTechnician, RemoveTechnician
  <2>5. SaveOrder(r)
    BY <2>1, <2>2, <2>3, <2>4 DEF Step, Writes, TypeOK, Reject, Admit, ListOrders, NextNumber, Reread,
       GetOrder, GetTechnician, CheckTechnician, CountOrders, Fail, Abort, Accept
  <2>6. UpdateOrder(number[r], draft[r])
    BY <2>3, <2>5 DEF SaveOrder, Refused, Writes, TypeOK
  <2>7. number[r] = call[r].number /\ number[r] \in Numbers /\ draft[r] \in Row
    BY <2>3, <2>5 DEF SaveOrder, KnowsOf, EditInHand, TypeOK, Statements, Fits
  <2>8. draft[r] = [executor |-> me[r], status |-> draft[r].status]
    BY <2>3, <2>5, <2>7 DEF SaveOrder, KnowsOf, EditInHand, Row
  <2>9. orders'[call[r].number] = draft[r]
    BY <2>3, <2>6, <2>7 DEF UpdateOrder, TypeOK, StoreTypeOK
  <2> QED
    BY <2>3, <2>5, <2>6, <2>7, <2>8, <2>9 DEF UpdateOrder, SaveOrder, KnowsOf, EditInHand
<1>2. ASSUME IInv, [Next]_vars PROVE [\A r \in Requests : Own(r)]_vars
  BY <1>1, <1>2
<1> QED  BY <1>2, Invariance, PTL DEF Spec, MontazhnikActsAsHimself

-----------------------------------------------------------------------------
(* Backend implements Registry. *)

\* The tables change only as a board of orders and a staff may: orders are
\* numbered without gaps and stay, executors are on the staff, who leaves has
\* no orders and does not return.
THEOREM BackendImplementsRegistry == Spec => ImplementsRegistry
<1>1. Init => Board!Init
  BY InitRefines DEF Init
<1>2. IInv /\ [Next]_vars => [Board!Next]_(Board!vars)
  BY StepIsTableStep, StepRefines DEF IInv, TypeOK
<1> QED
  BY <1>1, <1>2, Invariance, PTL DEF Spec, ImplementsRegistry, Board!Spec
-----------------------------------------------------------------------------
(***************************************************************************)
(* Orders and executors under the calls of the screens.  The status and    *)
(* the executor of an order are consistent in every copy of the row that a *)
(* handler holds, and a copy is always written back whole.                 *)
(***************************************************************************)

\* A copy a handler is to write is as consistent as the rows of the table.
DraftsHaveExecutor ==
  \A r \in Requests : pc[r] \in {"getTech", "update"} => HasExecutor(draft[r])

\* One PATCH of the screens keeps a consistent row consistent.
LEMMA EditedHasExecutor ==
  ASSUME NEW c \in Call, FromScreens(c), c.op = "updateOrder", NEW row \in Row, HasExecutor(row),
         NEW link, MayTouch(RoleOf[c.user], link, row)
  PROVE  HasExecutor(Edited(row, c))
<1>1. CASE c.sets /\ c.tech # NoTech /\ c.status = Keep
  BY <1>1 DEF Edited, HasExecutor
<1>2. CASE ~ c.sets /\ c.status = "cancelled"
  BY <1>2 DEF Edited, HasExecutor, Keep
<1>3. CASE ~ c.sets /\ c.status \in {"inwork", "done"} /\ RoleOf[c.user] = "montazhnik"
  <2>1. row.executor # NoTech  BY <1>3 DEF MayTouch
  <2> QED  BY <1>3, <2>1 DEF Edited, HasExecutor, Keep
<1> QED
  BY <1>1, <1>2, <1>3 DEF FromScreens

\* ApplyUpdate leaves only consistent copies behind.
LEMMA ApplyKeepsExecutor ==
  ASSUME TypeOK, DraftsHaveExecutor, \A c \in Calls : FromScreens(c),
         NEW r \in Requests, pc[r] \in {"getOrder", "getTech"}, NEW row \in Row, HasExecutor(row),
         MayTouch(Role(r), me[r], row), ApplyUpdate(r, row)
  PROVE  DraftsHaveExecutor'
<1>1. call[r] \in Call /\ FromScreens(call[r]) /\ call[r].op = "updateOrder"
  BY DEF TypeOK, Statements, Fits
<1>2. HasExecutor(Edited(row, call[r]))
  BY <1>1, EditedHasExecutor DEF Role
<1>3. CASE Answer(r, "badRequest")
  BY <1>3 DEF Answer, DraftsHaveExecutor, TypeOK, HasExecutor
<1>4. CASE Proceed(r, "update", Edited(row, call[r]))
  BY <1>2, <1>4 DEF Proceed, DraftsHaveExecutor, TypeOK, HasExecutor
<1> QED
  BY <1>3, <1>4 DEF ApplyUpdate

\* Only the checks of UpdateOrder lead to its write.
LEMMA LeavesEditing ==
  ASSUME TypeOK, NEW r \in Requests, Step(r) \/ Abort(r) \/ \E c \in Calls : Accept(r, c),
         ~ GetOrder(r), ~ GetTechnician(r)
  PROVE  pc'[r] \notin {"getTech", "update"}
<1> USE DEF TypeOK
<1>1. ASSUME NEW a, Answer(r, a) PROVE pc'[r] = "done"
  BY <1>1 DEF Answer
<1>2. ASSUME NEW l, NEW row, Proceed(r, l, row) PROVE pc'[r] = l
  BY <1>2 DEF Proceed
<1>3. CASE Abort(r) \/ \E c \in Calls : Accept(r, c)
  BY <1>3 DEF Abort, Accept
<1>4. CASE Admit(r)
  <2>1. call[r] \in Call  BY <1>4 DEF Admit
  <2>2. FirstStatement(call[r].op) \notin {"getTech", "update"}
    BY <2>1 DEF FirstStatement, Call, Ops, DispatcherOps
  <2> QED  BY <1>1, <1>2, <1>4, <2>2 DEF Admit
<1>5. CASE Reject(r) \/ ListOrders(r) \/ NextNumber(r) \/ Reread(r) \/ Fail(r)
  BY <1>1, <1>2, <1>5 DEF Reject, ListOrders, NextNumber, Reread, Fail
<1>6. CASE CreateOrder(r) \/ SaveOrder(r)
  BY <1>1, <1>2, <1>6 DEF CreateOrder, SaveOrder, Committed, Refused
<1>7. CASE CreateTechnician(r) \/ AmendTechnician(r) \/ RemoveTechnician(r)
  BY <1>1, <1>7 DEF CreateTechnician, AmendTechnician, RemoveTechnician, Committed, Refused
<1>8. CASE CheckTechnician(r) \/ CountOrders(r)
  BY <1>1, <1>2, <1>8 DEF CheckTechnician, CountOrders
<1> QED
  BY <1>3, <1>4, <1>5, <1>6, <1>7, <1>8 DEF Step

\* The orders change only by a creation and by the write of an update.
LEMMA OrdersAfter ==
  ASSUME TypeOK, NEW r \in Requests, Step(r) \/ Abort(r) \/ \E c \in Calls : Accept(r, c)
  PROVE  \/ orders' = orders
         \/ \E n \in Numbers : InsertOrder(n)
         \/ SaveOrder(r) /\ UpdateOrder(number[r], draft[r])
<1> USE DEF tables, Refused
<1>1. CASE Abort(r) \/ \E c \in Calls : Accept(r, c)
  BY <1>1 DEF Abort, Accept
<1>2. CASE \/ Reject(r) \/ Admit(r) \/ ListOrders(r) \/ NextNumber(r) \/ Reread(r) \/ GetOrder(r)
           \/ GetTechnician(r) \/ CheckTechnician(r) \/ CountOrders(r) \/ Fail(r)
  BY <1>2 DEF Reject, Admit, ListOrders, NextNumber, Reread, GetOrder, GetTechnician,
              CheckTechnician, CountOrders, Fail
<1>3. CASE CreateOrder(r)
  BY <1>3 DEF CreateOrder, TypeOK
<1>4. CASE SaveOrder(r)
  BY <1>4 DEF SaveOrder
<1>5. CASE CreateTechnician(r) \/ AmendTechnician(r) \/ RemoveTechnician(r)
  BY <1>5 DEF CreateTechnician, AmendTechnician, RemoveTechnician, InsertTechnician,
              UpdateTechnician, DeleteTechnician
<1> QED
  BY <1>1, <1>2, <1>3, <1>4, <1>5 DEF Step

\* As long as clients send what the screens send, an order that is assigned,
\* in work or done has an executor, whatever stale copies are written back.
THEOREM ScreensKeepExecutors ==
  ASSUME \A c \in Calls : FromScreens(c), \A n \in Numbers : HasExecutor(Seeds[n])
  PROVE  Spec => []AssignedHasExecutor
<1> DEFINE Consistent == AssignedHasExecutor /\ DraftsHaveExecutor
<1>1. Init => Consistent
  BY DEF Init, StoreInit, AssignedHasExecutor, DraftsHaveExecutor, Placed
<1>2. ASSUME IInv, Consistent, [Next]_vars PROVE Consistent'
  <2>1. CASE UNCHANGED vars
    BY <1>2, <2>1 DEF vars, tables, locals, AssignedHasExecutor, DraftsHaveExecutor, Placed, HasExecutor
  <2>2. ASSUME NEW r \in Requests, Step(r) \/ Abort(r) \/ \E c \in Calls : Accept(r, c)
        PROVE  DraftsHaveExecutor' /\ AssignedHasExecutor'
    <3>1. CASE GetOrder(r)
      <4> SUFFICES DraftsHaveExecutor'
        BY <1>2, <3>1 DEF GetOrder, tables, AssignedHasExecutor, Placed, HasExecutor
      <4> DEFINE row == orders[number[r]]
      <4>1. row # Absent => row \in Row /\ HasExecutor(row)
        BY <1>2 DEF IInv, TypeOK, StoreTypeOK, AssignedHasExecutor, Placed
      <4>2. CASE \E a \in Refusals : Answer(r, a)
        BY <1>2, <4>2 DEF Answer, DraftsHaveExecutor, IInv, TypeOK, HasExecutor
      <4>3. CASE row # Absent /\ Proceed(r, "getTech", row)
        BY <1>2, <4>1, <4>3 DEF Proceed, DraftsHaveExecutor, IInv, TypeOK, HasExecutor
      <4>4. CASE row # Absent /\ MayTouch(Role(r), me[r], row) /\ ApplyUpdate(r, row)
        BY <1>2, <3>1, <4>1, <4>4, ApplyKeepsExecutor DEF GetOrder, IInv
      <4> QED  BY <3>1, <4>2, <4>3, <4>4 DEF GetOrder, Refusals
    <3>2. CASE GetTechnician(r)
      <4> SUFFICES DraftsHaveExecutor'
        BY <1>2, <3>2 DEF GetTechnician, tables, AssignedHasExecutor, Placed, HasExecutor
      <4>1. draft[r] \in Row /\ HasExecutor(draft[r])
        BY <1>2, <3>2 DEF GetTechnician, DraftsHaveExecutor, IInv, TypeOK
      <4>2. MayTouch(Role(r), me[r], draft[r])
        BY <1>2, <3>2 DEF GetTechnician, IInv, Knows, EditInHand, MayTouch
      <4>3. CASE Answer(r, "badRequest")
        BY <1>2, <4>3 DEF Answer, DraftsHaveExecutor, IInv, TypeOK, HasExecutor
      <4>4. CASE ApplyUpdate(r, draft[r])
        BY <1>2, <3>2, <4>1, <4>2, <4>4, ApplyKeepsExecutor DEF GetTechnician, IInv
      <4> QED  BY <3>2, <4>3, <4>4 DEF GetTechnician
    <3>3. CASE ~ GetOrder(r) /\ ~ GetTechnician(r)
      <4>1. pc'[r] \notin {"getTech", "update"}
        BY <1>2, <2>2, <3>3, LeavesEditing DEF IInv
      <4>2. \A q \in Requests \ {r} : SameLocals(q)
        BY <1>2, <2>2, OthersKeep DEF IInv
      <4>3. \/ orders' = orders
            \/ \E n \in Numbers : InsertOrder(n)
            \/ SaveOrder(r) /\ UpdateOrder(number[r], draft[r])
        BY <1>2, <2>2, <3>3, OrdersAfter DEF IInv
      <4>4. AssignedHasExecutor'
        <5>1. CASE orders' = orders
          BY <1>2, <5>1 DEF AssignedHasExecutor, Placed, HasExecutor
        <5>2. CASE \E n \in Numbers : InsertOrder(n)
          BY <1>2, <5>2 DEF InsertOrder, IInv, TypeOK, StoreTypeOK, AssignedHasExecutor, Placed, HasExecutor
        <5>3. CASE SaveOrder(r) /\ UpdateOrder(number[r], draft[r])
          <6>1. HasExecutor(draft[r])
            BY <1>2, <5>3 DEF SaveOrder, DraftsHaveExecutor
          <6> QED  BY <1>2, <5>3, <6>1 DEF UpdateOrder, IInv, TypeOK, StoreTypeOK, AssignedHasExecutor,
                                          Placed, HasExecutor
        <5> QED  BY <4>3, <5>1, <5>2, <5>3
      <4> QED  BY <1>2, <4>1, <4>2, <4>4 DEF DraftsHaveExecutor, SameLocals, HasExecutor
    <3> QED  BY <3>1, <3>2, <3>3
  <2> QED  BY <1>2, <2>1, <2>2 DEF Next
<1> QED
  BY <1>1, <1>2, Invariance, PTL DEF Spec

-----------------------------------------------------------------------------
(***************************************************************************)
(* The list a montazhnik gets is not his only if his account has no link:  *)
(* ListOrders then falls through to the dispatchers' list.                 *)
(***************************************************************************)

EveryoneLinked == \A u \in Users : RoleOf[u] = "montazhnik" => links[u] # NoTech

LinkInHand ==
  \A r \in Requests : pc[r] \in Statements \ {"auth"} /\ Role(r) = "montazhnik" => me[r] # NoTech

LEMMA LinkInHandNext == IInv /\ EveryoneLinked /\ LinkInHand /\ [Next]_vars => LinkInHand'
<1> SUFFICES ASSUME IInv, EveryoneLinked, LinkInHand, [Next]_vars, NEW q \in Requests,
                    pc'[q] \in Statements \ {"auth"}, Role(q)' = "montazhnik"
             PROVE  me'[q] # NoTech
  BY DEF LinkInHand
<1>1. TypeOK
  BY DEF IInv
<1>2. ASSUME pc[q] \in Statements \ {"auth"}, call'[q] = call[q], me'[q] = me[q]
      PROVE  me'[q] # NoTech
  BY <1>2 DEF LinkInHand, Role
<1>3. CASE UNCHANGED vars
  BY <1>2, <1>3 DEF vars, locals
<1>4. ASSUME NEW r \in Requests, r # q, Step(r) \/ Abort(r) \/ \E c \in Calls : Accept(r, c)
      PROVE  me'[q] # NoTech
  BY <1>1, <1>2, <1>4, OthersKeep DEF SameLocals
<1>5. CASE Admit(q)
  <2>1. me'[q] = links[call[q].user] /\ call[q].user \in Users /\ Role(q) = "montazhnik"
    BY <1>1, <1>5 DEF Admit, TypeOK, Statements, Call, Role
  <2> QED
    BY <2>1 DEF EveryoneLinked, Role
<1>6. CASE Reject(q) \/ Abort(q) \/ \E c \in Calls : Accept(q, c)
  BY <1>1, <1>6 DEF Reject, Abort, Accept, Answer, TypeOK, Statements
<1>7. CASE /\ Step(q) /\ ~ Reject(q) /\ ~ Admit(q)
  <2>1. pc[q] \in Statements \ {"auth"} /\ UNCHANGED <<call, me>>
    BY <1>7 DEF Step, ListOrders, NextNumber, CreateOrder, Reread, GetOrder, GetTechnician, SaveOrder,
       CreateTechnician, AmendTechnician, CheckTechnician, CountOrders, RemoveTechnician, Fail, Statements
  <2> QED
    BY <1>2, <2>1
<1> QED
  BY <1>3, <1>4, <1>5, <1>6, <1>7 DEF Next, Step

\* As long as every montazhnik's account is linked to a technician, the list
\* answered to a montazhnik holds his own orders and no others.
THEOREM LinkedListsOwn == Spec /\ []EveryoneLinked => MontazhnikListsOwn
<1> DEFINE Own(r) ==
      pc[r] = "list" /\ Role(r) = "montazhnik" /\ reply'[r] = "ok" =>
        /\ me[r] = NoTech => seen'[r] = {}
        /\ me[r] # NoTech => seen'[r] = NumbersOf(me[r])
<1>1. Init => LinkInHand
  BY DEF Init, LinkInHand, Statements
<1>2. IInv /\ LinkInHand /\ [Next]_vars => [\A r \in Requests : Own(r)]_vars
  <2> SUFFICES ASSUME IInv, LinkInHand, [Next]_vars, NEW r \in Requests,
                      pc[r] = "list", Role(r) = "montazhnik", reply'[r] = "ok"
               PROVE  \/ UNCHANGED vars
                      \/ me[r] # NoTech /\ seen'[r] = NumbersOf(me[r])
    OBVIOUS
  <2>1. TypeOK /\ me[r] # NoTech /\ reply[r] # "ok"
    BY DEF IInv, LinkInHand, Statements, Knows, OutcomeInHand
  <2>2. ASSUME NEW q \in Requests, q # r, Step(q) \/ Abort(q) \/ \E c \in Calls : Accept(q, c)
        PROVE  FALSE
    BY <2>1, <2>2, OthersKeep DEF SameLocals
  <2>3. CASE Step(r) \/ Abort(r) \/ \E c \in Calls : Accept(r, c)
    <3>1. ListOrders(r) \/ Fail(r) \/ Abort(r)
      BY <2>3 DEF Step, Reject, Admit, NextNumber, CreateOrder, Reread, GetOrder, GetTechnician,
         SaveOrder, CreateTechnician, AmendTechnician, CheckTechnician, CountOrders,
         RemoveTechnician, Accept
    <3> QED
      BY <2>1, <3>1 DEF ListOrders, Fail, Abort, Answer, TypeOK
  <2> QED
    BY <2>1, <2>2, <2>3 DEF Next
<1>3. QED
  BY <1>1, <1>2, LinkInHandNext, Invariance, PTL DEF Spec, MontazhnikListsOwn
=============================================================================
