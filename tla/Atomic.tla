------------------------------- MODULE Atomic -------------------------------
(***************************************************************************)
(* The API as its clients think of it: the server takes a request, carries *)
(* it out or refuses it at one moment, by the rules of the service and by  *)
(* the tables as they are at that moment, and answers then or later.  There*)
(* are no statements, and nobody sees a request half done.  What may go    *)
(* wrong is that no answer comes, or a 500 in its place, before the change *)
(* was made or after it.                                                   *)
(***************************************************************************)
EXTENDS Store

CONSTANTS Requests, Calls, Faults

VARIABLES
  stage,        \* "idle", "waiting", "served" (the answer is owed), "done"
  call, seen, reply

vars == <<tables, stage, call, seen, reply>>

Init ==
  /\ StoreInit
  /\ stage = [r \in Requests |-> "idle"]
  /\ call = [r \in Requests |-> [op |-> "none"]]
  /\ seen = [r \in Requests |-> {}]
  /\ reply = [r \in Requests |-> "none"]

-----------------------------------------------------------------------------
(* The rules *)

Welcome(c) == (c.op \in DispatcherOps => RoleOf[c.user] = "dispatcher") /\ c.valid

\* The user may change the order at all, and may change it like that.
Entitled(c) == MayTouch(RoleOf[c.user], links[c.user], orders[c.number])

Proper(c) ==
  /\ c.sets => RoleOf[c.user] = "dispatcher"
  /\ AssignsSomeone(c) => c.tech \in Existing
  /\ ~ StatusRefused(c)

\* c is refused with answer a, and the tables stay as they are.
Refused(c, a) ==
  \/ a = "unauthorized"
  \/ ~ Welcome(c) /\ a \in {"forbidden", "badRequest"}
  \/ /\ Welcome(c) /\ c.op = "updateOrder"
     /\ \/ c.number \notin Placed /\ a = "notFound"
        \/ c.number \in Placed /\ ~ Entitled(c) /\ a = "forbidden"
        \/ c.number \in Placed /\ Entitled(c) /\ ~ Proper(c) /\ a = "badRequest"
  \/ /\ Welcome(c) /\ c.op \in {"updateTechnician", "deleteTechnician"}
     /\ c.tech \notin Existing /\ a = "notFound"
  \/ /\ Welcome(c) /\ c.op = "deleteTechnician"
     /\ c.tech \in Existing /\ ~ CanDeleteTechnician(c.tech) /\ a = "conflict"

\* No number or no id is left for c.
RunOut(c) ==
  \/ c.op = "createOrder" /\ \E n \in Numbers : IsNextNumber(n) /\ ~ CanInsertOrder(n)
  \/ c.op = "createTechnician" /\ ~ CanInsertTechnician

\* c is carried out.
Effect(c) ==
  /\ Welcome(c)
  /\ \/ /\ c.op = "createOrder"
        /\ \E n \in Numbers : IsNextNumber(n) /\ CanInsertOrder(n) /\ InsertOrder(n)
     \/ /\ c.op = "updateOrder" /\ c.number \in Placed /\ Entitled(c) /\ Proper(c)
        /\ UpdateOrder(c.number, Edited(orders[c.number], c))
     \/ c.op = "createTechnician" /\ CanInsertTechnician /\ InsertTechnician
     \/ c.op = "updateTechnician" /\ c.tech \in Existing /\ UpdateTechnician(c.tech, c.status)
     \/ /\ c.op = "deleteTechnician" /\ c.tech \in Existing /\ CanDeleteTechnician(c.tech)
        /\ DeleteTechnician(c.tech)

\* The orders of whoever asks.
Listing(c) ==
  IF RoleOf[c.user] = "montazhnik" /\ links[c.user] # NoTech THEN NumbersOf(links[c.user]) ELSE Placed

Success(c) ==
  IF c.op \in {"createOrder", "createTechnician"} THEN "created"
  ELSE IF c.op = "deleteTechnician" THEN "noContent" ELSE "ok"

-----------------------------------------------------------------------------
(* The steps *)

Accept(r, c) ==
  /\ stage[r] \in {"idle", "done"}
  /\ stage' = [stage EXCEPT ![r] = "waiting"]
  /\ call' = [call EXCEPT ![r] = c]
  /\ seen' = [seen EXCEPT ![r] = {}]
  /\ reply' = [reply EXCEPT ![r] = "none"]
  /\ UNCHANGED tables

Answer(r, a) ==
  /\ stage' = [stage EXCEPT ![r] = "done"]
  /\ reply' = [reply EXCEPT ![r] = a]
  /\ UNCHANGED call

Refuse(r) ==
  /\ stage[r] = "waiting"
  /\ \/ \E a \in {"unauthorized", "forbidden", "badRequest", "notFound", "conflict"} :
          Refused(call[r], a) /\ Answer(r, a)
     \/ RunOut(call[r]) /\ Answer(r, "internal")
  /\ UNCHANGED <<tables, seen>>

List(r) ==
  /\ stage[r] = "waiting" /\ Welcome(call[r]) /\ call[r].op = "listOrders"
  /\ seen' = [seen EXCEPT ![r] = Listing(call[r])]
  /\ Answer(r, "ok")
  /\ UNCHANGED tables

CarryOut(r) ==
  /\ stage[r] = "waiting" /\ Effect(call[r])
  /\ \/ Answer(r, Success(call[r]))
     \/ Faults /\ Answer(r, "internal")
     \/ stage' = [stage EXCEPT ![r] = "served"] /\ UNCHANGED <<call, reply>>
  /\ UNCHANGED seen

Finish(r) ==
  /\ stage[r] = "served" /\ Answer(r, Success(call[r]))
  /\ UNCHANGED <<tables, seen>>

\* No database: a 500, or a 400 to who names an executor.
Fail(r) ==
  /\ Faults /\ stage[r] \in {"waiting", "served"}
  /\ \/ Answer(r, "internal")
     \/ stage[r] = "waiting" /\ call[r].op = "updateOrder" /\ AssignsSomeone(call[r])
          /\ Answer(r, "badRequest")
  /\ UNCHANGED <<tables, seen>>

Crash(r) ==
  /\ Faults /\ stage[r] \in {"waiting", "served"}
  /\ stage' = [stage EXCEPT ![r] = "idle"]
  /\ call' = [call EXCEPT ![r] = [op |-> "none"]]
  /\ UNCHANGED <<tables, seen, reply>>

Next ==
  \E r \in Requests :
    \/ \E c \in Calls : Accept(r, c)
    \/ Refuse(r) \/ List(r) \/ CarryOut(r) \/ Finish(r) \/ Fail(r) \/ Crash(r)

Spec == Init /\ [][Next]_vars
=============================================================================
