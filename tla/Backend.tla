------------------------------ MODULE Backend -------------------------------
(***************************************************************************)
(* The HTTP API at work: requests in flight over the shared store.  Each   *)
(* request runs in a goroutine of its own (net/http) through authentication*)
(* (httpserver/middleware.go), the role check, the handler                 *)
(* (httpserver/handlers.go) and the service (service/service.go).  A step  *)
(* of a request is one SQL statement with the code that runs from its      *)
(* result to the next statement or to the answer; between two steps the    *)
(* other requests may do anything.                                         *)
(*                                                                         *)
(* Any statement may fail (a lost connection, a cancelled context), and a  *)
(* write may commit although its answer is lost; the process may crash.    *)
(***************************************************************************)
EXTENDS Store

CONSTANTS
  Requests,     \* places for requests in flight
  Calls,        \* the calls clients may send
  Faults        \* whether statements fail and the process crashes

ASSUME CallAssumption == Calls \subseteq Call /\ Faults \in BOOLEAN

VARIABLES
  pc,       \* the statement request r is about to run
  call,     \* the request itself
  me,       \* user.TechnicianID, as authMiddleware loaded it
  number,   \* the number of the order the handler works on
  draft,    \* the handler's copy of the order's row
  seen,     \* the numbers of the orders a list answered
  reply,    \* the answer
  wrote     \* history: whether a statement of r has changed the tables

locals   == <<pc, call, me, number, draft, seen, reply, wrote>>
vars     == <<tables, locals>>

Statements == {"auth", "list", "nextNumber", "insertOrder", "getOrder", "getTech", "update",
               "reread", "insertTech", "updateTech", "checkTech", "count", "delete"}
Labels   == Statements \cup {"idle", "done"}
Refusals == {"badRequest", "unauthorized", "forbidden", "notFound", "conflict"}
Replies  == Refusals \cup {"none", "ok", "created", "noContent", "internal"}

Role(r) == RoleOf[call[r].user]

\* The first statement of the handler and of the service behind each endpoint.
FirstStatement(op) ==
  CASE op = "listOrders"       -> "list"
    [] op = "createOrder"      -> "nextNumber"
    [] op = "updateOrder"      -> "getOrder"
    [] op = "createTechnician" -> "insertTech"
    [] op = "updateTechnician" -> "updateTech"
    [] op = "deleteTechnician" -> "checkTech"

\* A request at statement l carries out operation op.
Fits(l, op) ==
  /\ l = "list" => op = "listOrders"
  /\ l \in {"nextNumber", "insertOrder"} => op = "createOrder"
  /\ l \in {"getOrder", "getTech", "update"} => op = "updateOrder"
  /\ l = "reread" => op \in {"createOrder", "updateOrder"}
  /\ l = "insertTech" => op = "createTechnician"
  /\ l = "updateTech" => op = "updateTechnician"
  /\ l \in {"checkTech", "count", "delete"} => op = "deleteTechnician"

NoCall == [op |-> "none"]

Init ==
  /\ StoreInit
  /\ pc = [r \in Requests |-> "idle"]
  /\ call = [r \in Requests |-> NoCall]
  /\ me = [r \in Requests |-> NoTech]
  /\ number = [r \in Requests |-> FirstNumber]
  /\ draft = [r \in Requests |-> Absent]
  /\ seen = [r \in Requests |-> {}]
  /\ reply = [r \in Requests |-> "none"]
  /\ wrote = [r \in Requests |-> FALSE]

-----------------------------------------------------------------------------
(* How a step ends: with the answer, or at the next statement. *)

Answer(r, a) ==
  /\ pc' = [pc EXCEPT ![r] = "done"]
  /\ reply' = [reply EXCEPT ![r] = a]
  /\ draft' = [draft EXCEPT ![r] = Absent]

Proceed(r, l, row) ==
  /\ pc' = [pc EXCEPT ![r] = l]
  /\ draft' = [draft EXCEPT ![r] = row]
  /\ UNCHANGED reply

\* A write has committed: the handler goes on to next with it, unless the
\* result of the statement is lost on its way back.
Committed(r, next) ==
  /\ wrote' = [wrote EXCEPT ![r] = TRUE]
  /\ next \/ (Faults /\ Answer(r, "internal"))

\* A statement that a constraint refuses, or that no sequence value is left for.
Refused(r) == Answer(r, "internal") /\ UNCHANGED <<tables, wrote>>

-----------------------------------------------------------------------------
(* Arrival, authentication and the checks before the first statement *)

\* What OrderDetailScreen sends about an order: a dispatcher names an executor
\* or cancels, a montazhnik takes the order in work or completes it.
FromScreens(c) ==
  c.op = "updateOrder" =>
    \/ c.sets /\ c.tech # NoTech /\ c.status = Keep
    \/ ~ c.sets /\ c.status = "cancelled"
    \/ ~ c.sets /\ c.status \in {"inwork", "done"} /\ RoleOf[c.user] = "montazhnik"

Accept(r, c) ==
  /\ pc[r] \in {"idle", "done"}
  /\ pc' = [pc EXCEPT ![r] = "auth"]
  /\ call' = [call EXCEPT ![r] = c]
  /\ me' = [me EXCEPT ![r] = NoTech]
  /\ number' = [number EXCEPT ![r] = c.number]
  /\ seen' = [seen EXCEPT ![r] = {}]
  /\ reply' = [reply EXCEPT ![r] = "none"]
  /\ wrote' = [wrote EXCEPT ![r] = FALSE]
  /\ UNCHANGED <<tables, draft>>

\* No token, a bad or expired one, no such user, or any failure to load the
\* user: authMiddleware answers all of them alike.
Reject(r) ==
  /\ pc[r] = "auth"
  /\ Answer(r, "unauthorized")
  /\ UNCHANGED <<tables, call, me, number, seen, wrote>>

Permitted(r) == call[r].op \in DispatcherOps => Role(r) = "dispatcher"

\* authMiddleware loads the user with his link, requireRole checks the role,
\* the handler decodes and checks the body.
Admit(r) ==
  /\ pc[r] = "auth"
  /\ me' = [me EXCEPT ![r] = links[call[r].user]]
  /\ \/ ~ Permitted(r) /\ Answer(r, "forbidden")
     \/ Permitted(r) /\ ~ call[r].valid /\ Answer(r, "badRequest")
     \/ Permitted(r) /\ call[r].valid /\ Proceed(r, FirstStatement(call[r].op), Absent)
  /\ UNCHANGED <<tables, call, number, seen, wrote>>

-----------------------------------------------------------------------------
(* GET /api/orders *)

\* A montazhnik who is linked to a technician gets that technician's orders,
\* everybody else gets all of them.
ListOrders(r) ==
  /\ pc[r] = "list"
  /\ seen' = [seen EXCEPT ![r] =
                IF Role(r) = "montazhnik" /\ me[r] # NoTech THEN NumbersOf(me[r]) ELSE Placed]
  /\ Answer(r, "ok")
  /\ UNCHANGED <<tables, call, me, number, wrote>>

-----------------------------------------------------------------------------
(* POST /api/orders *)

NextNumber(r) ==
  /\ pc[r] = "nextNumber"
  /\ \E n \in Numbers : IsNextNumber(n) /\ number' = [number EXCEPT ![r] = n]
  /\ Proceed(r, "insertOrder", Absent)
  /\ UNCHANGED <<tables, call, me, seen, wrote>>

\* Retrying with a fresh number whenever the number is taken.
CreateOrderRetryWrong(r) ==
  /\ pc[r] = "insertOrder"
  /\ \/ /\ CanInsertOrder(number[r])
        /\ InsertOrder(number[r])
        /\ Committed(r, Proceed(r, "reread", Absent))
     \/ ~ CanInsertOrder(number[r]) /\ Proceed(r, "nextNumber", Absent) /\ UNCHANGED <<tables, wrote>>
  /\ UNCHANGED <<call, me, number, seen>>

CreateOrder(r) ==
  /\ pc[r] = "insertOrder"
  /\ \/ /\ CanInsertOrder(number[r])
        /\ InsertOrder(number[r])
        /\ Committed(r, Proceed(r, "reread", Absent))
     \/ ~ CanInsertOrder(number[r]) /\ Refused(r)
  /\ UNCHANGED <<call, me, number, seen>>

\* Create and Update end by reading the row again, for the executor's name.
\* The row is there: no statement deletes an order.
RereadInnerJoinWrong(r) ==
  /\ pc[r] = "reread"
  /\ Answer(r, CASE orders[number[r]].executor = NoTech -> "notFound"
                 [] orders[number[r]].executor # NoTech -> "ok")
  /\ UNCHANGED <<tables, call, me, number, seen, wrote>>

Reread(r) ==
  /\ pc[r] = "reread"
  /\ Answer(r, IF call[r].op = "createOrder" THEN "created" ELSE "ok")
  /\ UNCHANGED <<tables, call, me, number, seen, wrote>>

-----------------------------------------------------------------------------
(* PATCH /api/orders/{id} *)

\* The second half of UpdateOrder, once the executor is known to be there.
ApplyUpdate(r, row) ==
  \/ StatusRefused(call[r]) /\ Answer(r, "badRequest")
  \/ ~ StatusRefused(call[r]) /\ Proceed(r, "update", Edited(row, call[r]))

GetOrder(r) ==
  /\ pc[r] = "getOrder"
  /\ LET row  == orders[number[r]]
         mine == MayTouch(Role(r), me[r], row)
         sets == call[r].sets
     IN  \/ row = Absent /\ Answer(r, "notFound")
         \/ row # Absent /\ ~ mine /\ Answer(r, "forbidden")
         \/ row # Absent /\ mine /\ Role(r) = "montazhnik" /\ sets /\ Answer(r, "badRequest")
         \/ /\ row # Absent /\ mine /\ Role(r) = "dispatcher" /\ AssignsSomeone(call[r])
            /\ Proceed(r, "getTech", row)
         \/ /\ row # Absent /\ mine
            /\ ~ sets \/ (Role(r) = "dispatcher" /\ ~ AssignsSomeone(call[r]))
            /\ ApplyUpdate(r, row)
  /\ UNCHANGED <<tables, call, me, number, seen, wrote>>

\* Any error of GetTechnician becomes a 400; a fired technician is accepted.
GetTechnician(r) ==
  /\ pc[r] = "getTech"
  /\ \/ call[r].tech \notin Existing /\ Answer(r, "badRequest")
     \/ call[r].tech \in Existing /\ ApplyUpdate(r, draft[r])
  /\ UNCHANGED <<tables, call, me, number, seen, wrote>>

\* The write of the row read by GetOrder, executor and status together.
SaveOrder(r) ==
  /\ pc[r] = "update"
  /\ \/ /\ CanUpdateOrder(draft[r])
        /\ UpdateOrder(number[r], draft[r])
        /\ Committed(r, Proceed(r, "reread", Absent))
     \/ ~ CanUpdateOrder(draft[r]) /\ Refused(r)
  /\ UNCHANGED <<call, me, number, seen>>

-----------------------------------------------------------------------------
(* POST, PUT and DELETE /api/technicians *)

CreateTechnician(r) ==
  /\ pc[r] = "insertTech"
  /\ \/ /\ CanInsertTechnician
        /\ InsertTechnician
        /\ Committed(r, Answer(r, "created"))
     \/ ~ CanInsertTechnician /\ Refused(r)
  /\ UNCHANGED <<call, me, number, seen>>

AmendTechnician(r) ==
  /\ pc[r] = "updateTech"
  /\ \/ /\ call[r].tech \in Existing
        /\ UpdateTechnician(call[r].tech, call[r].status)
        /\ Committed(r, Answer(r, "ok"))
     \/ call[r].tech \notin Existing /\ Answer(r, "notFound") /\ UNCHANGED <<tables, wrote>>
  /\ UNCHANGED <<call, me, number, seen>>

CheckTechnicianSkippedWrong(r) ==
  /\ pc[r] = "checkTech"
  /\ Proceed(r, "count", Absent)
  /\ UNCHANGED <<tables, call, me, number, seen, wrote>>

CheckTechnician(r) ==
  /\ pc[r] = "checkTech"
  /\ \/ call[r].tech \notin Existing /\ Answer(r, "notFound")
     \/ call[r].tech \in Existing /\ Proceed(r, "count", Absent)
  /\ UNCHANGED <<tables, call, me, number, seen, wrote>>

CountOrdersIgnoredWrong(r) ==
  /\ pc[r] = "count"
  /\ Proceed(r, "delete", Absent)
  /\ UNCHANGED <<tables, call, me, number, seen, wrote>>

CountOrders(r) ==
  /\ pc[r] = "count"
  /\ \/ NumbersOf(call[r].tech) # {} /\ Answer(r, "conflict")
     \/ NumbersOf(call[r].tech) = {} /\ Proceed(r, "delete", Absent)
  /\ UNCHANGED <<tables, call, me, number, seen, wrote>>

RemoveTechnician(r) ==
  /\ pc[r] = "delete"
  /\ \/ /\ CanDeleteTechnician(call[r].tech)
        /\ DeleteTechnician(call[r].tech)
        /\ Committed(r, Answer(r, "noContent"))
     \/ ~ CanDeleteTechnician(call[r].tech) /\ Refused(r)
  /\ UNCHANGED <<call, me, number, seen>>

-----------------------------------------------------------------------------
(* Failures *)

\* A statement that fails before it has any effect (one that fails in the
\* middleware is a Reject): 500, but a 400 where UpdateOrder looks for the
\* executor.
Fail(r) ==
  /\ Faults
  /\ pc[r] \in Statements \ {"auth"}
  /\ Answer(r, IF pc[r] = "getTech" THEN "badRequest" ELSE "internal")
  /\ UNCHANGED <<tables, call, me, number, seen, wrote>>

\* The process dies, or the handler panics: no answer, and what the earlier
\* statements committed stays.  A crash is an Abort of every request in flight.
Abort(r) ==
  /\ Faults
  /\ pc[r] \in Statements
  /\ pc' = [pc EXCEPT ![r] = "idle"]
  /\ call' = [call EXCEPT ![r] = NoCall]
  /\ me' = [me EXCEPT ![r] = NoTech]
  /\ number' = [number EXCEPT ![r] = FirstNumber]
  /\ draft' = [draft EXCEPT ![r] = Absent]
  /\ wrote' = [wrote EXCEPT ![r] = FALSE]
  /\ UNCHANGED <<tables, seen, reply>>

-----------------------------------------------------------------------------
\* What the server does for request r by itself.
Step(r) ==
  \/ Reject(r) \/ Admit(r)
  \/ ListOrders(r)
  \/ NextNumber(r) \/ CreateOrder(r) \/ Reread(r)
  \/ GetOrder(r) \/ GetTechnician(r) \/ SaveOrder(r)
  \/ CreateTechnician(r) \/ AmendTechnician(r)
  \/ CheckTechnician(r) \/ CountOrders(r) \/ RemoveTechnician(r)
  \/ Fail(r)

Next == \E r \in Requests : Step(r) \/ Abort(r) \/ \E c \in Calls : Accept(r, c)

Spec == Init /\ [][Next]_vars

\* Go runs every goroutine that can run and the database answers or fails
\* every statement; nothing obliges a client to call, or a process to die.
FairSpec == Spec /\ \A r \in Requests : WF_vars(Step(r))

-----------------------------------------------------------------------------
(* Properties *)

TypeOK ==
  /\ StoreTypeOK
  /\ pc \in [Requests -> Labels]
  /\ call \in [Requests -> Calls \cup {NoCall}]
  /\ \A r \in Requests : pc[r] # "idle" => call[r] \in Calls
  /\ \A r \in Requests : pc[r] \in Statements => Fits(pc[r], call[r].op)
  /\ me \in [Requests -> TechIds \cup {NoTech}]
  /\ number \in [Requests -> Numbers]
  /\ draft \in [Requests -> Row \cup {Absent}]
  /\ \A r \in Requests : pc[r] \in {"getTech", "update"} => draft[r] \in Row
  /\ seen \in [Requests -> SUBSET Numbers]
  /\ reply \in [Requests -> Replies]
  /\ wrote \in [Requests -> BOOLEAN]

\* A 4xx answer means that nothing was changed: no handler meets a condition
\* it refuses after a statement of it has committed (Update would answer 404
\* if the row were gone by the time it is read back).
RefusalHasNoEffect ==
  \A r \in Requests : reply[r] \in Refusals => ~ wrote[r]

\* Dispatchers who create orders at the same time never get the same order:
\* of two creations that read the same max(number) one fails.
CreatedOrdersDistinct ==
  \A r, s \in Requests :
    r # s /\ reply[r] = "created" /\ reply[s] = "created"
      /\ call[r].op = "createOrder" /\ call[s].op = "createOrder"
    => number[r] # number[s] /\ {number[r], number[s]} \subseteq Placed

\* After a 204 the technician is gone for good: no creation and no update in
\* flight brings the id back, and no order or user names it.
DeletedStaysDeleted ==
  \A r \in Requests :
    reply[r] = "noContent" =>
      /\ call[r].tech \notin Existing
      /\ NumbersOf(call[r].tech) = {}
      /\ \A u \in Users : links[u] # call[r].tech

\* What a montazhnik writes: only the order his request names, only with
\* himself as the executor and the status he asked for, however the order
\* was reassigned between the check of his rights and the write.
Writes(r) == ~ wrote[r] /\ wrote'[r]

MontazhnikActsAsHimself ==
  [][\A r \in Requests :
       Writes(r) /\ Role(r) = "montazhnik" =>
         /\ orders' = [orders EXCEPT ![call[r].number] =
                          [executor |-> me[r], status |-> orders'[call[r].number].status]]
         /\ me[r] # NoTech
         /\ call[r].status \in {orders'[call[r].number].status, Keep}
         /\ UNCHANGED <<technicians, nextTechId, links>>]_vars

HasExecutor(row) ==
  row.status \in {"assigned", "inwork", "done"} => row.executor # NoTech

\* Under the calls the screens send, an order that is assigned, in work or
\* done has an executor, also when stale copies are written back: the
\* statuses and the executor travel in one row.
AssignedHasExecutor == \A n \in Placed : HasExecutor(orders[n])

\* OrderUpdate: a field that is not passed is not changed (order.go:50).  It
\* holds only as long as requests that disturb each other keep apart (Apart).
FieldNotPassedNotChanged ==
  [][\A r \in Requests :
       LET n == call[r].number IN
       Writes(r) /\ call[r].op = "updateOrder" /\ ~ call[r].sets =>
         /\ orders'[n].executor = orders[n].executor
         /\ call[r].status = Keep => orders'[n] = orders[n]]_vars

\* A montazhnik changes only an order that is his at that moment, by the link
\* his account has at that moment.  It holds only as long as requests that
\* disturb each other keep apart (Apart).
OwnOrdersOnly ==
  [][\A r \in Requests :
       Writes(r) /\ Role(r) = "montazhnik" =>
         /\ links[call[r].user] # NoTech
         /\ orders[call[r].number].executor = links[call[r].user]]_vars

\* As long as requests that disturb each other keep apart (Apart) and no
\* statement fails, a 500 means only that the numbers or the ids have run out:
\* every foreign key that a statement could violate was checked before, and
\* answered 400 or 409.
InternalOnlyAtLimits ==
  \A r \in Requests :
    reply[r] = "internal" =>
      \/ call[r].op = "createOrder" /\ Limit - 1 \in Placed
      \/ call[r].op = "createTechnician" /\ nextTechId > LastTechId

\* Every request that arrived is answered, or its connection is gone.
Answered ==
  \A r \in Requests : pc[r] \in Statements ~> pc[r] \in {"idle", "done"}

\* A technician with orders is not deleted but answered 409 (README.md:45,
\* README.md:89), so no foreign key ever has to refuse a deletion.
DeleteConflictIs409 ==
  \A r \in Requests : call[r].op = "deleteTechnician" => reply[r] # "internal"

\* The list answered to a montazhnik holds his own orders and no others
\* (api/oapi.yaml:73).
MontazhnikListsOwn ==
  [][\A r \in Requests :
       pc[r] = "list" /\ Role(r) = "montazhnik" /\ reply'[r] = "ok" =>
         /\ me[r] = NoTech => seen'[r] = {}
         /\ me[r] # NoTech => seen'[r] = NumbersOf(me[r])]_vars
=============================================================================
