------------------------------- MODULE Domain -------------------------------
(***************************************************************************)
(* The domain layer (Backend/internal/domain) and the rules of the service *)
(* that need no database: what a work order, a technician and a call are,  *)
(* and what one PATCH does to the copy of a row the handler works on.      *)
(* Names, addresses, phones, dates and comments are left out: no rule      *)
(* reads them.                                                             *)
(***************************************************************************)
EXTENDS Integers

CONSTANTS
  Limit,        \* the first number with more digits than an order number may have (100000)
  Truncated,    \* what lpad(Limit, 5, '0') keeps of Limit's digits (10000)
  LastTechId,   \* the last id the sequence of technicians can give
  Users,        \* ids of the rows of table users
  RoleOf        \* users.role, which no code path changes

ASSUME NumberAssumption ==
  Limit \in Nat /\ Truncated \in 1 .. (Limit - 1) /\ LastTechId \in Nat \ {0}

Roles == {"dispatcher", "montazhnik"}

ASSUME RoleAssumption == RoleOf \in [Users -> Roles]

\* Order numbers are zero-padded texts of one width, so that their order as
\* texts, which max(number) uses, is their order as numbers.
Numbers == 1 .. (Limit - 1)
TechIds == 1 .. LastTechId

NoTech == 0             \* a nil *int64: no executor, no linked technician
Keep   == "keep"        \* a field the request does not carry

Statuses == {"created", "assigned", "inwork", "done", "cancelled"}

\* A row of work_orders, and what stands in its place for a number not in use.
Row    == [executor : TechIds \cup {NoTech}, status : Statuses]
Absent == [executor |-> NoTech, status |-> "absent"]

\* A technician's row, or its absence; "fired" is active = false.
TechStates == {"absent", "active", "fired"}

-----------------------------------------------------------------------------
(***************************************************************************)
(* Calls.  One record type serves every endpoint; a field an endpoint does *)
(* not use has its default.  sets says that a PATCH carries executorId     *)
(* (tech is then the id, or NoTech for null).  status is the new status of *)
(* an order, "bad" for a text that is no status; or the new state of a     *)
(* technician.  valid says that the body passes the checks made before the *)
(* first statement of the handler (JSON, required fields).                 *)
(***************************************************************************)
DispatcherOps == {"createOrder", "createTechnician", "updateTechnician", "deleteTechnician"}
Ops == DispatcherOps \cup {"listOrders", "updateOrder"}

Call ==
  {c \in [op : Ops, user : Users, number : Numbers, sets : BOOLEAN,
          tech : TechIds \cup {NoTech}, status : Statuses \cup TechStates \cup {Keep, "bad"},
          valid : BOOLEAN] :
     /\ c.op = "updateTechnician" => c.status \in {"active", "fired", Keep}
     /\ c.op \in {"updateTechnician", "deleteTechnician"} => c.tech \in TechIds}

Valid(status) == status \in Statuses

-----------------------------------------------------------------------------
(* The operators whose names end in ...Wrong, here and in the modules that *)
(* build on this one, are plausible slips in the code that the operator    *)
(* after them translates; nothing uses them.                               *)

\* A montazhnik linked to technician link may touch a row only if the row
\* names that technician: the first test of UpdateOrder.
MayTouchNilWrong(role, link, row) == role = "montazhnik" => row.executor = link

MayTouch(role, link, row) ==
  role = "montazhnik" => link # NoTech /\ row.executor = link

\* The PATCH names an executor to look for (executorId is not null).
AssignsSomeone(c) == c.sets /\ c.tech # NoTech

\* The explicit status is no status.
StatusRefusedWrong(c) == FALSE

StatusRefused(c) == c.status # Keep /\ ~ Valid(c.status)

\* The row UpdateOrder writes back: the executor first, with the status the
\* assignment implies, then the status asked for explicitly, which wins.
EditedNilClearsWrong(row, c) ==
  [ executor |-> c.tech,
    status   |-> CASE c.status # Keep                    -> c.status
                   [] c.status = Keep /\ c.tech = NoTech -> "created"
                   [] c.status = Keep /\ c.tech # NoTech -> "assigned" ]

Edited(row, c) ==
  [ executor |-> IF c.sets THEN c.tech ELSE row.executor,
    status   |-> CASE c.status # Keep                 -> c.status
                   [] c.status = Keep /\ ~ c.sets     -> row.status
                   [] c.status = Keep /\ c.sets       ->
                        IF c.tech # NoTech THEN "assigned" ELSE "created" ]

\* lpad(text, 5, '0') pads short texts and cuts long ones on the right; the
\* only long text the statement can meet is that of Limit.
LPad(n) == IF n < Limit THEN n ELSE Truncated
=============================================================================
