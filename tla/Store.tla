------------------------------- MODULE Store --------------------------------
(***************************************************************************)
(* The PostgreSQL store: its tables, and the SQL statements of             *)
(* Backend/internal/store/postgres as operators.  The store opens no       *)
(* transaction, so that each statement runs and commits by itself; the     *)
(* constraints of the migrations (the unique order number, the foreign     *)
(* keys and what deleting a technician does to them) hold at the end of    *)
(* every statement.                                                        *)
(***************************************************************************)
EXTENDS Domain

CONSTANTS
  FirstNumber,  \* the smallest number the migrations seed (136), 1 if they seed none
  Seeds,        \* the seeded rows of work_orders
  Staff,        \* the seeded ids of technicians
  Linked        \* users.technician_id as seeded

VARIABLES
  orders,       \* table work_orders, by number
  technicians,  \* table technicians, by id
  nextTechId,   \* the sequence behind technicians.id
  links         \* users.technician_id, by user

tables == <<orders, technicians, nextTechId, links>>

ASSUME SeedAssumption ==
  /\ FirstNumber \in 1 .. Truncated
  /\ Seeds \in [Numbers -> Row \cup {Absent}]
  /\ Staff \in {1 .. k : k \in 0 .. LastTechId}
  /\ Linked \in [Users -> Staff \cup {NoTech}]
  /\ \A n \in Numbers : Seeds[n].executor \in Staff \cup {NoTech}
  /\ FirstNumber = 1 \/ Seeds[FirstNumber] # Absent
  /\ \A n \in Numbers : Seeds[n] # Absent =>
        /\ n >= FirstNumber
        /\ \A k \in FirstNumber .. n : Seeds[k] # Absent

Placed == {n \in Numbers : orders[n] # Absent}
Existing == {t \in TechIds : technicians[t] # "absent"}

StoreInit ==
  /\ orders = Seeds
  /\ technicians = [t \in TechIds |-> IF t \in Staff THEN "active" ELSE "absent"]
  /\ nextTechId \in 1 .. (LastTechId + 1)
  /\ \A t \in TechIds : t \in Staff <=> t < nextTechId
  /\ links = Linked

-----------------------------------------------------------------------------
(* work_orders *)

\* coalesce(max(number)::int, 0)
IsMaxNumber(m) ==
  \/ Placed = {} /\ m = 0
  \/ m \in Placed /\ \A n \in Placed : n <= m

\* NextOrderNumber may answer n.
IsNextNumberTwiceWrong(n) == \E m \in 0 .. (Limit - 1) : IsMaxNumber(m) /\ n = LPad(m + 2)

IsNextNumber(n) == \E m \in 0 .. (Limit - 1) : IsMaxNumber(m) /\ n = LPad(m + 1)

\* CreateOrder: the unique index refuses a number that has a row already.
CanInsertOrderNoIndexWrong(n) == n \in Numbers

CanInsertOrder(n) == n \notin Placed

InsertOrder(n) ==
  /\ orders' = [orders EXCEPT ![n] = [executor |-> NoTech, status |-> "created"]]
  /\ UNCHANGED <<technicians, nextTechId, links>>

\* UpdateOrder: work_orders_technician_fk refuses an executor that has no row.
CanUpdateOrderNoFkWrong(row) == row.executor \in TechIds \cup {NoTech}

CanUpdateOrder(row) == row.executor \in Existing \cup {NoTech}

UpdateOrder(n, row) ==
  /\ orders' = [orders EXCEPT ![n] = row]
  /\ UNCHANGED <<technicians, nextTechId, links>>

\* ListOrders and ListOrdersByTechnician.
NumbersOf(t) == {n \in Placed : orders[n].executor = t}

-----------------------------------------------------------------------------
(* technicians *)

\* CreateTechnician: nextval gives an id once, also when the row is deleted.
CanInsertTechnician == nextTechId <= LastTechId

InsertTechnicianFirstFreeWrong ==
  \E t \in TechIds :
    /\ technicians[t] = "absent"
    /\ technicians' = [technicians EXCEPT ![t] = "active"]
    /\ nextTechId' = nextTechId + 1
    /\ UNCHANGED <<orders, links>>

InsertTechnician ==
  /\ technicians' = [technicians EXCEPT ![nextTechId] = "active"]
  /\ nextTechId' = nextTechId + 1
  /\ UNCHANGED <<orders, links>>

\* UpdateTechnician: coalesce($3, active).
UpdateTechnician(t, status) ==
  /\ technicians' = [technicians EXCEPT ![t] = IF status = Keep THEN @ ELSE status]
  /\ UNCHANGED <<orders, nextTechId, links>>

\* DeleteTechnician: work_orders restrict it, users.technician_id is set null.
\* Deleting an id that has no row succeeds and changes nothing.
CanDeleteTechnicianNoFkWrong(t) == t \in TechIds

CanDeleteTechnician(t) == NumbersOf(t) = {}

DeleteTechnician(t) ==
  /\ technicians' = [technicians EXCEPT ![t] = "absent"]
  /\ links' = [u \in Users |-> IF links[u] = t THEN NoTech ELSE links[u]]
  /\ UNCHANGED <<orders, nextTechId>>

-----------------------------------------------------------------------------
StoreTypeOK ==
  /\ orders \in [Numbers -> Row \cup {Absent}]
  /\ technicians \in [TechIds -> TechStates]
  /\ nextTechId \in 1 .. (LastTechId + 1)
  /\ links \in [Users -> TechIds \cup {NoTech}]

\* What an order or a user refers to exists: no order names a technician
\* whose row is gone (work_orders_technician_fk, migration 00004), no user
\* is linked to one (users.technician_id, migration 00005), whatever the
\* order in which assignments and deletions run; and no id is ahead of the
\* sequence, so that an id never names a second person.
StoreIntegrity ==
  /\ \A n \in Numbers : orders[n].executor \in Existing \cup {NoTech}
  /\ \A u \in Users : links[u] \in Existing \cup {NoTech}
  /\ \A t \in TechIds : t >= nextTechId => technicians[t] = "absent"

\* The numbers of the orders have no gap: a number is in use only if every
\* number from the first seeded one up to it is (NextOrderNumber is
\* max(number) + 1, and the insert may come long after, when other
\* dispatchers' inserts have taken or passed that number).
NumbersAreGapless ==
  \A n \in Placed : n >= FirstNumber /\ \A k \in FirstNumber .. n : k \in Placed

\* The abstract specification: the tables, read as a board of orders and a
\* staff, change only as Registry allows.
Board == INSTANCE Registry WITH
           Numbers <- Numbers, First <- FirstNumber, TechIds <- TechIds,
           Nobody <- NoTech, Statuses <- Statuses,
           board  <- [n \in Placed |-> orders[n]],
           staff  <- [t \in Existing |-> technicians[t]],
           former <- {t \in TechIds : t < nextTechId /\ technicians[t] = "absent"}

ImplementsRegistry == Board!Spec
=============================================================================
