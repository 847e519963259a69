----------------------------- MODULE Migrations -----------------------------
(***************************************************************************)
(* The five migrations (Backend/migrations/*.sql) up and down, and a       *)
(* server that applies the missing ones when it starts (embed.go) and may  *)
(* be stopped, or crash, after any of them.  goose runs each in a          *)
(* transaction of its own, so that one is done or not.                     *)
(*                                                                         *)
(* Kept of the tables: who has which order - as a text (executor) up to    *)
(* version 3, as a reference (technician_id) from 4 on -, the technicians' *)
(* names, and the technician the login "ivanov" is linked to.  A column or *)
(* a table that a version has not got holds Nobody, NoTech or no row.      *)
(***************************************************************************)
EXTENDS Integers, FiniteSets

CONSTANTS
  Names,          \* technicians' full names
  Ivanov,         \* the name migration 00005 looks for
  Known,          \* the names migration 00003 lists
  Nobody,         \* a null name, or the absence of a row
  LastOrder,      \* order numbers are 1 .. LastOrder
  LastId,         \* ids of technicians are 1 .. LastId
  Seeded,         \* migration 00002 inserts the orders 1 .. Seeded
  SeedExecutor    \* with these executors

Orders == 1 .. LastOrder
Ids == 1 .. LastId
SeedOrders == 1 .. Seeded
NoTech == 0
Last == 5         \* the last version

ASSUME MigrationAssumption ==
  /\ Nobody \notin Names /\ Known \subseteq Names /\ Ivanov \in Known
  /\ LastOrder \in Nat /\ Seeded \in 0 .. LastOrder
  /\ SeedExecutor \in [SeedOrders -> Names \cup {Nobody}]
  /\ IsFiniteSet(Names) /\ LastId \in Nat /\ Cardinality(Names) <= LastId

VARIABLES
  version,      \* goose_db_version
  phase,        \* of the server
  placed,       \* the numbers of the rows of work_orders
  executor,     \* work_orders.executor
  technician,   \* work_orders.technician_id
  staff,        \* technicians.full_name by id
  nextId,       \* the sequence of technicians.id
  link,         \* users.technician_id of the login "ivanov"
  left          \* history: who had which order when version 5 was left

tables == <<placed, executor, technician, staff, nextId, link>>
vars   == <<version, phase, tables, left>>

Forgotten == [n \in Orders |-> {}]
Existing == {t \in Ids : staff[t] # Nobody}

NameOf(n) ==
  IF version < 4 THEN executor[n]
  ELSE IF technician[n] = NoTech THEN Nobody ELSE staff[technician[n]]

\* A reference to a technician of that name, or null if there is none.
Reference(t, name) ==
  \/ t \in Existing /\ staff[t] = name
  \/ t = NoTech /\ name \notin {staff[i] : i \in Existing}

Init ==
  /\ version = 0 /\ phase = "off"
  /\ placed = {} /\ executor = [n \in Orders |-> Nobody] /\ technician = [n \in Orders |-> NoTech]
  /\ staff = [t \in Ids |-> Nobody] /\ nextId = 1 /\ link = NoTech
  /\ left = Forgotten

-----------------------------------------------------------------------------
(* The migrations, up *)

Up1 == version = 0 /\ UNCHANGED <<tables, left>>

\* The unique index would refuse a number that is in use.
Up2 ==
  /\ version = 1 /\ placed \cap SeedOrders = {}
  /\ placed' = placed \cup SeedOrders
  /\ executor' = [n \in Orders |-> IF n \in SeedOrders THEN SeedExecutor[n] ELSE executor[n]]
  /\ UNCHANGED <<technician, staff, nextId, link, left>>

\* The names in the orders and the known ones, each once, with ids in any order.
EnterNames(S) ==
  /\ \E enter \in [1 .. Cardinality(S) -> S] :
       /\ S = {enter[i] : i \in 1 .. Cardinality(S)}
       /\ staff' = [t \in Ids |-> IF t <= Cardinality(S) THEN enter[t] ELSE Nobody]
  /\ nextId' = Cardinality(S) + 1
  /\ UNCHANGED <<placed, executor, technician, link, left>>

Up3KnownOnlyWrong == version = 2 /\ EnterNames(Known)

Up3 == version = 2 /\ EnterNames(Known \cup ({executor[n] : n \in placed} \ {Nobody}))

\* Of two technicians of one name the update may take either.
Up4 ==
  /\ version = 3
  /\ \E refs \in [Orders -> Ids \cup {NoTech}] :
       /\ \A n \in Orders : Reference(refs[n], executor[n])
       /\ technician' = refs
  /\ executor' = [n \in Orders |-> Nobody]
  /\ UNCHANGED <<placed, staff, nextId, link, left>>

Up5 ==
  /\ version = 4
  /\ \E t \in Ids \cup {NoTech} : Reference(t, Ivanov) /\ link' = t
  /\ UNCHANGED <<placed, executor, technician, staff, nextId, left>>

-----------------------------------------------------------------------------
(* The migrations, down *)

Down1 ==
  /\ version = 1
  /\ placed' = {} /\ executor' = [n \in Orders |-> Nobody]
  /\ left' = Forgotten
  /\ UNCHANGED <<technician, staff, nextId, link>>

\* The seeded numbers, whatever has become of these orders.
Without(S) ==
  /\ placed' = placed \ S
  /\ executor' = [n \in Orders |-> IF n \in S THEN Nobody ELSE executor[n]]
  /\ left' = [n \in Orders |-> IF n \in SeedOrders THEN {} ELSE left[n]]
  /\ UNCHANGED <<technician, staff, nextId, link>>

Down2OneLessWrong == version = 2 /\ Without(SeedOrders \ {1})

Down2 == version = 2 /\ Without(SeedOrders)

Down3 ==
  /\ version = 3
  /\ staff' = [t \in Ids |-> Nobody] /\ nextId' = 1
  /\ UNCHANGED <<placed, executor, technician, link, left>>

Down4KeepsReferenceWrong ==
  /\ version = 4
  /\ executor' = [n \in Orders |-> NameOf(n)]
  /\ UNCHANGED <<placed, technician, staff, nextId, link, left>>

Down4 ==
  /\ version = 4
  /\ executor' = [n \in Orders |-> NameOf(n)]
  /\ technician' = [n \in Orders |-> NoTech]
  /\ UNCHANGED <<placed, staff, nextId, link, left>>

Down5 ==
  /\ version = 5
  /\ link' = NoTech
  /\ left' = [n \in Orders |-> IF n \in placed THEN {NameOf(n)} ELSE {}]
  /\ UNCHANGED <<placed, executor, technician, staff, nextId>>

-----------------------------------------------------------------------------
(* The server *)

Start == phase = "off" /\ phase' = "starting" /\ UNCHANGED <<version, tables, left>>

Up ==
  /\ phase = "starting" /\ version' = version + 1
  /\ Up1 \/ Up2 \/ Up3 \/ Up4 \/ Up5
  /\ UNCHANGED phase

Serve ==
  /\ phase = "starting" /\ version = Last
  /\ phase' = "serving" /\ left' = Forgotten
  /\ UNCHANGED <<version, tables>>

\* Also a crash between two migrations.
Stop == phase # "off" /\ phase' = "off" /\ UNCHANGED <<version, tables, left>>

\* goose down, by hand.
Down ==
  /\ phase = "off" /\ version' = version - 1
  /\ Down1 \/ Down2 \/ Down3 \/ Down4 \/ Down5
  /\ UNCHANGED phase

\* What the requests to a server do to the tables (Store, statement by statement).
CreateOrder ==
  /\ \E n \in Orders \ placed :
       /\ \A k \in placed : k < n
       /\ n = 1 \/ n - 1 \in placed
       /\ placed' = placed \cup {n}
  /\ UNCHANGED <<technician, staff, nextId, link>>

Assign ==
  /\ \E n \in placed, t \in Existing \cup {NoTech} : technician' = [technician EXCEPT ![n] = t]
  /\ UNCHANGED <<placed, staff, nextId, link>>

Hire ==
  /\ nextId <= LastId /\ nextId' = nextId + 1
  /\ \E name \in Names : staff' = [staff EXCEPT ![nextId] = name]
  /\ UNCHANGED <<placed, technician, link>>

Rename ==
  /\ \E t \in Existing, name \in Names : staff' = [staff EXCEPT ![t] = name]
  /\ UNCHANGED <<placed, technician, nextId, link>>

DeleteNoFkWrong ==
  /\ \E t \in Existing :
       /\ staff' = [staff EXCEPT ![t] = Nobody]
       /\ link' = IF link = t THEN NoTech ELSE link
  /\ UNCHANGED <<placed, technician, nextId>>

Delete ==
  /\ \E t \in Existing :
       /\ \A n \in placed : technician[n] # t
       /\ staff' = [staff EXCEPT ![t] = Nobody]
       /\ link' = IF link = t THEN NoTech ELSE link
  /\ UNCHANGED <<placed, technician, nextId>>

Request ==
  /\ phase = "serving"
  /\ CreateOrder \/ Assign \/ Hire \/ Rename \/ Delete
  /\ UNCHANGED <<version, phase, executor, left>>

Next == Start \/ Up \/ Serve \/ Stop \/ Down \/ Request

Spec == Init /\ [][Next]_vars

\* A starting server goes on.
FairSpec == Spec /\ WF_vars(Up \/ Serve)

-----------------------------------------------------------------------------
(* Properties *)

ColumnsTyped ==
  /\ version \in 0 .. Last /\ phase \in {"off", "starting", "serving"}
  /\ placed \subseteq Orders
  /\ executor \in [Orders -> Names \cup {Nobody}]
  /\ technician \in [Orders -> Ids \cup {NoTech}]
  /\ staff \in [Ids -> Names \cup {Nobody}]
  /\ nextId \in 1 .. (LastId + 1) /\ link \in Ids \cup {NoTech}
  /\ left \in [Orders -> SUBSET (Names \cup {Nobody})]

\* What a version has not got yet, or no longer, is empty: each migration down
\* takes away what its way up has added, and 00004 moves the executors over.
Schema ==
  /\ version < 1 => placed = {}
  /\ version < 3 => nextId = 1 /\ \A t \in Ids : staff[t] = Nobody
  /\ version < 4 => \A n \in Orders : technician[n] = NoTech
  /\ version >= 4 => \A n \in Orders : executor[n] = Nobody
  /\ version < 5 => link = NoTech

\* Every column has its type, and is there in the versions that have it.
TypeOK == ColumnsTyped /\ Schema

\* An order keeps its executor, by name, from when version 5 was left until a
\* server serves again, through any migrations down and up and any crash
\* between two of them: 00003 enters the names it finds in the orders, and
\* 00004 looks the names up.  Only the orders 00002 and 00001 take away are
\* lost.
ExecutorsCarriedOver ==
  \A n \in Orders : \A name \in left[n] : n \in placed /\ NameOf(n) = name

\* Whoever begins to serve finds the tables as the store needs them: no order
\* and no login refers to a technician who is not there, and the numbers have
\* no gap, although the seeded orders may have gone and come back under those
\* created since.
ServesSoundTables ==
  phase = "serving" =>
    /\ version = Last
    /\ \A n \in Orders : technician[n] \in Existing \cup {NoTech}
    /\ link \in Existing \cup {NoTech}
    /\ SeedOrders \subseteq placed /\ \A n \in placed, k \in Orders : k < n => k \in placed

\* A start goes through, from whichever version the last stop left behind: no
\* migration refuses what the others left.
StartGoesThrough == phase = "starting" ~> phase # "starting"
=============================================================================
