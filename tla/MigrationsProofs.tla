-------------------------- MODULE MigrationsProofs ---------------------------
(***************************************************************************)
(* Proofs about Migrations for every number of orders, seeded orders,      *)
(* names and ids.                                                          *)
(***************************************************************************)
EXTENDS Migrations, FiniteSetTheorems, TLAPS

USE MigrationAssumption DEF Orders, Ids, SeedOrders, NoTech, Last

-----------------------------------------------------------------------------
(* Types *)

\* The names 00003 finds are finitely many, and there is an id for each.
LEMMA RoomForNames ==
  ASSUME NEW S \in SUBSET Names
  PROVE  Cardinality(S) \in Nat /\ Cardinality(S) <= LastId
<1>1. IsFiniteSet(S) /\ Cardinality(S) <= Cardinality(Names)
  BY FS_Subset
<1>2. Cardinality(S) \in Nat /\ Cardinality(Names) \in Nat
  BY <1>1, FS_CardinalityType
<1> QED
  BY <1>1, <1>2

\* What 00003 enters: each of the names, and nothing else.
LEMMA NamesEntered ==
  ASSUME NEW S \in SUBSET Names, EnterNames(S)
  PROVE  /\ staff' \in [Ids -> Names \cup {Nobody}]
         /\ nextId' \in 1 .. (LastId + 1)
         /\ \A name \in S : \E t \in Ids : staff'[t] = name
<1>1. Cardinality(S) \in Nat /\ Cardinality(S) <= LastId
  BY RoomForNames
<1>2. PICK enter \in [1 .. Cardinality(S) -> S] :
        /\ S = {enter[i] : i \in 1 .. Cardinality(S)}
        /\ staff' = [t \in Ids |-> IF t <= Cardinality(S) THEN enter[t] ELSE Nobody]
  BY DEF EnterNames
<1>3. ASSUME NEW t \in Ids
      PROVE  (IF t <= Cardinality(S) THEN enter[t] ELSE Nobody) \in Names \cup {Nobody}
  BY <1>1, <1>2
<1>4. staff' \in [Ids -> Names \cup {Nobody}]
  BY <1>2, <1>3
<1>5. ASSUME NEW name \in S
      PROVE  \E t \in Ids : staff'[t] = name
  <2>1. PICK i \in 1 .. Cardinality(S) : name = enter[i]
    BY <1>2
  <2>2. i \in Ids /\ staff'[i] = name
    BY <1>1, <1>2, <2>1
  <2> QED
    BY <2>2
<1>6. nextId' \in 1 .. (LastId + 1)
  BY <1>1 DEF EnterNames
<1> QED
  BY <1>4, <1>5, <1>6

\* An order's executor has a name or is nobody.
LEMMA NameTyped ==
  ASSUME ColumnsTyped, NEW n \in Orders
  PROVE  NameOf(n) \in Names \cup {Nobody}
BY DEF ColumnsTyped, NameOf

\* The names 00003 is to enter are names.
LEMMA NamesFound ==
  ColumnsTyped => Known \cup ({executor[n] : n \in placed} \ {Nobody}) \subseteq Names
BY DEF ColumnsTyped

LEMMA TypeInit == Init => ColumnsTyped
BY DEF Init, ColumnsTyped, Forgotten

LEMMA TypeUp ==
  ASSUME ColumnsTyped, Up
  PROVE  ColumnsTyped'
<1>1. version' \in 0 .. Last /\ phase' = phase
  BY DEF Up, Up1, Up2, Up3, Up4, Up5, ColumnsTyped
<1>2. CASE Up1
  BY <1>1, <1>2 DEF Up1, ColumnsTyped, tables
<1>3. CASE Up2
  BY <1>1, <1>3 DEF Up2, ColumnsTyped
<1>4. CASE Up3
  <2>1. staff' \in [Ids -> Names \cup {Nobody}] /\ nextId' \in 1 .. (LastId + 1)
    BY <1>4, NamesFound, NamesEntered DEF Up3
  <2> QED
    BY <1>1, <1>4, <2>1 DEF Up3, EnterNames, ColumnsTyped
<1>5. CASE Up4
  BY <1>1, <1>5 DEF Up4, ColumnsTyped
<1>6. CASE Up5
  BY <1>1, <1>6 DEF Up5, ColumnsTyped
<1> QED
  BY <1>2, <1>3, <1>4, <1>5, <1>6 DEF Up

LEMMA TypeDown ==
  ASSUME ColumnsTyped, Down
  PROVE  ColumnsTyped'
<1>1. version' \in 0 .. Last /\ phase' = phase
  BY DEF Down, Down1, Down2, Down3, Down4, Down5, ColumnsTyped
<1>2. CASE Down1
  BY <1>1, <1>2 DEF Down1, ColumnsTyped, Forgotten
<1>3. CASE Down2
  BY <1>1, <1>3 DEF Down2, Without, ColumnsTyped
<1>4. CASE Down3
  BY <1>1, <1>4 DEF Down3, ColumnsTyped
<1>5. CASE Down4
  BY <1>1, <1>5, NameTyped DEF Down4, ColumnsTyped
<1>6. CASE Down5
  <2>1. \A n \in Orders : (IF n \in placed THEN {NameOf(n)} ELSE {}) \in SUBSET (Names \cup {Nobody})
    BY NameTyped
  <2> QED
    BY <1>1, <1>6, <2>1 DEF Down5, ColumnsTyped
<1> QED
  BY <1>2, <1>3, <1>4, <1>5, <1>6 DEF Down

LEMMA TypeRequest ==
  ASSUME ColumnsTyped, Request
  PROVE  ColumnsTyped'
<1>1. UNCHANGED <<version, phase, executor, left>>
  BY DEF Request
<1>2. CASE CreateOrder
  BY <1>1, <1>2 DEF CreateOrder, ColumnsTyped
<1>3. CASE Assign
  BY <1>1, <1>3 DEF Assign, ColumnsTyped, Existing
<1>4. CASE Hire
  BY <1>1, <1>4 DEF Hire, ColumnsTyped
<1>5. CASE Rename
  BY <1>1, <1>5 DEF Rename, ColumnsTyped
<1>6. CASE Delete
  BY <1>1, <1>6 DEF Delete, ColumnsTyped, Existing
<1> QED
  BY <1>2, <1>3, <1>4, <1>5, <1>6 DEF Request

LEMMA TypeStep == ColumnsTyped /\ [Next]_vars => ColumnsTyped'
<1> SUFFICES ASSUME ColumnsTyped, [Next]_vars PROVE ColumnsTyped'
  OBVIOUS
<1>1. CASE Start
  BY <1>1 DEF Start, ColumnsTyped, tables
<1>2. CASE Serve
  BY <1>2 DEF Serve, ColumnsTyped, tables, Forgotten
<1>3. CASE Stop
  BY <1>3 DEF Stop, ColumnsTyped, tables
<1>4. CASE UNCHANGED vars
  BY <1>4 DEF vars, tables, ColumnsTyped
<1> QED
  BY <1>1, <1>2, <1>3, <1>4, TypeUp, TypeDown, TypeRequest DEF Next

-----------------------------------------------------------------------------
(* The inductive invariant *)

\* Only a server at the last version serves, and nothing is left over then.
Serving == phase = "serving" => version = Last /\ left = Forgotten

\* An order that is not there has nobody.
BlankRows == \A n \in Orders \ placed : executor[n] = Nobody /\ technician[n] = NoTech

\* Version 3 knows every name in the orders: what 00004 looks for is there.
NamesKnown ==
  version = 3 => \A n \in placed : executor[n] # Nobody => \E t \in Ids : staff[t] = executor[n]

\* The foreign keys of 00004 and 00005.
References ==
  /\ version >= 4 => \A n \in Orders : technician[n] \in Existing \cup {NoTech}
  /\ version >= 5 => link \in Existing \cup {NoTech}

\* Before 00002 the numbers have a gap where its orders belong, and no other.
Numbering ==
  /\ version < 2 => placed \cap SeedOrders = {}
  /\ version >= 2 => SeedOrders \subseteq placed
  /\ \A n \in placed, k \in Orders : k < n => k \in placed \cup SeedOrders

Inv == ColumnsTyped /\ Schema /\ Serving /\ BlankRows /\ NamesKnown /\ References /\ Numbering

LEMMA InvInit == Init => Inv
BY TypeInit DEF Init, Inv, Schema, Serving, BlankRows, NamesKnown, References, Numbering

\* What a version has not got stays empty.
LEMMA SchemaStep ==
  ASSUME ColumnsTyped, Schema, Serving, [Next]_vars
  PROVE  Schema'
<1>1. version \in 0 .. Last
  BY DEF ColumnsTyped
<1>2. CASE Up
  <2>1. version' = version + 1
    BY <1>2 DEF Up
  <2> QED
    BY <1>1, <1>2, <2>1 DEF Up, Up1, Up2, Up3, Up4, Up5, EnterNames, tables, Schema
<1>3. CASE Down
  <2>1. version' = version - 1
    BY <1>3 DEF Down
  <2> QED
    BY <1>1, <1>3, <2>1 DEF Down, Down1, Down2, Down3, Down4, Down5, Without, Schema
<1>4. CASE Request
  BY <1>4 DEF Request, Serving, Schema
<1>5. CASE UNCHANGED <<version, tables>>
  BY <1>5 DEF tables, Schema
<1> QED
  BY <1>2, <1>3, <1>4, <1>5 DEF Next, Start, Serve, Stop, vars

LEMMA InvUp ==
  ASSUME Inv, Up
  PROVE  Serving' /\ BlankRows' /\ NamesKnown' /\ References' /\ Numbering'
<1> USE DEF Inv
<1>1. version \in 0 .. Last /\ version' = version + 1 /\ phase' = phase /\ phase = "starting"
  BY DEF Up, ColumnsTyped
<1>2. Serving'
  BY <1>1 DEF Serving
<1>3. CASE Up1
  BY <1>1, <1>2, <1>3 DEF Up1, tables, BlankRows, NamesKnown, References, Numbering
<1>4. CASE Up2
  <2>1. version = 1 /\ version' = 2
    BY <1>1, <1>4 DEF Up2
  <2>2. placed' = placed \cup SeedOrders /\ technician' = technician
    BY <1>4 DEF Up2
  <2>3. Numbering'
    BY <2>1, <2>2 DEF Numbering
  <2>4. BlankRows'
    BY <2>2, <1>4 DEF Up2, BlankRows, ColumnsTyped
  <2> QED
    BY <1>2, <2>1, <2>2, <2>3, <2>4 DEF NamesKnown, References
<1>5. CASE Up3
  <2> DEFINE S == Known \cup ({executor[n] : n \in placed} \ {Nobody})
  <2>1. version = 2 /\ version' = 3 /\ EnterNames(S)
    BY <1>1, <1>5 DEF Up3
  <2>2. UNCHANGED <<placed, executor, technician>>
    BY <2>1 DEF EnterNames
  <2>3. \A name \in S : \E t \in Ids : staff'[t] = name
    BY <2>1, NamesFound, NamesEntered
  <2>4. NamesKnown'
    BY <2>2, <2>3 DEF NamesKnown
  <2> QED
    BY <1>2, <2>1, <2>2, <2>4 DEF BlankRows, References, Numbering
<1>6. CASE Up4
  <2>1. version = 3 /\ version' = 4 /\ UNCHANGED <<placed, staff>>
    BY <1>1, <1>6 DEF Up4
  <2>2. executor' = [n \in Orders |-> Nobody]
    BY <1>6 DEF Up4
  <2>3. \A n \in Orders : Reference(technician'[n], executor[n])
    BY <1>6 DEF Up4
  <2>4. References'
    BY <2>1, <2>3 DEF References, Reference, Existing
  <2>5. BlankRows'
    BY <2>1, <2>2, <2>3 DEF BlankRows, Reference, Existing
  <2> QED
    BY <1>2, <2>1, <2>4, <2>5 DEF NamesKnown, Numbering
<1>7. CASE Up5
  <2>1. version = 4 /\ version' = 5 /\ UNCHANGED <<placed, executor, technician, staff>>
    BY <1>1, <1>7 DEF Up5
  <2>2. References'
    BY <1>7, <2>1 DEF Up5, References, Reference, Existing
  <2> QED
    BY <1>2, <2>1, <2>2 DEF BlankRows, NamesKnown, Numbering
<1> QED
  BY <1>3, <1>4, <1>5, <1>6, <1>7 DEF Up

LEMMA InvDown ==
  ASSUME Inv, Down
  PROVE  Serving' /\ BlankRows' /\ NamesKnown' /\ References' /\ Numbering'
<1> USE DEF Inv
<1>1. version \in 0 .. Last /\ version' = version - 1 /\ phase' = "off"
  BY DEF Down, ColumnsTyped
<1>2. Serving'
  BY <1>1 DEF Serving
<1>3. CASE Down1
  <2>1. version = 1 /\ version' = 0 /\ UNCHANGED technician
    BY <1>1, <1>3 DEF Down1
  <2>2. BlankRows'
    BY <1>3, <2>1 DEF Down1, BlankRows, Schema
  <2> QED
    BY <1>2, <1>3, <2>1, <2>2 DEF Down1, NamesKnown, References, Numbering
<1>4. CASE Down2
  <2>1. version = 2 /\ version' = 1 /\ placed' = placed \ SeedOrders /\ UNCHANGED technician
    BY <1>1, <1>4 DEF Down2, Without
  <2>2. Numbering'
    BY <2>1 DEF Numbering
  <2>3. BlankRows'
    BY <1>4, <2>1 DEF Down2, Without, BlankRows, Schema
  <2> QED
    BY <1>2, <2>1, <2>2, <2>3 DEF NamesKnown, References
<1>5. CASE Down3
  BY <1>1, <1>2, <1>5 DEF Down3, BlankRows, NamesKnown, References, Numbering
<1>6. CASE Down4
  <2>1. version = 4 /\ version' = 3 /\ UNCHANGED <<placed, staff>>
    BY <1>1, <1>6 DEF Down4
  <2>2. \A n \in Orders : executor'[n] = NameOf(n) /\ technician'[n] = NoTech
    BY <1>6 DEF Down4
  <2>3. \A n \in Orders : technician[n] \in Existing \cup {NoTech}
    BY <2>1 DEF References
  <2>4. NamesKnown'
    <3>1. ASSUME NEW n \in placed, NameOf(n) # Nobody
          PROVE  technician[n] \in Ids /\ staff[technician[n]] = NameOf(n)
      BY <2>1, <2>3, <3>1 DEF NameOf, Existing, ColumnsTyped
    <3>2. ASSUME NEW n \in placed, executor'[n] # Nobody
          PROVE  \E t \in Ids : staff'[t] = executor'[n]
      BY <2>1, <2>2, <3>1, <3>2 DEF ColumnsTyped
    <3> QED
      BY <2>1, <3>2 DEF NamesKnown
  <2>5. BlankRows'
    BY <2>1, <2>2 DEF BlankRows, NameOf, ColumnsTyped
  <2> QED
    BY <1>2, <2>1, <2>2, <2>4, <2>5 DEF References, Numbering
<1>7. CASE Down5
  <2>1. version = 5 /\ version' = 4 /\ UNCHANGED <<placed, executor, technician, staff>>
    BY <1>1, <1>7 DEF Down5
  <2> QED
    BY <1>2, <2>1 DEF BlankRows, NamesKnown, References, Numbering, Existing
<1> QED
  BY <1>3, <1>4, <1>5, <1>6, <1>7 DEF Down

LEMMA InvRequest ==
  ASSUME Inv, Request
  PROVE  Serving' /\ BlankRows' /\ NamesKnown' /\ References' /\ Numbering'
<1> USE DEF Inv
<1>1. phase = "serving" /\ version = 5 /\ UNCHANGED <<version, phase, executor, left>>
  BY DEF Request, Serving
<1>2. Serving' /\ NamesKnown'
  BY <1>1 DEF Serving, NamesKnown, Forgotten
<1>3. CASE CreateOrder
  <2>1. PICK n \in Orders \ placed :
          /\ \A k \in placed : k < n
          /\ n = 1 \/ n - 1 \in placed
          /\ placed' = placed \cup {n}
    BY <1>3 DEF CreateOrder
  <2>2. UNCHANGED <<technician, staff, link>>
    BY <1>3 DEF CreateOrder
  <2>3. \A k \in Orders : k < n => k \in placed
    <3>1. ASSUME NEW k \in Orders, k < n PROVE k \in placed
      <4>1. SeedOrders \subseteq placed /\ n \in Nat /\ n > 1
        BY <1>1, <3>1 DEF Numbering
      <4>2. n - 1 \in placed /\ (k < n - 1 \/ k = n - 1)
        BY <2>1, <3>1, <4>1
      <4> QED
        BY <3>1, <4>1, <4>2 DEF Numbering
    <3> QED
      BY <3>1
  <2>4. Numbering'
    BY <1>1, <2>1, <2>3 DEF Numbering, ColumnsTyped
  <2> QED
    BY <1>1, <1>2, <2>1, <2>2, <2>4 DEF BlankRows, References, Existing
<1>4. CASE Assign
  BY <1>1, <1>2, <1>4 DEF Assign, ColumnsTyped, BlankRows, References, Numbering, Existing
<1>5. CASE Hire
  <2>1. \A t \in Existing : t \in Existing'
    BY <1>5 DEF Hire, Existing, ColumnsTyped
  <2> QED
    BY <1>1, <1>2, <1>5, <2>1 DEF Hire, BlankRows, References, Numbering
<1>6. CASE Rename
  <2>1. \A t \in Existing : t \in Existing'
    BY <1>6 DEF Rename, Existing, ColumnsTyped
  <2> QED
    BY <1>1, <1>2, <1>6, <2>1 DEF Rename, BlankRows, References, Numbering
<1>7. CASE Delete
  <2>1. PICK t \in Existing :
          /\ \A n \in placed : technician[n] # t
          /\ staff' = [staff EXCEPT ![t] = Nobody]
          /\ link' = IF link = t THEN NoTech ELSE link
    BY <1>7 DEF Delete
  <2>2. \A u \in Existing \ {t} : u \in Existing'
    BY <2>1 DEF Existing, ColumnsTyped
  <2>3. UNCHANGED <<placed, technician>>
    BY <1>7 DEF Delete
  <2>4. \A n \in Orders : technician[n] # t
    BY <2>1 DEF BlankRows, Existing
  <2>5. References'
    BY <1>1, <2>1, <2>2, <2>3, <2>4 DEF References
  <2> QED
    BY <1>1, <1>2, <2>3, <2>5 DEF BlankRows, Numbering
<1> QED
  BY <1>3, <1>4, <1>5, <1>6, <1>7 DEF Request

LEMMA InvStep == Inv /\ [Next]_vars => Inv'
<1> SUFFICES ASSUME Inv, [Next]_vars PROVE Inv'
  OBVIOUS
<1> USE DEF Inv
<1>1. ColumnsTyped' /\ Schema'
  BY TypeStep, SchemaStep
<1>2. CASE Up
  BY <1>1, <1>2, InvUp
<1>3. CASE Down
  BY <1>1, <1>3, InvDown
<1>4. CASE Request
  BY <1>1, <1>4, InvRequest
<1>5. ASSUME UNCHANGED <<version, tables>>, Serving'
      PROVE  Inv'
  BY <1>1, <1>5 DEF tables, BlankRows, NamesKnown, References, Numbering, Existing
<1>6. CASE Start
  BY <1>5, <1>6 DEF Start, Serving
<1>7. CASE Serve
  BY <1>5, <1>7 DEF Serve, Serving, Forgotten
<1>8. CASE Stop
  BY <1>5, <1>8 DEF Stop, Serving
<1>9. CASE UNCHANGED vars
  BY <1>5, <1>9 DEF vars, Serving, Forgotten
<1> QED
  BY <1>2, <1>3, <1>4, <1>6, <1>7, <1>8, <1>9 DEF Next

LEMMA InvAlways == Spec => []Inv
BY InvInit, InvStep, PTL DEF Spec

\* Every column keeps its type and holds nothing in the versions that have not
\* got it, whatever the order of migrations, crashes and requests (TypeOK).
THEOREM TypeCorrect == Spec => []TypeOK
<1>1. Inv => TypeOK
  BY DEF Inv, TypeOK
<1> QED
  BY <1>1, InvAlways, PTL

\* Whoever serves finds sound tables, after any history of migrations up and
\* down, crashes and requests (ServesSoundTables).
THEOREM ServersFindSoundTables == Spec => []ServesSoundTables
<1>1. Inv => ServesSoundTables
  BY DEF Inv, ColumnsTyped, Serving, References, Numbering, ServesSoundTables
<1> QED
  BY <1>1, InvAlways, PTL

-----------------------------------------------------------------------------
(* Executors *)

\* A migration up leaves each order its executor, by name.
LEMMA UpKeepsNames ==
  ASSUME Inv, Up, NEW n \in placed
  PROVE  n \in placed' /\ (NameOf(n)' = NameOf(n) \/ (version = 1 /\ n \in SeedOrders))
<1> USE DEF Inv
<1>1. version \in 0 .. Last /\ version' = version + 1
  BY DEF Up, ColumnsTyped
<1>2. n \in Orders
  BY DEF ColumnsTyped
<1>3. CASE Up1
  BY <1>1, <1>3 DEF Up1, tables, NameOf
<1>4. CASE Up2
  BY <1>1, <1>2, <1>4 DEF Up2, NameOf, ColumnsTyped
<1>5. CASE Up3
  BY <1>1, <1>5 DEF Up3, EnterNames, NameOf
<1>6. CASE Up4
  <2>1. version = 3 /\ version' = 4 /\ UNCHANGED <<placed, staff>>
    BY <1>1, <1>6 DEF Up4
  <2>2. Reference(technician'[n], executor[n])
    BY <1>2, <1>6 DEF Up4
  <2>3. CASE technician'[n] \in Existing /\ staff[technician'[n]] = executor[n]
    BY <2>1, <2>3 DEF NameOf, Existing
  <2>4. CASE technician'[n] = NoTech /\ executor[n] \notin {staff[i] : i \in Existing}
    <3>1. executor[n] = Nobody
      BY <2>1, <2>4, <1>2 DEF NamesKnown, Existing, ColumnsTyped
    <3> QED
      BY <2>1, <2>4, <3>1 DEF NameOf
  <2> QED
    BY <2>2, <2>3, <2>4 DEF Reference
<1>7. CASE Up5
  BY <1>1, <1>7 DEF Up5, NameOf
<1> QED
  BY <1>3, <1>4, <1>5, <1>6, <1>7 DEF Up

\* So does a migration down, unless it takes the order away.
LEMMA DownKeepsNames ==
  ASSUME Inv, Down, NEW n \in placed, version # 1, version = 2 => n \notin SeedOrders
  PROVE  n \in placed' /\ NameOf(n)' = NameOf(n)
<1> USE DEF Inv
<1>1. version \in 0 .. Last /\ version' = version - 1 /\ n \in Orders
  BY DEF Down, ColumnsTyped
<1>2. CASE Down2
  BY <1>1, <1>2 DEF Down2, Without, NameOf
<1>3. CASE Down3
  BY <1>1, <1>3 DEF Down3, NameOf
<1>4. CASE Down4
  BY <1>1, <1>4 DEF Down4, NameOf
<1>5. CASE Down5
  BY <1>1, <1>5 DEF Down5, NameOf
<1> QED
  BY <1>2, <1>3, <1>4, <1>5 DEF Down, Down1

LEMMA CarryUp == Inv /\ ExecutorsCarriedOver /\ Up => ExecutorsCarriedOver'
<1> SUFFICES ASSUME Inv, ExecutorsCarriedOver, Up, NEW n \in Orders, NEW name \in left'[n]
             PROVE  n \in placed' /\ NameOf(n)' = name
  BY DEF ExecutorsCarriedOver
<1>1. left' = left
  BY DEF Up, Up1, Up2, Up3, Up4, Up5, EnterNames
<1>2. n \in placed /\ NameOf(n) = name
  BY <1>1 DEF ExecutorsCarriedOver
<1>3. ~ (version = 1 /\ n \in SeedOrders)
  BY <1>2 DEF Inv, Numbering
<1> QED
  BY <1>2, <1>3, UpKeepsNames

LEMMA CarryDown == Inv /\ ExecutorsCarriedOver /\ Down => ExecutorsCarriedOver'
<1> SUFFICES ASSUME Inv, ExecutorsCarriedOver, Down, NEW n \in Orders, NEW name \in left'[n]
             PROVE  n \in placed' /\ NameOf(n)' = name
  BY DEF ExecutorsCarriedOver
<1>1. CASE Down5
  <2>1. n \in placed /\ name = NameOf(n) /\ version = 5
    BY <1>1 DEF Down5
  <2> QED
    BY <2>1, DownKeepsNames
<1>2. CASE left'[n] = left[n] /\ (version = 2 => n \notin SeedOrders) /\ version # 1
  BY <1>2, DownKeepsNames DEF ExecutorsCarriedOver
<1>3. CASE Down1
  BY <1>3 DEF Down1, Forgotten
<1>4. CASE Down2
  BY <1>2, <1>4 DEF Down2, Without
<1>5. CASE Down3
  BY <1>2, <1>5 DEF Down3
<1>6. CASE Down4
  BY <1>2, <1>6 DEF Down4
<1> QED
  BY <1>1, <1>3, <1>4, <1>5, <1>6 DEF Down

LEMMA CarryStep == Inv /\ ExecutorsCarriedOver /\ [Next]_vars => ExecutorsCarriedOver'
<1> SUFFICES ASSUME Inv, ExecutorsCarriedOver, [Next]_vars
             PROVE  ExecutorsCarriedOver'
  OBVIOUS
<1>1. ASSUME UNCHANGED <<version, tables>>, left' = left \/ left' = Forgotten
      PROVE  ExecutorsCarriedOver'
  BY <1>1 DEF tables, ExecutorsCarriedOver, NameOf, Forgotten
<1>2. CASE Start
  BY <1>1, <1>2 DEF Start
<1>3. CASE Serve
  BY <1>1, <1>3 DEF Serve
<1>4. CASE Stop
  BY <1>1, <1>4 DEF Stop
<1>5. CASE Request
  BY <1>5 DEF Request, Inv, Serving, Forgotten, ExecutorsCarriedOver
<1>6. CASE UNCHANGED vars
  BY <1>1, <1>6 DEF vars
<1> QED
  BY <1>2, <1>3, <1>4, <1>5, <1>6, CarryUp, CarryDown DEF Next

\* From the moment version 5 is left until a server serves again no migration
\* and no crash costs an order its executor, unless 00002 or 00001 took the
\* order itself away (ExecutorsCarriedOver).
THEOREM ExecutorsAreCarriedOver == Spec => []ExecutorsCarriedOver
<1>1. Init => ExecutorsCarriedOver
  BY DEF Init, Forgotten, ExecutorsCarriedOver
<1> QED
  BY <1>1, CarryStep, InvAlways, PTL DEF Spec
=============================================================================
