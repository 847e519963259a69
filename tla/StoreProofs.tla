---------------------------- MODULE StoreProofs -----------------------------
(***************************************************************************)
(* What is proved about the store alone, whoever works with it: the        *)
(* statements keep the tables sound, and each of them is a step of         *)
(* Registry.                                                               *)
(***************************************************************************)
EXTENDS Store, TLAPS

USE NumberAssumption, RoleAssumption, SeedAssumption

(* What a step does to the tables, whoever takes it. *)

TableStep ==
  \/ UNCHANGED tables
  \/ \E n \in Numbers :
       /\ n \notin Placed
       /\ n >= FirstNumber /\ \A k \in FirstNumber .. (n - 1) : k \in Placed
       /\ InsertOrder(n)
  \/ \E n \in Placed, row \in Row : CanUpdateOrder(row) /\ UpdateOrder(n, row)
  \/ CanInsertTechnician /\ InsertTechnician
  \/ \E t \in Existing, s \in {"active", "fired", Keep} : UpdateTechnician(t, s)
  \/ \E t \in TechIds : t < nextTechId /\ CanDeleteTechnician(t) /\ DeleteTechnician(t)

\* The tables' own invariants survive every such step.
LEMMA TableStepSafe ==
  ASSUME StoreTypeOK, StoreIntegrity, NumbersAreGapless, TableStep
  PROVE  StoreIntegrity' /\ NumbersAreGapless'
<1> USE DEF StoreTypeOK, StoreIntegrity, NumbersAreGapless, Placed, Existing
<1>1. CASE UNCHANGED tables
  BY <1>1 DEF tables
<1>2. ASSUME NEW n \in Numbers, n \notin Placed, n >= FirstNumber,
             \A k \in FirstNumber .. (n - 1) : k \in Placed, InsertOrder(n)
      PROVE  StoreIntegrity' /\ NumbersAreGapless'
  <2>1. orders' = [orders EXCEPT ![n] = [executor |-> NoTech, status |-> "created"]]
    BY <1>2 DEF InsertOrder
  <2>2. Placed' = Placed \cup {n}
    BY <2>1 DEF Absent
  <2>3. StoreIntegrity'
    BY <1>2, <2>1 DEF InsertOrder
  <2>4. NumbersAreGapless'
    <3> SUFFICES ASSUME NEW i \in Placed', NEW k \in FirstNumber .. i
                 PROVE  i >= FirstNumber /\ k \in Placed'
      BY <1>2, <2>2
    <3>1. CASE i = n  BY <1>2, <2>2, <3>1 DEF Numbers
    <3>2. CASE i # n  BY <2>2, <3>2
    <3> QED  BY <3>1, <3>2
  <2> QED  BY <2>3, <2>4
<1>3. ASSUME NEW n \in Placed, NEW row \in Row, CanUpdateOrder(row), UpdateOrder(n, row)
      PROVE  StoreIntegrity' /\ NumbersAreGapless'
  BY <1>3 DEF CanUpdateOrder, UpdateOrder, Row, Absent, Statuses
<1>4. CASE CanInsertTechnician /\ InsertTechnician
  BY <1>4 DEF CanInsertTechnician, InsertTechnician, TechIds
<1>5. ASSUME NEW t \in Existing, NEW s \in {"active", "fired", Keep}, UpdateTechnician(t, s)
      PROVE  StoreIntegrity' /\ NumbersAreGapless'
  BY <1>5 DEF UpdateTechnician, TechStates, Keep
<1>6. ASSUME NEW t \in TechIds, t < nextTechId, CanDeleteTechnician(t), DeleteTechnician(t)
      PROVE  StoreIntegrity' /\ NumbersAreGapless'
  <2>1. Existing' = Existing \ {t} /\ UNCHANGED <<orders, nextTechId>>
    BY <1>6 DEF DeleteTechnician, TechStates
  <2>2. \A n \in Numbers : orders[n].executor # t
    BY <1>6 DEF CanDeleteTechnician, NumbersOf, Absent, TechIds, NoTech
  <2>3. \A u \in Users : links'[u] \in Existing' \cup {NoTech}
    BY <1>6, <2>1 DEF DeleteTechnician
  <2>4. \A q \in TechIds : q >= nextTechId' => technicians'[q] = "absent"
    BY <1>6 DEF DeleteTechnician
  <2> QED  BY <2>1, <2>2, <2>3, <2>4
<1>7. QED
  BY <1>1, <1>2, <1>3, <1>4, <1>5, <1>6 DEF TableStep

\* No order disappears and no id comes back.
LEMMA TableStepMonotone ==
  ASSUME StoreTypeOK, TableStep
  PROVE  /\ \A n \in Placed : n \in Placed'
         /\ \A t \in TechIds : t \notin Existing /\ t < nextTechId => t \notin Existing'
         /\ nextTechId <= nextTechId'
<1> USE DEF StoreTypeOK, TableStep, Placed, Existing
<1>1. CASE UNCHANGED technicians /\ UNCHANGED nextTechId
  BY <1>1 DEF tables, InsertOrder, UpdateOrder, Absent, Row, Statuses, InsertTechnician,
              UpdateTechnician, DeleteTechnician
<1>2. CASE InsertTechnician
  BY <1>2 DEF InsertTechnician
<1>3. ASSUME NEW t \in Existing, NEW s \in {"active", "fired", Keep}, UpdateTechnician(t, s)
      PROVE  /\ \A n \in Placed : n \in Placed'
             /\ \A u \in TechIds : u \notin Existing /\ u < nextTechId => u \notin Existing'
             /\ nextTechId <= nextTechId'
  BY <1>3 DEF UpdateTechnician
<1>4. ASSUME NEW t \in TechIds, DeleteTechnician(t)
      PROVE  /\ \A n \in Placed : n \in Placed'
             /\ \A u \in TechIds : u \notin Existing /\ u < nextTechId => u \notin Existing'
             /\ nextTechId <= nextTechId'
  BY <1>4 DEF DeleteTechnician
<1>5. QED
  BY <1>1, <1>2, <1>3, <1>4 DEF tables, InsertOrder, UpdateOrder

-----------------------------------------------------------------------------
(* Sound tables: what the store starts from. *)

StoreSound ==
  /\ StoreTypeOK /\ StoreIntegrity /\ NumbersAreGapless
  /\ FirstNumber = 1 \/ FirstNumber \in Placed

LEMMA StoreSoundInit == StoreInit => StoreSound
<1> SUFFICES ASSUME StoreInit PROVE StoreSound
  OBVIOUS
<1>1. StoreTypeOK
  BY DEF StoreInit, StoreTypeOK, TechStates, TechIds, NoTech
<1>2. StoreIntegrity
  BY <1>1 DEF StoreInit, StoreIntegrity, Existing, StoreTypeOK, TechIds
<1>3. NumbersAreGapless /\ (FirstNumber = 1 \/ FirstNumber \in Placed)
  BY DEF StoreInit, NumbersAreGapless, Placed, Numbers
<1> QED
  BY <1>1, <1>2, <1>3 DEF StoreSound

\* The number after the largest one in use is free, or the numbers have run
\* out; and no number is left out below it.
LEMMA NextNumberFollows ==
  ASSUME StoreSound, NEW n \in Numbers, IsNextNumber(n)
  PROVE  /\ n >= FirstNumber
         /\ \A k \in FirstNumber .. (n - 1) : k \in Placed
         /\ n \notin Placed \/ Limit - 1 \in Placed
<1>1. PICK m \in 0 .. (Limit - 1) : IsMaxNumber(m) /\ n = LPad(m + 1)
  BY DEF IsNextNumber
<1>2. CASE m \notin Placed
  BY <1>1, <1>2 DEF IsMaxNumber, StoreSound, LPad
<1>3. CASE m \in Placed /\ m + 1 < Limit
  BY <1>1, <1>3 DEF IsMaxNumber, StoreSound, NumbersAreGapless, LPad, Placed, Numbers
<1>4. CASE m \in Placed /\ m + 1 = Limit
  BY <1>1, <1>4 DEF StoreSound, NumbersAreGapless, LPad
<1> QED
  BY <1>1, <1>2, <1>3, <1>4

-----------------------------------------------------------------------------
(***************************************************************************)
(* Every statement that changes the tables is one of Registry's actions on *)
(* the board and the staff they stand for.                                 *)
(***************************************************************************)

board  == [n \in Placed |-> orders[n]]
staff  == [t \in Existing |-> technicians[t]]
former == {t \in TechIds : t < nextTechId /\ technicians[t] = "absent"}

LEMMA InitRefines == StoreInit => Board!Init
<1> SUFFICES ASSUME StoreInit PROVE Board!Init
  OBVIOUS
<1>1. StoreSound
  BY StoreSoundInit
<1>2. \A n \in Placed : board[n] \in Row /\ board[n].executor \in Existing \cup {NoTech}
  BY <1>1 DEF board, StoreSound, StoreIntegrity, Placed, StoreTypeOK
<1>3. \A n \in Placed : n >= FirstNumber /\ FirstNumber .. n \subseteq Placed
  BY <1>1 DEF StoreSound, NumbersAreGapless
<1>4. \A t \in Existing : staff[t] = "active"
  BY DEF StoreInit, staff, Existing
<1>5. former = {}
  BY DEF StoreInit, former, TechIds
<1> QED
  BY <1>2, <1>3, <1>4, <1>5 DEF Board!Init, Board!Orders, board, staff, former, Placed, Existing, Row

LEMMA StepRefines ==
  ASSUME StoreTypeOK, StoreIntegrity, TableStep
  PROVE  [Board!Next]_(Board!vars)
<1> USE DEF StoreTypeOK
<1>1. CASE UNCHANGED tables
  BY <1>1 DEF tables, Board!vars, Placed, Existing
<1>2. ASSUME NEW n \in Numbers, n \notin Placed, n >= FirstNumber,
             \A k \in FirstNumber .. (n - 1) : k \in Placed, InsertOrder(n)
      PROVE  Board!Place(n)
  <2>1. Placed' = Placed \cup {n}
    BY <1>2 DEF InsertOrder, Placed, Absent
  <2>2. board' = [k \in Placed \cup {n} |->
                    IF k = n THEN [executor |-> NoTech, status |-> "created"] ELSE board[k]]
    BY <1>2, <2>1 DEF InsertOrder, board, Placed
  <2>3. UNCHANGED <<staff, former>>
    BY <1>2 DEF InsertOrder, staff, former, Existing
  <2> QED  BY <1>2, <2>2, <2>3 DEF Board!Place, board, staff, former
<1>3. ASSUME NEW n \in Placed, NEW row \in Row, CanUpdateOrder(row), UpdateOrder(n, row)
      PROVE  Board!Edit(n)
  <2>1. Placed' = Placed
    BY <1>3 DEF UpdateOrder, Placed, Absent, Row, Statuses
  <2>2. board' = [board EXCEPT ![n] = row]
    BY <1>3, <2>1 DEF UpdateOrder, board, Placed
  <2>3. row \in [executor : Existing \cup {NoTech}, status : Statuses]
    BY <1>3 DEF CanUpdateOrder, Row
  <2>4. UNCHANGED <<staff, former>>
    BY <1>3 DEF UpdateOrder, staff, former, Existing
  <2> QED  BY <1>3, <2>2, <2>3, <2>4 DEF Board!Edit, Board!Orders, board, staff, former
<1>4. ASSUME NEW t \in TechIds, t = nextTechId, InsertTechnician
      PROVE  Board!Hire(t)
  <2>1. t \notin Existing /\ t \notin former
    BY <1>4 DEF TechIds, StoreIntegrity, Existing, former
  <2>2. Existing' = Existing \cup {t}
    BY <1>4, <2>1 DEF InsertTechnician, Existing
  <2>3. staff' = [k \in Existing \cup {t} |-> IF k = t THEN "active" ELSE staff[k]]
    BY <1>4, <2>1, <2>2 DEF InsertTechnician, staff, Existing
  <2>4. UNCHANGED <<board, former>>
    BY <1>4, <2>1 DEF InsertTechnician, board, former, Placed, TechIds
  <2> QED  BY <2>1, <2>3, <2>4 DEF Board!Hire, board, staff, former
<1>5. ASSUME NEW t \in Existing, NEW s \in {"active", "fired", Keep}, UpdateTechnician(t, s)
      PROVE  Board!Amend(t)
  <2> DEFINE new == IF s = Keep THEN technicians[t] ELSE s
  <2>1. new \in {"active", "fired"}
    BY DEF Existing, TechStates
  <2>2. Existing' = Existing
    BY <1>5, <2>1 DEF UpdateTechnician, Existing
  <2>3. staff' = [staff EXCEPT ![t] = new]
    BY <1>5, <2>1, <2>2 DEF UpdateTechnician, staff, Existing
  <2>4. UNCHANGED <<board, former>>
    BY <1>5, <2>1 DEF UpdateTechnician, board, former, Placed, Existing
  <2> QED  BY <2>1, <2>3, <2>4 DEF Board!Amend, board, staff, former
<1>6. ASSUME NEW t \in TechIds, t < nextTechId, CanDeleteTechnician(t), DeleteTechnician(t)
      PROVE  Board!Leave(t) \/ UNCHANGED Board!vars
  <2>1. Existing' = Existing \ {t} /\ UNCHANGED board
    BY <1>6 DEF DeleteTechnician, Existing, board, Placed
  <2>2. CASE t \notin Existing
    <3>1. technicians' = technicians  BY <1>6, <2>2 DEF DeleteTechnician, Existing
    <3> QED  BY <1>6, <2>1, <3>1 DEF DeleteTechnician, Board!vars, board, Existing
  <2>3. CASE t \in Existing
    <3>1. \A n \in Placed : board[n].executor # t
      BY <1>6 DEF CanDeleteTechnician, NumbersOf, board
    <3>2. staff' = [k \in Existing \ {t} |-> staff[k]]
      BY <1>6, <2>1 DEF DeleteTechnician, staff, Existing
    <3>3. former' = former \cup {t}
      BY <1>6 DEF DeleteTechnician, former
    <3> QED  BY <2>1, <2>3, <3>1, <3>2, <3>3 DEF Board!Leave, board, staff, former
  <2> QED  BY <2>2, <2>3
<1>7. CanInsertTechnician => nextTechId \in TechIds
  BY DEF CanInsertTechnician, TechIds
<1> QED
  BY <1>1, <1>2, <1>3, <1>4, <1>5, <1>6, <1>7 DEF TableStep, Board!Next, Placed, Existing
=============================================================================
