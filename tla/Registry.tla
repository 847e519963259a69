------------------------------ MODULE Registry -------------------------------
(***************************************************************************)
(* What the server promises to everybody who looks at the orders and the   *)
(* technicians, in terms of the service interface alone: no requests, no   *)
(* statements, no failures.  Each action is one indivisible change; there  *)
(* is no other.  The promises a client builds on are in the guards: orders *)
(* are numbered one after another and never disappear, an executor is      *)
(* always somebody who is on the staff, a technician leaves only when no   *)
(* order names him, and who has left does not come back under his old id.  *)
(***************************************************************************)
EXTENDS Integers

CONSTANTS
  Numbers,      \* order numbers
  First,        \* the first of them in use
  TechIds,      \* technicians' ids
  Nobody,       \* no executor
  Statuses      \* statuses of an order

VARIABLES
  board,        \* the orders, a function from the numbers in use
  staff,        \* the technicians, a function from ids to their state
  former        \* the ids of those who left

vars == <<board, staff, former>>

Orders == [executor : DOMAIN staff \cup {Nobody}, status : Statuses]

Init ==
  /\ DOMAIN board \subseteq Numbers
  /\ \A n \in DOMAIN board : board[n] \in Orders
  /\ \A n \in DOMAIN board : n >= First /\ First .. n \subseteq DOMAIN board
  /\ DOMAIN staff \subseteq TechIds
  /\ \A t \in DOMAIN staff : staff[t] = "active"
  /\ former = {}

\* A new order takes the number after the last one and waits for an executor.
Place(n) ==
  /\ n \in Numbers \ DOMAIN board
  /\ n >= First /\ First .. (n - 1) \subseteq DOMAIN board
  /\ board' = [k \in DOMAIN board \cup {n} |->
                 IF k = n THEN [executor |-> Nobody, status |-> "created"] ELSE board[k]]
  /\ UNCHANGED <<staff, former>>

\* An order gets an executor from the staff, or none, and a status.
Edit(n) ==
  /\ n \in DOMAIN board
  /\ \E o \in Orders : board' = [board EXCEPT ![n] = o]
  /\ UNCHANGED <<staff, former>>

Hire(t) ==
  /\ t \in TechIds \ (DOMAIN staff \cup former)
  /\ staff' = [k \in DOMAIN staff \cup {t} |-> IF k = t THEN "active" ELSE staff[k]]
  /\ UNCHANGED <<board, former>>

Amend(t) ==
  /\ t \in DOMAIN staff
  /\ \E s \in {"active", "fired"} : staff' = [staff EXCEPT ![t] = s]
  /\ UNCHANGED <<board, former>>

Leave(t) ==
  /\ t \in DOMAIN staff
  /\ \A n \in DOMAIN board : board[n].executor # t
  /\ staff' = [k \in DOMAIN staff \ {t} |-> staff[k]]
  /\ former' = former \cup {t}
  /\ UNCHANGED board

Next ==
  \/ \E n \in Numbers : Place(n) \/ Edit(n)
  \/ \E t \in TechIds : Hire(t) \/ Amend(t) \/ Leave(t)

Spec == Init /\ [][Next]_vars
=============================================================================
