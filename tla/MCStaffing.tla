----------------------------- MODULE MCStaffing -----------------------------
(***************************************************************************)
(* A small instance of Staffing for TLC: one order, which the technician   *)
(* the company starts with has, and an id for one more technician.         *)
(***************************************************************************)
EXTENDS Staffing, TLC

CONSTANTS d, ivanov, petrov

MCUsers   == {d}
MCRoleOf  == d :> "dispatcher"
MCLinked  == d :> 0
MCSeeds   == 1 :> [executor |-> 1, status |-> "assigned"]
MCStaff   == {1}
MCNames   == {ivanov, petrov}
MCFirstName == [t \in TechIds |-> ivanov]
OneSlot   == {1}
=============================================================================
