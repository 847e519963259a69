----------------------------- MODULE MCSession ------------------------------
(***************************************************************************)
(* Small instances of Session for TLC: a dispatcher and a montazhnik, one  *)
(* technician, and one or two order numbers, one of them in use or none.   *)
(***************************************************************************)
EXTENDS Session, TLC

CONSTANTS d, m

MCUsers   == {d, m}
MCRoleOf  == d :> "dispatcher" @@ m :> "montazhnik"
MCLinkOf  == d :> 0 @@ m :> 1
MCOpening == [n \in Numbers |-> IF n = 1 THEN [executor |-> 0, status |-> "created"] ELSE Absent]
NoOrders  == [n \in Numbers |-> Absent]
TwoSlots  == {1, 2}
NoFailure == {}
BootFails == {"login", "me"}
=============================================================================
