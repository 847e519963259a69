----------------------------- MODULE MCReports ------------------------------
(***************************************************************************)
(* A small instance of Reports for TLC: two orders of the first day, one   *)
(* of them in work, room for a third of the second day, and two technicians.*)
(***************************************************************************)
EXTENDS Reports, TLC

CONSTANTS d

MCUsers   == {d}
MCRoleOf  == d :> "dispatcher"
MCLinked  == d :> 0
MCSeeds   == 1 :> [executor |-> 1, status |-> "inwork"]
             @@ 2 :> [executor |-> 0, status |-> "created"]
             @@ 3 :> Absent
MCStaff   == {1, 2}
MCDateOf  == 1 :> 1 @@ 2 :> 1 @@ 3 :> 2
MCDefault == [from |-> 1, to |-> 2]
MCPeriods == {MCDefault, [from |-> 2, to |-> 2], [from |-> 0, to |-> 2]}
=============================================================================
