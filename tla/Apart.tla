-------------------------------- MODULE Apart --------------------------------
(***************************************************************************)
(* Backend as long as no two requests that can disturb each other overlap. *)
(* The service takes no lock and opens no transaction, so whether its      *)
(* requests look as if each were done at one moment is a question of which *)
(* of them overlap.  Disturbs names the few kinds that matter; all others  *)
(* may run side by side.                                                   *)
(***************************************************************************)
EXTENDS Backend

\* Request r holds something it has read and will act upon.
Working(r) == pc[r] \in Statements \ {"auth", "reread"}

\* Two creations read the same number; two updates write copies of the same
\* row; a deletion takes away the technician that an update assigns, that
\* another deletion has seen, or that a list is to be made for.
Disturbs(c, d) ==
  \/ c.op = "createOrder" /\ d.op = "createOrder"
  \/ c.op = "updateOrder" /\ d.op = "updateOrder" /\ c.number = d.number
  \/ /\ c.op = "deleteTechnician"
     /\ \/ d.op = "deleteTechnician" /\ d.tech = c.tech
        \/ d.op = "updateOrder" /\ AssignsSomeone(d) /\ d.tech = c.tech
        \/ d.op = "listOrders" /\ RoleOf[d.user] = "montazhnik" /\ links[d.user] = c.tech

Apart ==
  \A r, s \in Requests : r # s /\ Working(r) /\ Working(s) => ~ Disturbs(call[r], call[s])

ApartSpec == Init /\ [][Next /\ Apart']_vars

\* Each request is carried out at one moment: that of its write, of the read
\* on which it is refused, of the read that answers it.
StageOf(l) == IF l = "reread" THEN "served" ELSE IF l \in Statements THEN "waiting" ELSE l

Moment == INSTANCE Atomic WITH stage <- [r \in Requests |-> StageOf(pc[r])]

ImplementsAtomic == Moment!Spec
=============================================================================
