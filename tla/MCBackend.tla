------------------------------ MODULE MCBackend ------------------------------
(***************************************************************************)
(* Small instances of Backend for TLC: order numbers of two binary digits  *)
(* (1 to 3, and lpad cuts the text of 4 to that of 2), one order seeded    *)
(* and assigned, one technician seeded and room for a second, a dispatcher *)
(* and a montazhnik linked to the seeded technician.                       *)
(***************************************************************************)
EXTENDS Apart, TLC

CONSTANTS d, m, r1, r2

MCUsers    == {d, m}
MCRoleOf   == d :> "dispatcher" @@ m :> "montazhnik"
MCSeeds    == [n \in 1 .. 3 |-> IF n = 1 THEN [executor |-> 1, status |-> "assigned"] ELSE Absent]
MCStaff    == {1}
MCLinked   == d :> 0 @@ m :> 1
OneRequest == {r1}
TwoRequests == {r1, r2}
Symmetry   == Permutations({r1, r2})

-----------------------------------------------------------------------------
(* Calls *)

Basic(op, u) == [op |-> op, user |-> u, number |-> 1, sets |-> FALSE, tech |-> NoTech,
                 status |-> Keep, valid |-> TRUE]
Assign(u, n, t)    == [Basic("updateOrder", u) EXCEPT !.number = n, !.sets = TRUE, !.tech = t]
SetStatus(u, n, s) == [Basic("updateOrder", u) EXCEPT !.number = n, !.status = s]
AboutTech(op, t, s) == [Basic(op, d) EXCEPT !.tech = t, !.status = s]

\* What the screens of the front end send: a dispatcher creates, assigns and
\* cancels orders and keeps the technicians; a montazhnik takes an order in
\* work and completes it.
ScreenCalls ==
  {Basic("createOrder", d), Basic("listOrders", m), Assign(d, 1, 1), Assign(d, 1, 2),
   SetStatus(d, 1, "cancelled"), SetStatus(m, 1, "inwork"), SetStatus(m, 1, "done"),
   AboutTech("createTechnician", NoTech, Keep), AboutTech("updateTechnician", 2, "fired"),
   AboutTech("deleteTechnician", 1, Keep), AboutTech("deleteTechnician", 2, Keep)}

ASSUME ScreenAssumption == \A c \in ScreenCalls : FromScreens(c)

\* What any client of the API may send besides.
ApiCalls ==
  {Basic("createOrder", d), Basic("createOrder", m), Assign(d, 1, NoTech), Assign(d, 1, 2),
   Assign(m, 1, 2), Assign(d, 2, 1),
   [Assign(d, 1, NoTech) EXCEPT !.status = "done"], SetStatus(m, 1, "inwork"),
   SetStatus(m, 1, "bad"), [Assign(d, 1, 1) EXCEPT !.status = "bad"],
   [Basic("createOrder", d) EXCEPT !.valid = FALSE],
   Basic("listOrders", m), AboutTech("createTechnician", NoTech, Keep),
   AboutTech("updateTechnician", 1, Keep),
   AboutTech("deleteTechnician", 1, Keep), AboutTech("deleteTechnician", 2, Keep)}

\* Those of them that have a race to lose: two creations, assignments and a
\* cancellation against each other, against a status change and against the
\* deletion of the technician.
RaceCalls ==
  {Basic("createOrder", d), Assign(d, 1, 1), Assign(d, 1, 2), SetStatus(d, 1, "cancelled"),
   SetStatus(m, 1, "done"), AboutTech("createTechnician", NoTech, Keep),
   AboutTech("deleteTechnician", 2, Keep)}

ASSUME RaceAssumption == RaceCalls \subseteq ScreenCalls

\* One call at least to every branch of the handlers, and to every pair that
\* can disturb each other.
ApartCalls ==
  {Basic("createOrder", d), Basic("createOrder", m), Basic("listOrders", m), Assign(d, 1, 2),
   Assign(d, 2, 1), Assign(d, 1, NoTech), SetStatus(d, 1, "cancelled"), SetStatus(m, 1, "inwork"),
   SetStatus(m, 2, "bad"), AboutTech("createTechnician", NoTech, Keep),
   AboutTech("updateTechnician", 2, "fired"), AboutTech("deleteTechnician", 1, Keep),
   AboutTech("deleteTechnician", 2, Keep)}
=============================================================================
