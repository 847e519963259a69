------------------------------ MODULE Reports -------------------------------
(***************************************************************************)
(* The report: two statements over the orders (service.go, ReportSummary;  *)
(* sqlc/queries/reports.sql) with no snapshot in common, and the screen    *)
(* that asks for it (App.tsx, ReportsScreen), while others change orders.  *)
(*                                                                         *)
(* A counter is kept as the set of orders it counts; the answer carries    *)
(* the sizes of these sets.  The screen keeps its state only while it is   *)
(* open; an answer that arrives later changes nothing.                     *)
(***************************************************************************)
EXTENDS Store

CONSTANTS
  DateOf,       \* work_orders.date, which nothing changes after the creation
  Periods,      \* what may be asked for
  Default,      \* the period the screen asks for when it opens
  MaxChanges    \* a bound: how often orders change

NoDay == 0      \* an empty date field, or any text that is no date

Period == [from : Nat, to : Nat]

\* An order has an executor from its assignment on, and not before; so do the
\* seeded ones.
Sound(row) ==
  /\ row.status \in {"assigned", "inwork", "done"} => row.executor # NoTech
  /\ row.status = "created" => row.executor = NoTech

ASSUME ReportAssumption ==
  /\ DateOf \in [Numbers -> Nat \ {NoDay}]
  /\ Periods \subseteq Period /\ Default \in Periods
  /\ MaxChanges \in Nat
  /\ \A n \in Numbers : Sound(Seeds[n])

VARIABLES
  open,         \* the screen is open
  report,       \* the report it shows
  loading,      \* the state of the button "apply"
  loads,        \* what it has asked for, by how far the server is with it
  asked,        \* history: the period asked for last
  failed,       \* history: the load answered last failed
  changes       \* how often orders have changed, for the bound

page == <<open, report, loading, loads, asked, failed>>
vars == <<tables, page, changes>>

-----------------------------------------------------------------------------
(* The two statements *)

\* validDate of both ends; nothing asks that from is before to.
ValidPeriod(p) == p.from # NoDay /\ p.to # NoDay

\* between: both ends belong to the period.
Within(p) == {n \in Placed : p.from <= DateOf[n] /\ DateOf[n] <= p.to}

\* OrdersSummaryByPeriod: the orders of each status; all of them are the total.
Summary(p) == [s \in Statuses |-> {n \in Within(p) : orders[n].status = s}]

\* LoadByTechnician: what each technician has, has done and has in work.
LoadOf(his) == [total  |-> his,
                done   |-> {n \in his : orders[n].status = "done"},
                inwork |-> {n \in his : orders[n].status = "inwork"}]

LoadAllDatesWrong(p) == [t \in TechIds |-> LoadOf(NumbersOf(t))]

Load(p) == [t \in TechIds |-> LoadOf(NumbersOf(t) \cap Within(p))]

Summaries == [Statuses -> SUBSET Numbers]
TechLoads == [TechIds -> [total : SUBSET Numbers, done : SUBSET Numbers, inwork : SUBSET Numbers]]

-----------------------------------------------------------------------------
(* The screen *)

NoReport == [phase |-> "none"]

\* A load on its way; moved notes the orders that change between the statements.
Asked(p)   == [period |-> p, phase |-> "asked"]
Refused(p) == [period |-> p, phase |-> "failed"]

\* The dispatcher opens the screen, whose effect asks for the default period.
Open ==
  /\ ~ open
  /\ open' = TRUE /\ report' = NoReport
  /\ loading' = TRUE /\ loads' = {Asked(Default)} /\ asked' = Default
  /\ failed' = FALSE
  /\ UNCHANGED <<tables, changes>>

Leave ==
  /\ open
  /\ open' = FALSE /\ report' = NoReport
  /\ loading' = FALSE /\ loads' = {} /\ asked' = Default
  /\ failed' = FALSE
  /\ UNCHANGED <<tables, changes>>

\* The button is off while a load is on its way; the date fields are not.
ApplyWhileLoadingWrong(p) ==
  /\ open
  /\ loading' = TRUE /\ loads' = loads \cup {Asked(p)} /\ asked' = p
  /\ UNCHANGED <<tables, open, report, failed, changes>>

Apply(p) ==
  /\ open /\ ~ loading
  /\ loading' = TRUE /\ loads' = loads \cup {Asked(p)} /\ asked' = p
  /\ UNCHANGED <<tables, open, report, failed, changes>>

\* An error leaves the old report on the screen; the button comes back either
\* way (finally).
ReceiveNoFinallyWrong(l) ==
  /\ l.phase \in {"answered", "failed"}
  /\ report' = (IF l.phase = "answered" THEN l ELSE report)
  /\ failed' = (l.phase = "failed")
  /\ loading' = (l.phase = "failed") /\ loads' = loads \ {l}
  /\ UNCHANGED <<tables, open, asked, changes>>

ReceiveShowsErrorWrong(l) ==
  /\ l.phase \in {"answered", "failed"}
  /\ report' = l
  /\ failed' = (l.phase = "failed")
  /\ loading' = FALSE /\ loads' = loads \ {l}
  /\ UNCHANGED <<tables, open, asked, changes>>

Receive(l) ==
  /\ l.phase \in {"answered", "failed"}
  /\ report' = (IF l.phase = "answered" THEN l ELSE report)
  /\ failed' = (l.phase = "failed")
  /\ loading' = FALSE /\ loads' = loads \ {l}
  /\ UNCHANGED <<tables, open, asked, changes>>

-----------------------------------------------------------------------------
(* The server *)

Onward(l, new) ==
  /\ loads' = (loads \ {l}) \cup {new}
  /\ UNCHANGED <<tables, open, report, loading, asked, failed, changes>>

OrdersSummary(l) ==
  /\ l.phase = "asked"
  /\ Onward(l, IF ValidPeriod(l.period)
               THEN [period |-> l.period, phase |-> "counted", moved |-> {},
                     summary |-> Summary(l.period)]
               ELSE Refused(l.period))

LoadByTechnician(l) ==
  /\ l.phase = "counted"
  /\ Onward(l, [period |-> l.period, phase |-> "answered", moved |-> l.moved,
                summary |-> l.summary, byTech |-> Load(l.period)])

\* A statement fails, the answer is lost, or the token has expired.
Lose(l) == l.phase # "failed" /\ Onward(l, Refused(l.period))

-----------------------------------------------------------------------------
(* What others do to the orders: what the screens allow.  Their buttons go by *)
(* the copy a page has, which may be any earlier row of the order; the server *)
(* asks only whether a montazhnik's order is still his.                       *)

Changed(n) ==
  /\ changes < MaxChanges /\ changes' = changes + 1
  /\ loads' = {IF l.phase = "counted" THEN [l EXCEPT !.moved = @ \cup {n}] ELSE l : l \in loads}
  /\ UNCHANGED <<open, report, loading, asked, failed>>

\* With what a PATCH carries, as in Call.
Patch(n, tech, status) ==
  /\ UpdateOrder(n, Edited(orders[n], [sets |-> tech # NoTech, tech |-> tech, status |-> status]))
  /\ Changed(n)

AssignOther(n, t) == n \in Placed /\ t \in Existing /\ Patch(n, t, Keep)
CancelOther(n)    == n \in Placed /\ Patch(n, NoTech, "cancelled")
TakeOther(n)      == n \in Placed /\ orders[n].executor # NoTech /\ Patch(n, NoTech, "inwork")
CompleteOther(n)  == n \in Placed /\ orders[n].executor # NoTech /\ Patch(n, NoTech, "done")
CreateOther(n)    == IsNextNumber(n) /\ CanInsertOrder(n) /\ InsertOrder(n) /\ Changed(n)

OthersAct(n) ==
  \/ \E t \in TechIds : AssignOther(n, t)
  \/ CancelOther(n) \/ TakeOther(n) \/ CompleteOther(n) \/ CreateOther(n)

-----------------------------------------------------------------------------
Init ==
  /\ StoreInit
  /\ open = FALSE /\ report = NoReport
  /\ loading = FALSE /\ loads = {} /\ asked = Default
  /\ failed = FALSE /\ changes = 0

Answers == \E l \in loads : OrdersSummary(l) \/ LoadByTechnician(l) \/ Receive(l)

Next ==
  \/ Open \/ Leave
  \/ \E p \in Periods : Apply(p)
  \/ Answers
  \/ \E l \in loads : Lose(l)
  \/ \E n \in Numbers : OthersAct(n)

Spec == Init /\ [][Next]_vars

\* The server runs the next statement, or the connection is gone; the browser
\* runs what waits for an answer.  Nothing is assumed of the users.
FairSpec == Spec /\ WF_vars(Answers)

-----------------------------------------------------------------------------
(* Properties *)

LoadType ==
  [period : Periods, phase : {"asked", "failed"}]
    \cup [period : Periods, phase : {"counted"}, moved : SUBSET Numbers, summary : Summaries]
    \cup [period : Periods, phase : {"answered"}, moved : SUBSET Numbers, summary : Summaries,
          byTech : TechLoads]

TypeOK ==
  /\ StoreTypeOK
  /\ open \in BOOLEAN /\ loading \in BOOLEAN /\ failed \in BOOLEAN
  /\ loads \subseteq LoadType
  /\ report \in {NoReport} \cup {l \in LoadType : l.phase = "answered"}
  /\ asked \in Periods /\ changes \in 0 .. MaxChanges

HalvesAgree(l) ==
  /\ \A t, u \in TechIds : t # u => l.byTech[t].total \cap l.byTech[u].total = {}
  /\ \A n \in Numbers \ l.moved :
       /\ n \in l.summary["done"] <=> \E t \in TechIds : n \in l.byTech[t].done
       /\ n \in l.summary["inwork"] <=> \E t \in TechIds : n \in l.byTech[t].inwork
       /\ \A t \in TechIds : n \in l.byTech[t].total =>
            \E st \in Statuses \ {"created"} : n \in l.summary[st]

\* The two halves of a report differ only by the orders that changed between
\* its two statements: any other order is done (in work) in the totals exactly
\* if it is done (in work) with a technician, and none is with two.  So the sums
\* of the columns are off by no more than the number of these changes.
HalvesDifferByMoved == report # NoReport => HalvesAgree(report)

\* The report on the screen is the one asked for last, unless that failed: an
\* answer does not say for which period it is, and the screen does not check.
ReportIsTheLastAsked ==
  open /\ ~ loading /\ ~ failed => report # NoReport /\ report.period = asked

\* The button comes back, whatever the answer.
ButtonComesBack == loading ~> ~ loading
=============================================================================
