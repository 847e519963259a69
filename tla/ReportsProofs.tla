---------------------------- MODULE ReportsProofs ----------------------------
(***************************************************************************)
(* Proofs about Reports for every number of orders, technicians, periods   *)
(* and changes.                                                            *)
(***************************************************************************)
EXTENDS Reports, TLAPS

USE NumberAssumption, SeedAssumption, ReportAssumption

-----------------------------------------------------------------------------
(* Types *)

\* What the orders' statements do to the types of the tables.
LEMMA RowWritten ==
  ASSUME StoreTypeOK, NEW n \in Numbers, NEW row \in Row, UpdateOrder(n, row)
  PROVE  StoreTypeOK' /\ orders' = [orders EXCEPT ![n] = row]
BY DEF StoreTypeOK, UpdateOrder

LEMMA RowInserted ==
  ASSUME StoreTypeOK, NEW n \in Numbers, InsertOrder(n)
  PROVE  /\ StoreTypeOK'
         /\ orders' = [orders EXCEPT ![n] = [executor |-> NoTech, status |-> "created"]]
BY DEF StoreTypeOK, InsertOrder, Row, Statuses

\* A PATCH of the screens writes a row.
LEMMA PatchedRow ==
  ASSUME NEW row \in Row, NEW t \in TechIds \cup {NoTech}, NEW st \in Statuses \cup {Keep}
  PROVE  Edited(row, [sets |-> t # NoTech, tech |-> t, status |-> st]) \in Row
BY DEF Edited, Row, Statuses

\* What may happen to an order while others work.
LEMMA OthersEffect ==
  ASSUME StoreTypeOK, \A n \in Numbers : Sound(orders[n]), NEW n \in Numbers, OthersAct(n)
  PROVE  /\ StoreTypeOK' /\ Changed(n)
         /\ \A k \in Numbers : Sound(orders'[k]) /\ (k # n => orders'[k] = orders[k])
<1>1. \A k \in Placed : orders[k] \in Row
  BY DEF Placed, StoreTypeOK
<1>2. ASSUME NEW t \in TechIds \cup {NoTech}, NEW st \in Statuses \cup {Keep}, n \in Placed,
             Patch(n, t, st),
             Sound(Edited(orders[n], [sets |-> t # NoTech, tech |-> t, status |-> st]))
      PROVE  /\ StoreTypeOK' /\ Changed(n)
             /\ \A k \in Numbers : Sound(orders'[k]) /\ (k # n => orders'[k] = orders[k])
  <2> DEFINE row == Edited(orders[n], [sets |-> t # NoTech, tech |-> t, status |-> st])
  <2>1. row \in Row
    BY <1>1, <1>2, PatchedRow
  <2>2. UpdateOrder(n, row) /\ Changed(n)
    BY <1>2 DEF Patch
  <2>3. StoreTypeOK' /\ orders' = [orders EXCEPT ![n] = row]
    BY <2>1, <2>2, RowWritten
  <2> QED
    BY <1>2, <2>2, <2>3 DEF StoreTypeOK
<1>3. ASSUME NEW t \in TechIds, AssignOther(n, t)
      PROVE  Sound(Edited(orders[n], [sets |-> t # NoTech, tech |-> t, status |-> Keep]))
  BY DEF Edited, Sound, TechIds, NoTech, Keep
<1>4. CASE \E t \in TechIds : AssignOther(n, t)
  BY <1>2, <1>3, <1>4 DEF AssignOther
<1>5. CASE CancelOther(n)
  <2>1. Sound(Edited(orders[n], [sets |-> NoTech # NoTech, tech |-> NoTech, status |-> "cancelled"]))
    BY DEF Edited, Sound, Keep
  <2> QED
    BY <1>2, <1>5, <2>1 DEF CancelOther, Statuses
<1>6. CASE TakeOther(n)
  <2>1. Sound(Edited(orders[n], [sets |-> NoTech # NoTech, tech |-> NoTech, status |-> "inwork"]))
    BY <1>6 DEF TakeOther, Edited, Sound, Keep
  <2> QED
    BY <1>2, <1>6, <2>1 DEF TakeOther, Statuses
<1>7. CASE CompleteOther(n)
  <2>1. Sound(Edited(orders[n], [sets |-> NoTech # NoTech, tech |-> NoTech, status |-> "done"]))
    BY <1>7 DEF CompleteOther, Edited, Sound, Keep
  <2> QED
    BY <1>2, <1>7, <2>1 DEF CompleteOther, Statuses
<1>8. CASE CreateOther(n)
  <2>1. /\ StoreTypeOK'
        /\ orders' = [orders EXCEPT ![n] = [executor |-> NoTech, status |-> "created"]]
    BY <1>8, RowInserted DEF CreateOther
  <2> QED
    BY <1>8, <2>1 DEF CreateOther, StoreTypeOK, Sound
<1> QED
  BY <1>4, <1>5, <1>6, <1>7, <1>8 DEF OthersAct

\* What the two statements answer has its type.
LEMMA SummaryTyped ==
  ASSUME NEW p
  PROVE  Summary(p) \in Summaries
BY DEF Summary, Summaries, Within, Placed

LEMMA LoadTyped ==
  ASSUME NEW p
  PROVE  Load(p) \in TechLoads
BY DEF Load, LoadOf, TechLoads, NumbersOf, Placed

SoundOrders == \A n \in Numbers : Sound(orders[n])

LoadsTyped == \A l \in loads : l \in LoadType

PageTyped ==
  /\ open \in BOOLEAN /\ loading \in BOOLEAN /\ failed \in BOOLEAN
  /\ asked \in Periods /\ changes \in 0 .. MaxChanges
  /\ report = NoReport \/ (report \in LoadType /\ report.phase = "answered")

LEMMA TypesSplit == TypeOK <=> StoreTypeOK /\ LoadsTyped /\ PageTyped
BY DEF TypeOK, LoadsTyped, PageTyped

LEMMA TypesJoin == StoreTypeOK' /\ LoadsTyped' /\ PageTyped' => TypeOK'
BY DEF TypeOK, LoadsTyped, PageTyped

\* A load carries what its phase says.
LEMMA LoadPhases ==
  ASSUME NEW l \in LoadType
  PROVE  /\ l.period \in Periods
         /\ l.phase \in {"asked", "failed", "counted", "answered"}
         /\ l.phase = "counted" =>
              l \in [period : Periods, phase : {"counted"}, moved : SUBSET Numbers, summary : Summaries]
         /\ l.phase = "answered" =>
              l \in [period : Periods, phase : {"answered"}, moved : SUBSET Numbers,
                     summary : Summaries, byTech : TechLoads]
BY DEF LoadType

LEMMA NewLoads ==
  ASSUME NEW p \in Periods
  PROVE  Asked(p) \in LoadType /\ Refused(p) \in LoadType
BY DEF Asked, Refused, LoadType

Typed == TypeOK /\ SoundOrders

LEMMA TypedInit == Init => Typed
<1> SUFFICES ASSUME Init PROVE Typed
  OBVIOUS
<1>1. SoundOrders
  BY DEF Init, StoreInit, SoundOrders
<1>2. StoreTypeOK
  BY DEF Init, StoreInit, StoreTypeOK, TechStates, TechIds, NoTech, Numbers, Row, Absent
<1>3. LoadsTyped
  BY DEF Init, LoadsTyped
<1>4. changes \in 0 .. MaxChanges
  BY DEF Init
<1>5. PageTyped
  BY <1>4 DEF Init, PageTyped
<1> QED
  BY <1>1, <1>2, <1>3, <1>5, TypesSplit DEF Typed

LEMMA OpenTyped ==
  ASSUME Typed, Open \/ Leave \/ \E p \in Periods : Apply(p)
  PROVE  Typed'
<1>1. UNCHANGED tables
  BY DEF Open, Leave, Apply
<1>2. LoadsTyped'
  BY NewLoads, TypesSplit DEF Typed, Open, Leave, Apply, LoadsTyped
<1>3. PageTyped'
  BY TypesSplit DEF Typed, Open, Leave, Apply, PageTyped
<1> QED
  BY <1>1, <1>2, <1>3, TypesSplit, TypesJoin DEF Typed, tables, StoreTypeOK, SoundOrders

LEMMA OnwardTyped ==
  ASSUME Typed, NEW l \in loads, NEW new \in LoadType, Onward(l, new)
  PROVE  Typed'
<1>1. LoadsTyped' /\ PageTyped'
  BY TypesSplit DEF Typed, Onward, LoadsTyped, PageTyped
<1> QED
  BY <1>1, TypesSplit, TypesJoin DEF Typed, Onward, tables, StoreTypeOK, SoundOrders

\* What OrdersSummary and LoadByTechnician make of a load.
CountedFrom(l) == [period |-> l.period, phase |-> "counted", moved |-> {},
                   summary |-> Summary(l.period)]
AnswerFrom(l)  == [period |-> l.period, phase |-> "answered", moved |-> l.moved,
                   summary |-> l.summary, byTech |-> Load(l.period)]

LEMMA NextLoads ==
  ASSUME NEW l \in LoadType
  PROVE  CountedFrom(l) \in LoadType /\ (l.phase = "counted" => AnswerFrom(l) \in LoadType)
<1>1. CountedFrom(l) \in LoadType
  BY SummaryTyped, LoadPhases DEF CountedFrom, LoadType
<1>2. ASSUME l.phase = "counted"
      PROVE  AnswerFrom(l) \in LoadType
  <2>1. l.period \in Periods /\ l.moved \in SUBSET Numbers /\ l.summary \in Summaries
    BY <1>2, LoadPhases
  <2> QED
    BY <2>1, LoadTyped DEF AnswerFrom, LoadType
<1> QED
  BY <1>1, <1>2

LEMMA AnswersTyped ==
  ASSUME Typed, NEW l \in loads, OrdersSummary(l) \/ LoadByTechnician(l) \/ Receive(l) \/ Lose(l)
  PROVE  Typed'
<1>1. l \in LoadType
  BY TypesSplit DEF Typed, LoadsTyped
<1>2. CASE OrdersSummary(l)
  <2>1. CASE ValidPeriod(l.period)
    BY <1>1, <1>2, <2>1, NextLoads, OnwardTyped DEF OrdersSummary, CountedFrom
  <2>2. CASE ~ ValidPeriod(l.period)
    BY <1>1, <1>2, <2>2, LoadPhases, NewLoads, OnwardTyped DEF OrdersSummary
  <2> QED
    BY <2>1, <2>2
<1>3. CASE LoadByTechnician(l)
  BY <1>1, <1>3, NextLoads, OnwardTyped DEF LoadByTechnician, AnswerFrom
<1>4. CASE Lose(l)
  BY <1>1, <1>4, LoadPhases, NewLoads, OnwardTyped DEF Lose
<1>5. CASE Receive(l)
  <2>1. LoadsTyped' /\ PageTyped'
    BY <1>1, <1>5, TypesSplit DEF Typed, Receive, LoadsTyped, PageTyped
  <2> QED
    BY <1>5, <2>1, TypesSplit, TypesJoin DEF Typed, Receive, tables, StoreTypeOK, SoundOrders
<1> QED
  BY <1>2, <1>3, <1>4, <1>5

LEMMA MovedTyped ==
  ASSUME NEW l \in LoadType, l.phase = "counted", NEW n \in Numbers
  PROVE  [l EXCEPT !.moved = @ \cup {n}] \in LoadType
<1>1. l \in [period : Periods, phase : {"counted"}, moved : SUBSET Numbers, summary : Summaries]
  BY LoadPhases
<1>2. [l EXCEPT !.moved = @ \cup {n}]
        \in [period : Periods, phase : {"counted"}, moved : SUBSET Numbers, summary : Summaries]
  BY <1>1
<1> QED
  BY <1>2 DEF LoadType

LEMMA OthersTyped ==
  ASSUME Typed, NEW n \in Numbers, OthersAct(n)
  PROVE  Typed'
<1>1. Changed(n) /\ StoreTypeOK' /\ SoundOrders'
  BY OthersEffect DEF Typed, TypeOK, SoundOrders
<1>2. LoadsTyped'
  BY <1>1, MovedTyped, TypesSplit DEF Typed, Changed, LoadsTyped
<1>3. PageTyped'
  BY <1>1, TypesSplit DEF Typed, Changed, PageTyped
<1> QED
  BY <1>1, <1>2, <1>3, TypesJoin DEF Typed

LEMMA TypedStep == Typed /\ [Next]_vars => Typed'
<1> SUFFICES ASSUME Typed, [Next]_vars PROVE Typed'
  OBVIOUS
<1>1. CASE UNCHANGED vars
  BY <1>1 DEF vars, page, tables, Typed, TypeOK, StoreTypeOK, SoundOrders
<1> QED
  BY <1>1, OpenTyped, AnswersTyped, OthersTyped DEF Next, Answers

\* The types of the tables, the screen and every load (TypeOK).
THEOREM TypeCorrect == Spec => []TypeOK
<1>1. Spec => []Typed
  BY TypedInit, TypedStep, PTL DEF Spec
<1>2. Typed => TypeOK
  BY DEF Typed
<1> QED
  BY <1>1, <1>2, PTL

LEMMA TypedAlways == Spec => []Typed
BY TypedInit, TypedStep, PTL DEF Spec

-----------------------------------------------------------------------------
(* The halves of a report *)

\* What a load has counted still holds of the orders that did not change since.
CountedAgrees(l) ==
  \A n \in Numbers \ l.moved, st \in Statuses :
    n \in l.summary[st] <=> n \in Within(l.period) /\ orders[n].status = st

LoadsAgree ==
  \A l \in loads : /\ l.phase = "counted" => CountedAgrees(l)
                   /\ l.phase = "answered" => HalvesAgree(l)

Halves == LoadsAgree /\ HalvesDifferByMoved

\* Counting agrees with what is counted.
LEMMA CountedNow ==
  ASSUME NEW l \in LoadType
  PROVE  CountedAgrees(CountedFrom(l))
BY DEF CountedAgrees, CountedFrom, Summary

LEMMA LoadOfMembers ==
  ASSUME NEW his, NEW n
  PROVE  /\ n \in LoadOf(his).total <=> n \in his
         /\ n \in LoadOf(his).done <=> n \in his /\ orders[n].status = "done"
         /\ n \in LoadOf(his).inwork <=> n \in his /\ orders[n].status = "inwork"
BY DEF LoadOf

\* An order in work or done has an executor who is a technician, and then it
\* is in his load, and in no other's.
LEMMA LoadOfOrder ==
  ASSUME Typed, NEW p, NEW n \in Numbers
  PROVE  /\ \A t \in TechIds : n \in Load(p)[t].total <=> n \in Within(p) /\ orders[n].executor = t
         /\ \A t \in TechIds : n \in Load(p)[t].done <=>
              n \in Within(p) /\ orders[n].executor = t /\ orders[n].status = "done"
         /\ \A t \in TechIds : n \in Load(p)[t].inwork <=>
              n \in Within(p) /\ orders[n].executor = t /\ orders[n].status = "inwork"
         /\ n \in Within(p) /\ orders[n].status \in {"done", "inwork"} => orders[n].executor \in TechIds
         /\ n \in Within(p) /\ orders[n].executor \in TechIds =>
              orders[n].status \in Statuses \ {"created"}
<1>1. \A t \in TechIds : Load(p)[t] = LoadOf(NumbersOf(t) \cap Within(p))
  BY DEF Load
<1>2. \A k \in Within(p) : k \in Placed
  BY DEF Within
<1>3. n \in Placed => orders[n] \in Row
  BY DEF Typed, TypeOK, StoreTypeOK, Placed
<1>4. n \in Placed => orders[n].executor \in TechIds \cup {NoTech} /\ orders[n].status \in Statuses
  BY <1>3 DEF Row
<1>5. NoTech \notin TechIds
  BY DEF NoTech, TechIds
<1>6. Sound(orders[n])
  BY DEF Typed, SoundOrders
<1>7. n \in Within(p) /\ orders[n].status \in {"done", "inwork"} => orders[n].executor \in TechIds
  BY <1>2, <1>4, <1>6 DEF Sound
<1>8. n \in Within(p) /\ orders[n].executor \in TechIds => orders[n].status \in Statuses \ {"created"}
  BY <1>2, <1>4, <1>5, <1>6 DEF Sound
<1>9. ASSUME NEW t \in TechIds
      PROVE  /\ n \in Load(p)[t].total <=> n \in Within(p) /\ orders[n].executor = t
             /\ n \in Load(p)[t].done <=>
                  n \in Within(p) /\ orders[n].executor = t /\ orders[n].status = "done"
             /\ n \in Load(p)[t].inwork <=>
                  n \in Within(p) /\ orders[n].executor = t /\ orders[n].status = "inwork"
  <2> DEFINE his == NumbersOf(t) \cap Within(p)
  <2>1. Load(p)[t] = LoadOf(his)
    BY <1>1
  <2>2. /\ n \in LoadOf(his).total <=> n \in his
        /\ n \in LoadOf(his).done <=> n \in his /\ orders[n].status = "done"
        /\ n \in LoadOf(his).inwork <=> n \in his /\ orders[n].status = "inwork"
    BY LoadOfMembers
  <2>3. n \in his <=> n \in Within(p) /\ orders[n].executor = t
    BY <1>2 DEF NumbersOf
  <2> HIDE DEF his
  <2> QED
    BY <2>1, <2>2, <2>3
<1> QED
  BY <1>7, <1>8, <1>9

\* So the second half agrees with the first on what has not changed.
LEMMA AnswerAgrees ==
  ASSUME Typed, NEW l \in LoadType, l.phase = "counted", CountedAgrees(l)
  PROVE  HalvesAgree(AnswerFrom(l))
<1> DEFINE a == AnswerFrom(l)
<1>1. a.moved = l.moved /\ a.summary = l.summary /\ a.byTech = Load(l.period)
  BY DEF AnswerFrom
<1>2. ASSUME NEW t \in TechIds, NEW u \in TechIds, t # u
      PROVE  a.byTech[t].total \cap a.byTech[u].total = {}
  <2>1. a.byTech[t].total \subseteq Numbers
    BY <1>1 DEF Load, LoadOf, NumbersOf, Placed
  <2>2. ASSUME NEW n \in Numbers, n \in a.byTech[t].total, n \in a.byTech[u].total
        PROVE  FALSE
    <3> DEFINE p == l.period
    <3>1. \A v \in TechIds : n \in Load(p)[v].total <=> n \in Within(p) /\ orders[n].executor = v
      <4> HIDE DEF p
      <4> QED
        BY LoadOfOrder
    <3> QED
      BY <1>1, <1>2, <2>2, <3>1
  <2> QED
    BY <2>1, <2>2
<1>3. ASSUME NEW n \in Numbers \ l.moved
      PROVE  /\ n \in l.summary["done"] <=> \E t \in TechIds : n \in Load(l.period)[t].done
             /\ n \in l.summary["inwork"] <=> \E t \in TechIds : n \in Load(l.period)[t].inwork
             /\ \A t \in TechIds : n \in Load(l.period)[t].total =>
                  \E st \in Statuses \ {"created"} : n \in l.summary[st]
  <2>1. \A st \in Statuses : n \in l.summary[st] <=> n \in Within(l.period) /\ orders[n].status = st
    BY DEF CountedAgrees
  <2>2. n \in l.summary["done"] <=> \E t \in TechIds : n \in Load(l.period)[t].done
    BY <2>1, LoadOfOrder DEF Statuses
  <2>3. n \in l.summary["inwork"] <=> \E t \in TechIds : n \in Load(l.period)[t].inwork
    BY <2>1, LoadOfOrder DEF Statuses
  <2>4. ASSUME NEW t \in TechIds, n \in Load(l.period)[t].total
        PROVE  \E st \in Statuses \ {"created"} : n \in l.summary[st]
    <3>1. n \in Within(l.period) /\ orders[n].status \in Statuses \ {"created"}
      BY <2>4, LoadOfOrder
    <3> QED
      BY <2>1, <3>1
  <2> QED
    BY <2>2, <2>3, <2>4
<1> QED
  BY <1>1, <1>2, <1>3 DEF HalvesAgree

\* A change of one order is noted by every load that has counted it.
LEMMA ChangeNoted ==
  ASSUME Typed, Halves, NEW n \in Numbers, OthersAct(n)
  PROVE  Halves'
<1>1. Changed(n) /\ \A k \in Numbers : k # n => orders'[k] = orders[k]
  BY OthersEffect DEF Typed, TypeOK, SoundOrders
<1>2. ASSUME NEW l \in loads, l.phase = "counted"
      PROVE  CountedAgrees([l EXCEPT !.moved = @ \cup {n}])'
  <2> DEFINE k == [l EXCEPT !.moved = @ \cup {n}]
  <2>1. l \in LoadType
    BY TypesSplit DEF Typed, LoadsTyped
  <2>2. l \in [period : Periods, phase : {"counted"}, moved : SUBSET Numbers, summary : Summaries]
    BY <1>2, <2>1, LoadPhases
  <2>3. k.period = l.period /\ k.summary = l.summary /\ k.moved = l.moved \cup {n}
    BY <2>2
  <2>4. CountedAgrees(l)
    BY <1>2 DEF Halves, LoadsAgree
  <2>5. \A i \in Numbers \ {n} : i \in Within(l.period)' <=> i \in Within(l.period)
    BY <1>1 DEF Within, Placed
  <2> QED
    BY <1>1, <2>3, <2>4, <2>5 DEF CountedAgrees
<1>3. ASSUME NEW k \in loads'
      PROVE  /\ k.phase = "counted" => CountedAgrees(k)'
             /\ k.phase = "answered" => HalvesAgree(k)
  <2>1. PICK l \in loads : k = IF l.phase = "counted" THEN [l EXCEPT !.moved = @ \cup {n}] ELSE l
    BY <1>1 DEF Changed
  <2>2. CASE l.phase = "counted"
    <3>1. l \in [period : Periods, phase : {"counted"}, moved : SUBSET Numbers, summary : Summaries]
      BY <2>2, LoadPhases, TypesSplit DEF Typed, LoadsTyped
    <3>2. k.phase = "counted"
      BY <2>1, <2>2, <3>1
    <3> QED
      BY <1>2, <2>1, <2>2, <3>2
  <2>3. CASE l.phase # "counted"
    BY <2>1, <2>3 DEF Halves, LoadsAgree
  <2> QED
    BY <2>2, <2>3
<1>4. LoadsAgree'
  BY <1>3 DEF LoadsAgree, HalvesAgree
<1>5. HalvesDifferByMoved'
  BY <1>1 DEF Halves, HalvesDifferByMoved, HalvesAgree, Changed
<1> QED
  BY <1>4, <1>5 DEF Halves

\* While the orders stay as they are, what a load has counted stays true.
LEMMA StillAgree ==
  ASSUME Typed, LoadsAgree, UNCHANGED tables,
         \A k \in loads' : \/ k \in loads
                           \/ k.phase \in {"asked", "failed"}
                           \/ k.phase = "counted" /\ CountedAgrees(k)
                           \/ k.phase = "answered" /\ HalvesAgree(k)
  PROVE  LoadsAgree'
BY DEF LoadsAgree, CountedAgrees, HalvesAgree, Within, Placed, tables

LEMMA HalvesStep == Typed /\ Halves /\ [Next]_vars => Halves'
<1> SUFFICES ASSUME Typed, Halves, [Next]_vars PROVE Halves'
  OBVIOUS
<1> USE DEF Halves
<1>1. CASE Open \/ Leave \/ \E p \in Periods : Apply(p)
  <2>1. UNCHANGED tables /\ (report' = report \/ report' = NoReport)
    BY <1>1 DEF Open, Leave, Apply
  <2>2. \A k \in loads' : k \in loads \/ k.phase = "asked"
    BY <1>1 DEF Open, Leave, Apply, Asked
  <2> QED
    BY <2>1, <2>2, StillAgree DEF HalvesDifferByMoved, HalvesAgree
<1>2. ASSUME NEW l \in loads, NEW new, Onward(l, new),
             \/ new.phase \in {"asked", "failed"}
             \/ new.phase = "counted" /\ CountedAgrees(new)
             \/ new.phase = "answered" /\ HalvesAgree(new)
      PROVE  Halves'
  BY <1>2, StillAgree DEF Onward, HalvesDifferByMoved, HalvesAgree
<1>3. \A l \in loads : l \in LoadType
  BY TypesSplit DEF Typed, LoadsTyped
<1>4. \A l \in loads : Refused(l.period).phase = "failed"
  BY DEF Refused
<1>5. ASSUME NEW l \in loads, OrdersSummary(l)
      PROVE  Halves'
  <2>1. CASE ValidPeriod(l.period)
    <3>1. Onward(l, CountedFrom(l)) /\ CountedFrom(l).phase = "counted"
      BY <1>5, <2>1 DEF OrdersSummary, CountedFrom
    <3> QED
      BY <1>2, <1>3, <3>1, CountedNow
  <2>2. CASE ~ ValidPeriod(l.period)
    BY <1>2, <1>4, <1>5, <2>2 DEF OrdersSummary
  <2> QED
    BY <2>1, <2>2
<1>6. ASSUME NEW l \in loads, LoadByTechnician(l)
      PROVE  Halves'
  <2>1. Onward(l, AnswerFrom(l)) /\ AnswerFrom(l).phase = "answered" /\ l.phase = "counted"
    BY <1>6 DEF LoadByTechnician, AnswerFrom
  <2>2. HalvesAgree(AnswerFrom(l))
    BY <1>3, <2>1, AnswerAgrees DEF LoadsAgree
  <2> QED
    BY <1>2, <2>1, <2>2
<1>7. ASSUME NEW l \in loads, Lose(l)
      PROVE  Halves'
  BY <1>2, <1>4, <1>7 DEF Lose
<1>8. ASSUME NEW l \in loads, Receive(l)
      PROVE  Halves'
  <2>1. LoadsAgree'
    BY <1>8, StillAgree DEF Receive
  <2>2. report' = report \/ (report' = l /\ HalvesAgree(l))
    BY <1>8 DEF Receive, LoadsAgree
  <2> QED
    BY <2>1, <2>2 DEF HalvesDifferByMoved, HalvesAgree
<1>9. CASE UNCHANGED vars
  BY <1>9, StillAgree DEF vars, page, HalvesDifferByMoved, HalvesAgree
<1> QED
  BY <1>1, <1>5, <1>6, <1>7, <1>8, <1>9, ChangeNoted DEF Next, Answers

\* The totals and the technicians' loads of a report agree on every order that
\* did not change between the two statements (HalvesDifferByMoved).
THEOREM HalvesAgreeButForChanges == Spec => []HalvesDifferByMoved
<1>1. Init => Halves
  BY DEF Init, Halves, LoadsAgree, HalvesDifferByMoved
<1>2. Halves => HalvesDifferByMoved
  BY DEF Halves
<1> QED
  BY <1>1, <1>2, HalvesStep, TypedAlways, PTL DEF Spec

-----------------------------------------------------------------------------
(* Which report is shown *)

\* One load at a time, of the period asked for last.
OneLoad ==
  /\ loading => open /\ \E l : loads = {l} /\ l.period = asked
  /\ ~ loading => loads = {}

Latest == OneLoad /\ ReportIsTheLastAsked

LEMMA LatestStep == Typed /\ Latest /\ [Next]_vars => Latest'
<1> SUFFICES ASSUME Typed, Latest, [Next]_vars PROVE Latest'
  OBVIOUS
<1> USE DEF Latest
<1>0. \A p : Asked(p).period = p
  BY DEF Asked
<1>1. CASE Open \/ Leave
  BY <1>0, <1>1 DEF Open, Leave, OneLoad, ReportIsTheLastAsked
<1>2. CASE \E p \in Periods : Apply(p)
  <2>1. PICK p \in Periods : Apply(p)
    BY <1>2
  <2>2. loads' = {Asked(p)} /\ loading' = TRUE /\ asked' = p /\ open' = TRUE
    BY <2>1 DEF Apply, OneLoad, Typed, TypeOK
  <2> QED
    BY <1>0, <2>2 DEF OneLoad, ReportIsTheLastAsked
<1>3. ASSUME NEW l \in loads
      PROVE  loading /\ loads = {l} /\ l.period = asked
  BY <1>3 DEF OneLoad
<1>4. ASSUME NEW l \in loads, NEW new, Onward(l, new), new.period = l.period
      PROVE  Latest'
  BY <1>3, <1>4 DEF Onward, OneLoad, ReportIsTheLastAsked
<1>5. ASSUME NEW l \in loads, OrdersSummary(l) \/ LoadByTechnician(l) \/ Lose(l)
      PROVE  Latest'
  BY <1>4, <1>5 DEF OrdersSummary, LoadByTechnician, Lose, Refused
<1>6. ASSUME NEW l \in loads, Receive(l)
      PROVE  Latest'
  <2>1. report' = l \/ failed'
    BY <1>6 DEF Receive
  <2>2. l.phase = "answered" => l # NoReport
    BY DEF NoReport
  <2>3. loads' = {} /\ ~ loading' /\ asked' = asked
    BY <1>3, <1>6 DEF Receive
  <2>4. ~ failed' => report' = l /\ l.phase = "answered"
    BY <1>6 DEF Receive
  <2> QED
    BY <1>3, <2>2, <2>3, <2>4 DEF OneLoad, ReportIsTheLastAsked
<1>7. ASSUME NEW n \in Numbers, OthersAct(n)
      PROVE  Latest'
  <2>1. Changed(n)
    BY <1>7, OthersEffect DEF Typed, TypeOK, SoundOrders
  <2>2. UNCHANGED <<open, report, loading, asked, failed>>
    BY <2>1 DEF Changed
  <2>3. CASE loading
    <3>1. PICK l : loads = {l} /\ l.period = asked
      BY <2>3 DEF OneLoad
    <3> DEFINE k == IF l.phase = "counted" THEN [l EXCEPT !.moved = @ \cup {n}] ELSE l
    <3>2. loads' = {k}
      BY <2>1, <3>1 DEF Changed
    <3>3. k.period = l.period
      <4>1. l \in LoadType
        BY <3>1, TypesSplit DEF Typed, LoadsTyped
      <4> QED
        BY <4>1, LoadPhases
    <3> QED
      BY <2>2, <2>3, <3>1, <3>2, <3>3 DEF OneLoad, ReportIsTheLastAsked
  <2>4. CASE ~ loading
    BY <2>1, <2>2, <2>4 DEF Changed, OneLoad, ReportIsTheLastAsked
  <2> QED
    BY <2>3, <2>4
<1>8. CASE UNCHANGED vars
  BY <1>8 DEF vars, page, OneLoad, ReportIsTheLastAsked
<1> QED
  BY <1>1, <1>2, <1>5, <1>6, <1>7, <1>8 DEF Next, Answers

\* The report shown while nothing is on its way is the one asked for last, or
\* that request failed (ReportIsTheLastAsked).
THEOREM ShownReportIsTheLastAsked == Spec => []ReportIsTheLastAsked
<1>1. Init => Latest
  BY DEF Init, Latest, OneLoad, ReportIsTheLastAsked
<1>2. Latest => ReportIsTheLastAsked
  BY DEF Latest
<1> QED
  BY <1>1, <1>2, LatestStep, TypedAlways, PTL DEF Spec
=============================================================================
