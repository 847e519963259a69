------------------------------ MODULE Staffing ------------------------------
(***************************************************************************)
(* A dispatcher at work with the staff (Frontend/src/App.tsx:              *)
(* TechniciansScreen, TechnicianForm and the choice of an executor in      *)
(* OrderDetailScreen), and the server as it looks from there.  He is       *)
(* logged in; Session is about logging in and out.                         *)
(*                                                                         *)
(* A screen keeps its own state only while it is open: React drops it with *)
(* the component.  The lists of orders and of technicians belong to App    *)
(* and stay; they are as old as their last load.  The dispatcher has as    *)
(* many requests on their way as there are Slots; with one he waits for    *)
(* each answer.  The server carries out a request at one moment (Apart     *)
(* shows how far that is true).  A name stands for the name and the phone. *)
(***************************************************************************)
EXTENDS Store

CONSTANTS
  Names,        \* what may be typed as a technician's name
  NoName,       \* the empty text
  FirstName,    \* technicians.full_name as seeded
  Slots         \* places for requests on their way

ASSUME StaffingAssumption ==
  /\ NoName \notin Names
  /\ FirstName \in [TechIds -> Names]

VARIABLES
  names,        \* technicians.full_name and phone, by id
  screen,       \* App's screen
  local,        \* the state of the open screen
  listed,       \* App's technicians
  held,         \* the executors of App's orders
  req,          \* requests about technicians and orders on their way
  missed        \* history: "staff", "orders": what the list shown may be behind of

app    == <<screen, listed, held>>
server == <<tables, names>>
vars   == <<server, app, local, req, missed>>

\* "list" stands for the screens this module has nothing to say about as well.
Screens == {"list", "detail", "technicians"}

\* A row of the list of technicians, and the empty form's.
StaffRow == [id : TechIds, name : Names, active : BOOLEAN]
New == [id |-> NoTech, name |-> NoName, active |-> TRUE]

Nothing == [kind |-> "none"]

Operations == {"list", "create", "update", "delete", "assign"}
Idle == [op |-> "none"]
Request ==
  [op : Operations, tech : TechIds \cup {NoTech}, name : Names \cup {NoName}, active : BOOLEAN,
   changed : SUBSET {"name", "active"}, number : Numbers,
   answer : {"none", "ok", "error"}, rows : SUBSET StaffRow]

Blank(op, t) == [op |-> op, tech |-> t, name |-> NoName, active |-> TRUE, changed |-> {},
                 number |-> 1, answer |-> "none", rows |-> {}]

Free(s) == req[s] = Idle
Send(s, q) == Free(s) /\ req' = [req EXCEPT ![s] = q]

\* reloadTechnicians in the place of the request that is done, and no request.
Reload(s) == req' = [req EXCEPT ![s] = Blank("list", NoTech)]
Done(s) == req' = [req EXCEPT ![s] = Idle]

\* The dispatcher looks at the lists only when all he asked for has come.
Quiet == \A s \in Slots : Free(s)

\* The effect after the login has asked for the technicians.
Init ==
  /\ StoreInit /\ names = FirstName
  /\ screen = "list" /\ local = Nothing /\ listed = {}
  /\ held = [n \in Placed |-> orders[n].executor]
  /\ \E s \in Slots : req = [r \in Slots |-> IF r = s THEN Blank("list", NoTech) ELSE Idle]
  /\ missed = {}

-----------------------------------------------------------------------------
(* The screens *)

\* The menu; a dialog covers it.
NavigateKeepsLocalWrong(to) ==
  /\ to # screen /\ local.kind \notin {"form", "delete"}
  /\ screen' = to
  /\ UNCHANGED <<server, listed, held, local, req, missed>>

Navigate(to) ==
  /\ to # screen /\ local.kind \notin {"form", "delete"}
  /\ screen' = to
  /\ local' = Nothing
  /\ UNCHANGED <<server, listed, held, req, missed>>

\* selectedTech starts as the order's executor, employed or not.
OpenDetail(n) ==
  /\ Quiet /\ screen = "list" /\ n \in DOMAIN held
  /\ screen' = "detail"
  /\ local' = [kind |-> "detail", number |-> n, chosen |-> held[n]]
  /\ UNCHANGED <<server, listed, held, req, missed>>

\* activeTechs.
ActiveTechsAllWrong == {row.id : row \in listed}

ActiveTechs == {row.id : row \in {r \in listed : r.active}}

Choose(t) ==
  /\ Quiet /\ local.kind = "detail" /\ t \in ActiveTechs \cup {NoTech}
  /\ local' = [local EXCEPT !.chosen = t]
  /\ UNCHANGED <<server, app, req, missed>>

\* The button is off while nobody is chosen; it does not ask whether the one
\* chosen is still in the list, nor who has the order already.
Assign ==
  /\ local.kind = "detail" /\ local.chosen # NoTech
  /\ \E s \in Slots :
       Send(s, [Blank("assign", local.chosen) EXCEPT !.number = local.number])
  /\ UNCHANGED <<server, app, local, missed>>

OpenForm(row) ==
  /\ Quiet /\ screen = "technicians" /\ local = Nothing
  /\ local' = [kind |-> "form", was |-> row]
  /\ UNCHANGED <<server, app, req, missed>>

\* What the form shows as it opens.
FormOfAlwaysActiveWrong(row) == [row EXCEPT !.active = TRUE]

FormOf(row) == row

\* The form sends all its fields, those the dispatcher left alone as well, and
\* closes at once.  A new technician has no box "active".
Save(name, active) ==
  /\ local.kind = "form" /\ (local.was = New => active)
  /\ LET form    == FormOf(local.was)
         changed == (IF name # form.name THEN {"name"} ELSE {})
                      \cup (IF active # form.active THEN {"active"} ELSE {})
     IN  \E s \in Slots :
           Send(s, [Blank(IF local.was = New THEN "create" ELSE "update", form.id) EXCEPT
                      !.name = name, !.active = active, !.changed = changed])
  /\ local' = Nothing
  /\ UNCHANGED <<server, app, missed>>

AskDelete(row) ==
  /\ Quiet /\ screen = "technicians" /\ local = Nothing
  /\ local' = [kind |-> "delete", tech |-> row.id]
  /\ UNCHANGED <<server, app, req, missed>>

ConfirmDelete ==
  /\ local.kind = "delete"
  /\ \E s \in Slots : Send(s, Blank("delete", local.tech))
  /\ local' = Nothing
  /\ UNCHANGED <<server, app, missed>>

Dismiss ==
  /\ local.kind \in {"form", "delete"}
  /\ local' = Nothing
  /\ UNCHANGED <<server, app, req, missed>>

-----------------------------------------------------------------------------
(* The server *)

\* What ListTechnicians answers.
Employed(t) == technicians[t] = "active"
StaffRows == {[id |-> t, name |-> names[t], active |-> Employed(t)] : t \in Existing}

AnswerWith(s, a, rows) == req' = [req EXCEPT ![s].answer = a, ![s].rows = rows]

Lists(s) ==
  /\ req[s].op = "list"
  /\ AnswerWith(s, "ok", StaffRows)
  /\ missed' = missed \ {"staff"}
  /\ UNCHANGED server

Creates(s) ==
  /\ req[s].op = "create"
  /\ \/ /\ CanInsertTechnician /\ InsertTechnician
        /\ names' = [names EXCEPT ![nextTechId] = req[s].name]
        /\ AnswerWith(s, "ok", {})
     \/ ~ CanInsertTechnician /\ AnswerWith(s, "error", {}) /\ UNCHANGED server
  /\ UNCHANGED missed

Updates(s) ==
  /\ req[s].op = "update"
  /\ LET t == req[s].tech
     IN  \/ /\ t \in Existing
            /\ UpdateTechnician(t, IF req[s].active THEN "active" ELSE "fired")
            /\ names' = [names EXCEPT ![t] = req[s].name]
            /\ AnswerWith(s, "ok", {})
         \/ t \notin Existing /\ AnswerWith(s, "error", {}) /\ UNCHANGED server
  /\ UNCHANGED missed

Deletes(s) ==
  /\ req[s].op = "delete"
  /\ LET t == req[s].tech
     IN  \/ /\ t \in Existing /\ CanDeleteTechnician(t)
            /\ DeleteTechnician(t)
            /\ AnswerWith(s, "ok", {})
            /\ UNCHANGED names
         \/ /\ ~ (t \in Existing /\ CanDeleteTechnician(t))
            /\ AnswerWith(s, "error", {}) /\ UNCHANGED server
  /\ UNCHANGED missed

\* UpdateOrder asks whether the executor exists, not whether he is employed.
Assigned(t) == [sets |-> TRUE, tech |-> t, status |-> Keep]

Assigns(s) ==
  /\ req[s].op = "assign"
  /\ LET t == req[s].tech
         n == req[s].number
     IN  \/ /\ t \in Existing
            /\ UpdateOrder(n, Edited(orders[n], Assigned(t)))
            /\ AnswerWith(s, "ok", {})
         \/ t \notin Existing /\ AnswerWith(s, "error", {}) /\ UNCHANGED tables
  /\ UNCHANGED <<names, missed>>

Serve(s) ==
  /\ req[s] # Idle /\ req[s].answer = "none"
  /\ Lists(s) \/ Creates(s) \/ Updates(s) \/ Deletes(s) \/ Assigns(s)
  /\ UNCHANGED <<app, local>>

\* What the page will not know of when this request ends in an error.
Unknown(q) ==
  (IF q.op = "list" \/ (q.op # "assign" /\ q.answer = "ok") THEN {"staff"} ELSE {})
    \cup (IF q.op = "assign" /\ q.answer = "ok" THEN {"orders"} ELSE {})

\* The request or its answer is lost, or the answer is an error of the server:
\* the page sees an error, whether the server has done its work or not.
Lose(s) ==
  /\ req[s] # Idle /\ req[s].answer # "error"
  /\ AnswerWith(s, "error", {})
  /\ missed' = missed \cup Unknown(req[s])
  /\ UNCHANGED <<server, app, local>>

\* Another dispatcher changes a technician's row, or gives out an order.
OtherEdits(t, name, active) ==
  /\ t \in Existing
  /\ UpdateTechnician(t, IF active THEN "active" ELSE "fired")
  /\ names' = [names EXCEPT ![t] = name]
  /\ missed' = missed \cup {"staff"}
  /\ UNCHANGED <<app, local, req>>

OtherAssigns(n, t) ==
  /\ n \in Placed /\ t \in Existing
  /\ UpdateOrder(n, Edited(orders[n], Assigned(t)))
  /\ missed' = missed \cup {"orders"}
  /\ UNCHANGED <<names, app, local, req>>

-----------------------------------------------------------------------------
(* What the page does with an answer *)

\* Every list that arrives becomes the list of technicians; an error leaves the
\* old one, without a word.
Listed(s) ==
  /\ req[s].op = "list"
  /\ listed' = (IF req[s].answer = "ok" THEN req[s].rows ELSE listed)
  /\ Done(s)
  /\ UNCHANGED held

\* After a change that was made the technicians are asked for again; after an
\* error they are not.
ChangedNoReloadWrong(s) ==
  /\ req[s].op # "list"
  /\ held' = (IF req[s].op = "assign" /\ req[s].answer = "ok"
              THEN [held EXCEPT ![req[s].number] = req[s].tech] ELSE held)
  /\ IF req[s].answer = "ok" /\ req[s].op # "delete" THEN Reload(s) ELSE Done(s)
  /\ UNCHANGED listed

Changed(s) ==
  /\ req[s].op # "list"
  /\ held' = (IF req[s].op = "assign" /\ req[s].answer = "ok"
              THEN [held EXCEPT ![req[s].number] = req[s].tech] ELSE held)
  /\ IF req[s].answer = "ok" THEN Reload(s) ELSE Done(s)
  /\ UNCHANGED listed

Receive(s) ==
  /\ req[s] # Idle /\ req[s].answer # "none"
  /\ Listed(s) \/ Changed(s)
  /\ UNCHANGED <<server, screen, local, missed>>

-----------------------------------------------------------------------------
Clicks ==
  \/ \E to \in Screens \ {"detail"} : Navigate(to)
  \/ \E n \in Numbers : OpenDetail(n)
  \/ \E t \in TechIds \cup {NoTech} : Choose(t)
  \/ \E row \in listed \cup {New} : OpenForm(row)
  \/ \E name \in Names, active \in BOOLEAN : Save(name, active)
  \/ \E row \in listed : AskDelete(row)
  \/ Assign \/ ConfirmDelete \/ Dismiss

Next ==
  \/ Clicks
  \/ \E s \in Slots : Serve(s) \/ Lose(s) \/ Receive(s)
  \/ \E t \in TechIds, name \in Names, active \in BOOLEAN : OtherEdits(t, name, active)
  \/ \E n \in Numbers, t \in TechIds : OtherAssigns(n, t)

Spec == Init /\ [][Next]_vars

-----------------------------------------------------------------------------
(* Properties *)

\* The state each screen keeps.
LocalOK ==
  /\ screen = "list" => local = Nothing
  /\ screen = "detail" =>
       local \in [kind : {"detail"}, number : DOMAIN held, chosen : TechIds \cup {NoTech}]
  /\ screen = "technicians" =>
       local \in {Nothing} \cup [kind : {"form"}, was : StaffRow \cup {New}]
                            \cup [kind : {"delete"}, tech : TechIds]

TypeOK ==
  /\ StoreTypeOK /\ names \in [TechIds -> Names]
  /\ screen \in Screens /\ LocalOK
  /\ listed \subseteq StaffRow
  /\ held \in [Placed -> TechIds \cup {NoTech}]
  /\ req \in [Slots -> Request \cup {Idle}]
  /\ missed \subseteq {"staff", "orders"}

\* When nothing is on its way, the technicians shown are those of the server,
\* unless another dispatcher changed them or an answer was lost since they were
\* read: App keeps the list only by loading it again after every change that
\* succeeded (App.tsx:1068-1089), an order's as well.
StaffIsCurrent == Quiet /\ "staff" \notin missed => listed = StaffRows

Served(s) == req[s] # Idle /\ req[s].answer = "none" /\ req'[s] # Idle /\ req'[s].answer = "ok"

\* An edit changes of a technician only what the dispatcher changed in the
\* form, although the form sends the whole of a copy made when it opened
\* (App.tsx:777-787): a dispatcher who waits edits the present row, unless
\* another one changes it meanwhile or an answer was lost.
EditKeepsRest ==
  [][\A s \in Slots :
       Served(s) /\ req[s].op = "update" /\ "staff" \notin missed =>
         LET t == req[s].tech
         IN  /\ "name" \notin req[s].changed => names'[t] = names[t]
             /\ "active" \notin req[s].changed => technicians'[t] = technicians[t]]_vars

\* A technician who was dismissed gets no order that was not his («Работает
\* (доступен для назначения)», App.tsx:802).  Only the screens see to that, with
\* a choice made from a list loaded earlier or begun with the executor of an
\* order opened earlier; the server does not ask (service.go:84).
DismissedGetsNothingNew ==
  [][\A s \in Slots :
       Served(s) /\ req[s].op = "assign" /\ missed = {} =>
         Employed(req[s].tech) \/ orders[req[s].number].executor = req[s].tech]_vars
=============================================================================
