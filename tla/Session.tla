------------------------------ MODULE Session -------------------------------
(***************************************************************************)
(* One tab of the front end (Frontend/src/App.tsx and api.ts) and the      *)
(* server as it looks from there: who is logged in, which screen is open,  *)
(* which orders it shows, and the requests on their way.  The tab never    *)
(* cancels a request and never checks, when an answer arrives, whether the *)
(* user or the screen is still the one that asked.                         *)
(*                                                                         *)
(* The server carries out a request at one moment (Apart shows how far     *)
(* that is true), any time after it was sent; answers arrive in any order. *)
(* Technicians are not deleted here; their list and that of the types of   *)
(* work, loaded the same way as the orders, and the notices are left out.  *)
(* There is one tab: another one shares localStorage and would change the  *)
(* token under this one.  A list of orders is the set of what it holds:    *)
(* its order matters only to find() when an order is in it twice, and then *)
(* either copy is taken.                                                   *)
(***************************************************************************)
EXTENDS Domain

CONSTANTS
  Nobody,       \* no token, nobody logged in
  LinkOf,       \* users.technician_id
  Opening,      \* the orders on the server at first
  Slots,        \* places for requests on their way
  Patient,      \* the user waits for the answers before he goes on
  Failing,      \* the operations that may fail: expired token, server, network
  Others        \* other clients change orders as well

Operations == {"login", "me", "listOrders", "createOrder", "updateOrder"}

ASSUME SessionAssumption ==
  /\ Nobody \notin Users
  /\ LinkOf \in [Users -> TechIds \cup {NoTech}]
  /\ Opening \in [Numbers -> Row \cup {Absent}]
  /\ Slots \subseteq Nat
  /\ Patient \in BOOLEAN /\ Others \in BOOLEAN /\ Failing \subseteq Operations

VARIABLES
  token,        \* whose token localStorage holds
  user,         \* App's user
  booting,      \* App's booting
  screen,       \* App's screen
  selected,     \* App's selectedId
  shown,        \* App's orders
  hasty,        \* history: what this page's user did not wait for an answer to do
  req,          \* the requests on their way
  table         \* the orders on the server

page == <<user, booting, screen, selected, shown, hasty>>
vars == <<token, page, req, table>>

NoOrder == 0
\* "technicians" stands for the settings as well.
DispatcherScreens == {"create", "reports"}
Screens == DispatcherScreens \cup {"list", "detail", "technicians"}

\* What the tab holds of an order; as is whose request brought it.
Entry == [number : Numbers, row : Row, as : Users]

Idle == [op |-> "none"]
Request ==
  [op : Operations, as : Users \cup {Nobody},
   number : Numbers, sets : BOOLEAN, tech : TechIds \cup {NoTech}, status : Statuses \cup {Keep},
   answer : {"none", "ok", "unauthorized", "error"}, rows : SUBSET Entry, heard : BOOLEAN]

\* request() reads the token when it is called; heard is whether the page that
\* sent the request is still there.
Blank(op, as) == [op |-> op, as |-> as, number |-> 1, sets |-> FALSE, tech |-> NoTech,
                  status |-> Keep, answer |-> "none", rows |-> {}, heard |-> TRUE]

IsDispatcher(u) == RoleOf[u] = "dispatcher"
ShownNumbers == {e.number : e \in shown}
Waits(s) == req[s] # Idle /\ req[s].answer = "none"
Quiet == \A s \in Slots : req[s] = Idle

Init ==
  /\ token = Nobody /\ user = Nobody /\ booting = FALSE
  /\ screen = "list" /\ selected = NoOrder /\ shown = {} /\ hasty = {}
  /\ req = [s \in Slots |-> Idle]
  /\ table = Opening

-----------------------------------------------------------------------------
(* What the user does *)

FirstFree(s) == req[s] = Idle /\ \A t \in Slots : req[t] = Idle => s <= t
Send(q) == \E s \in Slots : FirstFree(s) /\ req' = [req EXCEPT ![s] = q]

\* Somebody is logged in and the screen is not empty: that of an order shows
\* nothing at all, navigation included, when the order is not in the list.
CanClick ==
  /\ user # Nobody /\ ~ booting
  /\ screen = "detail" => selected \in ShownNumbers
  /\ Patient => Quiet

\* The page is still to be told the answer to one of these.
Owed(ops) == \E s \in Slots : req[s] # Idle /\ req[s].heard /\ req[s].op \in ops

LogInTwiceWrong(u) ==
  /\ user = Nobody /\ ~ booting
  /\ Patient => Quiet
  /\ Send(Blank("login", u))
  /\ UNCHANGED <<token, page, table>>

LogInBootingWrong(u) ==
  /\ user = Nobody
  /\ Patient => Quiet
  /\ ~ Owed({"login"})
  /\ Send(Blank("login", u))
  /\ UNCHANGED <<token, page, table>>

\* LoginScreen: the button is off while a login is on its way.
LogIn(u) ==
  /\ user = Nobody /\ ~ booting
  /\ Patient => Quiet
  /\ ~ Owed({"login"})
  /\ Send(Blank("login", u))
  /\ UNCHANGED <<token, page, table>>

\* handleLogout leaves everything on its way as it is.
LogOut ==
  /\ CanClick
  /\ token' = Nobody /\ user' = Nobody
  /\ shown' = {} /\ screen' = "list"
  /\ hasty' = hasty \cup (IF Owed({"listOrders", "createOrder", "updateOrder"}) THEN {"logout"} ELSE {})
  /\ UNCHANGED <<booting, selected, req, table>>

\* The menu, the buttons "create" and "back".
ScreensFromWrong(u) == Screens \ {"detail"}

ScreensFrom(u) ==
  {"list", "technicians"}
    \cup (IF IsDispatcher(u) THEN {"reports"} ELSE {})
    \cup (IF IsDispatcher(u) /\ screen = "list" THEN {"create"} ELSE {})

Navigate ==
  /\ CanClick
  /\ screen' \in ScreensFrom(user)
  /\ UNCHANGED <<token, user, booting, selected, shown, hasty, req, table>>

OpenDetail(n) ==
  /\ CanClick /\ screen = "list" /\ n \in ShownNumbers
  /\ screen' = "detail" /\ selected' = n
  /\ hasty' = hasty \cup (IF Owed({"listOrders"}) THEN {"open"} ELSE {})
  /\ UNCHANGED <<token, user, booting, shown, req, table>>

\* The form stays open, and its button on, until the answer arrives.
SubmitOrder ==
  /\ CanClick /\ screen = "create"
  /\ Send(Blank("createOrder", token))
  /\ UNCHANGED <<token, page, table>>

\* The row the open screen shows.
IsOpen(row) ==
  screen = "detail" /\ \E e \in shown : e.number = selected /\ e.row = row

Patch == [Blank("updateOrder", token) EXCEPT !.number = selected]

Assign(t) ==
  /\ CanClick /\ screen = "detail" /\ IsDispatcher(user)
  /\ Send([Patch EXCEPT !.sets = TRUE, !.tech = t])
  /\ UNCHANGED <<token, page, table>>

\* The button, the question whether he is sure and its answer; handleCancel goes
\* back to the list without waiting for the server.
CancelOrder(row) ==
  /\ CanClick /\ IsOpen(row) /\ IsDispatcher(user) /\ row.status # "cancelled"
  /\ Send([Patch EXCEPT !.status = "cancelled"])
  /\ screen' = "list"
  /\ UNCHANGED <<token, user, booting, selected, shown, hasty, table>>

\* isMine compares two nullable ids: an unlinked montazhnik owns the orders of
\* nobody, for the screen.
ChangeStatus(row) ==
  /\ CanClick /\ IsOpen(row) /\ ~ IsDispatcher(user) /\ row.executor = LinkOf[user]
  /\ \E st \in {"inwork", "done"} :
       /\ row.status = (IF st = "inwork" THEN "assigned" ELSE "inwork")
       /\ Send([Patch EXCEPT !.status = st])
  /\ UNCHANGED <<token, page, table>>

\* The page starts anew: it asks who the token belongs to.  Nobody hears the
\* answers to the old page's requests: those that may still change something
\* are carried out, the others are forgotten.
Outlives(s) == Waits(s) /\ req[s].op \in {"createOrder", "updateOrder"}

ReloadPage ==
  /\ Patient => Quiet
  /\ user' = Nobody /\ screen' = "list" /\ selected' = NoOrder /\ shown' = {} /\ hasty' = {}
  /\ booting' = (token # Nobody)
  /\ \E s \in Slots :
       /\ ~ Outlives(s) /\ \A t \in Slots : t < s => Outlives(t)
       /\ req' = [t \in Slots |->
                    IF t = s /\ token # Nobody THEN Blank("me", token)
                    ELSE IF Outlives(t) THEN [req[t] EXCEPT !.heard = FALSE]
                    ELSE Idle]
  /\ UNCHANGED <<token, table>>

-----------------------------------------------------------------------------
(* What the server does *)

Placed == {n \in Numbers : table[n] # Absent}

AsEntry(n, u) == [number |-> n, row |-> table[n], as |-> u]

\* The orders user u may see.
Listing(u) ==
  {AsEntry(n, u) : n \in {k \in Placed :
     RoleOf[u] = "montazhnik" /\ LinkOf[u] # NoTech => table[k].executor = LinkOf[u]}}

AnswerWith(s, a, rows) == req' = [req EXCEPT ![s].answer = a, ![s].rows = rows]

\* An accepted token, or for a login a right password.
Reads(s) ==
  /\ req[s].op \in {"login", "me", "listOrders"}
  /\ AnswerWith(s, "ok", IF req[s].op = "listOrders" THEN Listing(req[s].as) ELSE {})
  /\ UNCHANGED table

CreatesOverLimitWrong(s) ==
  /\ req[s].op = "createOrder"
  /\ \/ /\ IsDispatcher(req[s].as)
        /\ \E n \in Numbers \cup {Limit} :
             /\ \A k \in 1 .. (n - 1) : k \in Placed
             /\ n \notin Placed
             /\ table' = [table EXCEPT ![n] = [executor |-> NoTech, status |-> "created"]]
             /\ AnswerWith(s, "ok", {[number |-> n, as |-> req[s].as,
                                      row |-> [executor |-> NoTech, status |-> "created"]]})
     \/ ~ IsDispatcher(req[s].as) /\ AnswerWith(s, "error", {}) /\ UNCHANGED table

Creates(s) ==
  /\ req[s].op = "createOrder"
  /\ \/ /\ IsDispatcher(req[s].as)
        /\ \E n \in Numbers \ Placed :
             /\ \A k \in 1 .. (n - 1) : k \in Placed
             /\ table' = [table EXCEPT ![n] = [executor |-> NoTech, status |-> "created"]]
             /\ AnswerWith(s, "ok", {[number |-> n, row |-> table'[n], as |-> req[s].as]})
     \/ /\ ~ IsDispatcher(req[s].as) \/ Placed = Numbers
        /\ AnswerWith(s, "error", {}) /\ UNCHANGED table

Updates(s) ==
  /\ req[s].op = "updateOrder"
  /\ LET n == req[s].number
         u == req[s].as
         allowed == /\ MayTouch(RoleOf[u], LinkOf[u], table[n])
                    /\ req[s].sets => IsDispatcher(u)
     IN  \/ /\ n \in Placed /\ allowed
            /\ table' = [table EXCEPT ![n] = Edited(table[n], req[s])]
            /\ AnswerWith(s, "ok", {[number |-> n, row |-> table'[n], as |-> u]})
         \/ ~ (n \in Placed /\ allowed) /\ AnswerWith(s, "error", {}) /\ UNCHANGED table

Serve(s) ==
  /\ Waits(s)
  /\ \/ req[s].as # Nobody /\ (Reads(s) \/ Creates(s) \/ Updates(s))
     \/ req[s].as = Nobody /\ AnswerWith(s, "unauthorized", {}) /\ UNCHANGED table
  /\ UNCHANGED <<token, page>>

\* The token has expired, the password is wrong, or the user could not be
\* loaded: the server does not tell.
Refuse(s) ==
  /\ Waits(s) /\ req[s].op \in Failing
  /\ AnswerWith(s, "unauthorized", {})
  /\ UNCHANGED <<token, page, table>>

\* The request or its answer is lost, or the answer is a 500: the client sees
\* an error, whether the server has done its work or not.
Lose(s) ==
  /\ req[s] # Idle /\ req[s].op \in Failing /\ req[s].answer \in {"none", "ok"}
  /\ AnswerWith(s, "error", {})
  /\ UNCHANGED <<token, page, table>>

\* Another client assigns an order.
OtherClient(n, t) ==
  /\ Others /\ n \in Placed
  /\ table' = [table EXCEPT ![n] = [executor |-> t, status |-> "assigned"]]
  /\ UNCHANGED <<token, page, req>>

-----------------------------------------------------------------------------
(* What the page does with an answer *)

Done(s) == req' = [req EXCEPT ![s] = Idle]

\* The effect on [user]: the orders are loaded (in the place the answer leaves).
Load(s, u) == req' = [req EXCEPT ![s] = Blank("listOrders", u)]

\* request() throws away the token on every 401.
TokenAfter(s) == IF req[s].answer = "unauthorized" THEN Nobody ELSE token

LoggedIn(s) ==
  /\ req[s].op = "login"
  /\ \/ /\ req[s].answer = "ok"
        /\ token' = req[s].as /\ user' = req[s].as /\ screen' = "list"
        /\ Load(s, req[s].as)
     \/ req[s].answer # "ok" /\ UNCHANGED <<token, user, screen>> /\ Done(s)
  /\ UNCHANGED <<booting, selected, shown, hasty>>

BootedOnSuccessWrong(s) ==
  /\ req[s].op = "me"
  /\ \/ req[s].answer = "ok" /\ user' = req[s].as /\ booting' = FALSE /\ token' = token
          /\ Load(s, token)
     \/ req[s].answer # "ok" /\ token' = TokenAfter(s) /\ UNCHANGED <<user, booting>> /\ Done(s)
  /\ UNCHANGED <<screen, selected, shown, hasty>>

Booted(s) ==
  /\ req[s].op = "me"
  /\ booting' = FALSE
  /\ \/ req[s].answer = "ok" /\ user' = req[s].as /\ token' = token /\ Load(s, token)
     \/ req[s].answer # "ok" /\ token' = TokenAfter(s) /\ user' = Nobody /\ Done(s)
  /\ UNCHANGED <<screen, selected, shown, hasty>>

Listed(s) ==
  /\ req[s].op = "listOrders"
  /\ shown' = (IF req[s].answer = "ok" THEN req[s].rows ELSE shown)
  /\ token' = TokenAfter(s)
  /\ Done(s)
  /\ UNCHANGED <<user, booting, screen, selected, hasty>>

Created(s) ==
  /\ req[s].op = "createOrder"
  /\ shown' = shown \cup req[s].rows
  /\ screen' = (IF req[s].answer = "ok" THEN "list" ELSE screen)
  /\ token' = TokenAfter(s)
  /\ Done(s)
  /\ UNCHANGED <<user, booting, selected, hasty>>

\* The order answered takes the place of the one shown, if it is shown.
UpdatedWrong(s) ==
  /\ req[s].op = "updateOrder"
  /\ shown' = {e \in shown : \A new \in req[s].rows : e.number # new.number}
  /\ token' = TokenAfter(s)
  /\ Done(s)
  /\ UNCHANGED <<user, booting, screen, selected, hasty>>

Updated(s) ==
  /\ req[s].op = "updateOrder"
  /\ shown' = {e \in shown : req[s].answer = "ok" => e.number # req[s].number}
                \cup {new \in req[s].rows : new.number \in ShownNumbers}
  /\ token' = TokenAfter(s)
  /\ Done(s)
  /\ UNCHANGED <<user, booting, screen, selected, hasty>>

Receive(s) ==
  /\ req[s] # Idle /\ req[s].answer # "none"
  /\ \/ req[s].heard /\ (LoggedIn(s) \/ Booted(s) \/ Listed(s) \/ Created(s) \/ Updated(s))
     \/ ~ req[s].heard /\ Done(s) /\ UNCHANGED <<token, page>>
  /\ UNCHANGED table

-----------------------------------------------------------------------------
UserActs ==
  \/ \E u \in Users : LogIn(u)
  \/ LogOut \/ Navigate \/ SubmitOrder \/ ReloadPage
  \/ \E n \in Numbers : OpenDetail(n)
  \/ \E t \in TechIds : Assign(t)
  \/ \E row \in Row : CancelOrder(row) \/ ChangeStatus(row)

Next ==
  \/ UserActs
  \/ \E s \in Slots : Serve(s) \/ Refuse(s) \/ Lose(s) \/ Receive(s)
  \/ \E n \in Numbers, t \in TechIds : OtherClient(n, t)

Spec == Init /\ [][Next]_vars

\* A request is answered or fails sooner or later (FairSpec of Backend), and a
\* browser settles every promise and runs what waits for it.
FairSpec ==
  Spec /\ \A s \in Slots : WF_vars(Serve(s)) /\ WF_vars(Receive(s))

-----------------------------------------------------------------------------
(* Properties *)

TypeOK ==
  /\ token \in Users \cup {Nobody} /\ user \in Users \cup {Nobody}
  /\ booting \in BOOLEAN
  /\ screen \in Screens /\ selected \in Numbers \cup {NoOrder}
  /\ shown \in SUBSET Entry
  /\ hasty \subseteq {"logout", "open"}
  /\ req \in [Slots -> Request \cup {Idle}]
  /\ table \in [Numbers -> Row \cup {Absent}]

\* Whoever the screens show as logged in is the one the server hears: the
\* token is that of the user shown, or none after a 401, never that of a user
\* who was logged in before or is logging in.  App keeps the user and api.ts
\* the token, and only the order of calls and answers keeps them together.
RequestsCarryShownUser ==
  user # Nobody => token \in {user, Nobody}

\* The screens never send what the server refuses for the role: only a
\* dispatcher's token goes with a creation or an assignment, whoever logged
\* in and out since the screen was opened.
RequestsFitRole ==
  \A s \in Slots :
    req[s] # Idle /\ (req[s].op = "createOrder" \/ (req[s].op = "updateOrder" /\ req[s].sets))
      => req[s].as = Nobody \/ IsDispatcher(req[s].as)

\* The orders on the screen are those answered to the user logged in: a
\* montazhnik sees his own orders (README.md:43).
ShownBelongsToUser ==
  user # Nobody => \A e \in shown : e.as = user

\* An answer about orders is applied whoever is logged in when it comes
\* (App.tsx:1032, 1061, 1070).  All that can bring another user's orders to the
\* screen is a logout while such an answer is owed to the page: lists, creations
\* and changes may otherwise overlap, be refused or be lost, and users may come
\* and go.
MixedOnlyByHastyLogOut == "logout" \notin hasty => ShownBelongsToUser

\* When no answer is outstanding, nobody else changes orders and nothing
\* fails, the list shows what the server would list now: creations and
\* changes are worked into it without loading it again.
ShownIsCurrent ==
  Quiet /\ user # Nobody => shown = Listing(user)

\* The screen of an order has the order to show.
DetailHasOrder ==
  user # Nobody /\ screen = "detail" => selected \in ShownNumbers

\* A late list may take the open order away (App.tsx:1119), and with it the way
\* back.  It can only be one that was on its way when the screen was opened,
\* whatever is created, changed, lost or refused meanwhile.
EmptiedOnlyByLateList == "open" \notin hasty => DetailHasOrder

\* The page comes up after every reload: the question whose the token is has
\* an end, whatever the answer, unless the user reloads it for ever.
BootEnds ==
  \/ []<><<ReloadPage>>_vars
  \/ booting ~> ~ booting
=============================================================================
