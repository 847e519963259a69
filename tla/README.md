# Монтаж 360: a verification development

Монтаж 360 keeps the work orders of an installation company. A Go server
(`Backend/`) offers an HTTP API over PostgreSQL; a React front end (`Frontend/`)
is its client. Dispatchers create orders, assign technicians to them, cancel
them and keep the list of technicians; a montazhnik (a technician with an
account) sees his own orders and moves them to "in work" and "done".

The project models the server as requests in flight over shared tables, the front
end as a tab whose requests are answered late, out of order or never, and the
migrations as steps between which a server may start, stop and crash. It checks them
with TLC on small instances and proves their safety properties with TLAPS for every
size.

## Inventory

| component | state | operations | interacts with |
|---|---|---|---|
| domain (`internal/domain`) | none | statuses, roles, what a PATCH may carry | used by all |
| service (`internal/service`) | none (a request's local variables) | list, create and update orders; list, create, update and delete technicians; authenticate; report | calls the store one statement at a time |
| store (`internal/store/postgres`) | tables `work_orders`, `technicians`, `users`, the id sequence | one SQL statement per method, two for `Create` and `Update` | PostgreSQL, which commits every statement by itself |
| HTTP server (`internal/httpserver`) | a goroutine per request | authentication, role check, decoding, the handlers, the mapping of errors | service |
| users and tokens (`internal/auth`, `users`) | none on the server (JWT) | issue and parse a token, load the user | middleware |
| reports (`ReportSummary`, `ReportsScreen`) | the screen's report and its button | two aggregate queries; the screen asks, shows, is left | store |
| migrations (`Backend/migrations`) | the schema version | five steps up and down, seeds | PostgreSQL, at the start of the server (goose) |
| front end (`Frontend/src`) | the token, the user, the loaded lists, the open screen and its own state | screens; `api.ts` | the HTTP API |
| configuration | none after start-up | read a file and the environment | |

Hard behaviours:

* **No transactions.** Every handler of more than one statement is a
  read-then-write over tables others change in between: PATCH reads a row and
  writes it back whole, a creation reads `max(number)` and inserts later, a
  deletion counts the orders and deletes later. Only the unique index and the
  foreign keys stand behind these checks.
* **Failure between statements.** A write commits and the read-back after it, or
  its answer, fails; the process dies between two statements. Nothing is undone.
* **Deletion has side effects.** `users.technician_id` becomes null, and null
  means "all orders" to one operation and "no order" to another.
* **Edges.** Order numbers have five digits and are cut beyond; ids come from a
  sequence that never goes back.
* **A client with stale data.** Screens show lists loaded earlier and act on them: a
  form writes back a copy of a technician, a choice of an executor begins with the one
  an order had. The list of technicians is kept only by loading it again.
* **Two halves of a report.** Its counters and its table are two statements with
  changes between them, and its answer does not say which period it is for.
* **Migrations that move data.** Executors go from names to references and back; the
  seeds may meet rows of requests; a crash leaves any version behind.

What makes each component correct: for the store, referential integrity and
gapless unique numbers; for the service, that rights hold at the moment of the
write, that a field not passed is not changed, that a refusal has no effect; for
the HTTP server, that every request is answered and that errors are the
documented ones; for the front end, that what it shows belongs to the user who
is logged in, is what the server has unless somebody else changed it, and that what it
sends changes only what the user changed; for reports, that the two halves agree but
for the orders that changed meanwhile; for migrations, that no order loses its executor
and that a server finds the tables it needs, from whichever version it starts.

## Modules

| module | models | state |
|---|---|---|
| `Domain` | `internal/domain`, the rules of `service.go` that need no database | none: constants and operators |
| `Store` | the tables and the SQL statements with the constraints of the migrations | `orders`, `technicians`, `nextTechId`, `links` |
| `Backend` (extends `Store`) | the HTTP server and the service: requests in flight | `pc`, `call`, `me`, `number`, `draft`, `seen`, `reply`, and `wrote`, a history of whether the request changed anything |
| `Registry` | an abstract specification of the tables: what anybody who looks at the orders and the staff may rely on | `board`, `staff`, `former` |
| `StoreProofs` (extends `Store`) | the lemmas about the tables that the proofs about the server rest on | |
| `BackendProofs` (extends `Backend`) | the theorems about the server, whatever overlaps | |
| `Atomic` (extends `Store`) | an abstract specification of the API: every request is carried out or refused at one moment | the tables, `stage`, `call`, `seen`, `reply` |
| `Apart` (extends `Backend`) | `Backend` as long as requests that disturb each other do not overlap (`ApartSpec`), and its mapping to `Atomic` | as `Backend` |
| `ApartProofs` (extends `Apart`) | the theorems about `ApartSpec` | |
| `MCBackend` (extends `Backend`) | the instances TLC checks | |
| `Session` (extends `Domain`) | one tab of the front end (`App.tsx`, `api.ts`) and the server as it looks from there | `token`, `user`, `booting`, `screen`, `selected`, `shown`, `req`, `table`; the history `hasty` |
| `SessionProofs` (extends `Session`) | its theorems | |
| `MCSession` (extends `Session`) | its instances | |
| `Staffing` (extends `Store`) | a dispatcher with the screen of technicians and the choice of an executor (`App.tsx`), and the server as it looks from there | the tables, `names`; `screen`, `local`, `listed`, `held`, `req`; the history `missed` |
| `Reports` (extends `Store`) | `ReportSummary`, its two statements, and `ReportsScreen`, while others change orders | the tables; `open`, `report`, `loading`, `loads`; the histories `asked`, `failed`, `changes` |
| `Migrations` | the SQL of the five migrations, up and down, and servers that start, serve and stop | `version`, `phase`, the tables by column, the history `left` |
| `StaffingProofs`, `ReportsProofs`, `MigrationsProofs` | their theorems | |
| `MCStaffing`, `MCReports`, `MCMigrations` | their instances | |

`Store` is the part the modules share: `Backend`, `Staffing` and `Reports` change the
tables by the same statements under the same constraints. That the tables change as
`Registry` allows is a question of `Backend`, where statements of several requests
interleave; in the other two a request is done at one moment. The mapping, `Board`, needs
the tables only and stands in `Store`.

**Two abstract specifications.** `Registry` says what may be relied upon although requests
overlap: orders are numbered without a gap and stay, an executor is always employed, a
technician who left does not come back. `Atomic` is what a reader of the API description
expects, and it holds only as long as no two requests that disturb each other overlap:
two creations; two updates of one order; the deletion of a technician with another of his
deletions, with an update that assigns him, or with a list of his orders (`Disturbs`). All
others may run side by side. The list is as short as it can be: without any one of the
five parts TLC finds a behaviour of two requests that `Atomic` does not allow.

**State.** `orders` is `work_orders` by number, with executor and status; a
number not in use has the row `Absent`. `technicians` is the table by id, with
`active` as "active" or "fired". `links` is `users.technician_id`. `pc[r]` is the
statement request `r` runs next; `me[r]` the link `authMiddleware` loaded with the
user; `draft[r]` the `order` variable of `UpdateOrder`; `number[r]` the number
`CreateOrder` computed or the path of the PATCH named.

**Actions.** One step of a request is one SQL statement with the code from its
result to the next statement or to the answer. `Accept` is the arrival, `Reject`
and `Admit` the middleware, `ListOrders`, `NextNumber`, `CreateOrder`, `Reread`,
`GetOrder`, `GetTechnician`, `SaveOrder`, `CreateTechnician`, `AmendTechnician`,
`CheckTechnician`, `CountOrders` and `RemoveTechnician` the statements, `Fail` a
statement that fails, `Abort` the death of the request's goroutine or process. A
write may commit and still be answered 500 (`Committed`). Between the steps of a
request all others may run, which is what statement-level commits allow.

**The front end.** `token` is the entry of localStorage that `api.ts` reads for each
request; `user`, `booting`, `screen`, `selected` and `shown` are the `useState`
variables `user`, `booting`, `screen`, `selectedId` and `orders` of `App`; `req[s]`
is a request whose promise is not settled, with the token it was sent with and,
once the server has answered, its answer. `hasty` notes what this page's user did without
waiting: a logout while an answer about orders was owed to the page, the opening of an
order while a list was. What the user does (`LogIn`, `LogOut`,
`Navigate`, `OpenDetail`, `SubmitOrder`, `Assign`, `CancelOrder`, `ChangeStatus`,
`ReloadPage`), what the server does (`Serve`, `Refuse`, and `Lose` for the
network), what other clients do (`OtherClient`) and what the page does with an
answer (`Receive`: `LoggedIn`, `Booted`, `Listed`, `Created`, `Updated`) are
separate actions, so that a request is sent, served and heard at different
moments. `table` is what the client's view needs of `orders`, changed by the same
operators of `Domain` (`MayTouch`, `Edited`) that `Backend` uses; that the server
does its work at one moment is an abstraction (`Atomic`; `Apart` says which requests must
not overlap for it to be exact, `lost_update` shows what it hides otherwise).

**The staff.** `listed` is `technicians` of `App`, `held` the executors of its `orders`,
`local` the `useState` variables of the open screen: `editing` and `deleting` of
`TechniciansScreen`, `selectedTech` of `OrderDetailScreen`. React drops them with the
component, so every change of screen resets `local` (`Navigate`, `OpenDetail`). The
clicks (`Choose`, `Assign`, `OpenForm`, `Save`, `AskDelete`, `ConfirmDelete`, `Dismiss`),
the server's work (`Serve`: `Lists`, `Creates`, `Updates`, `Deletes`, `Assigns`), the
loss of a request or an answer (`Lose`), the other dispatchers (`OtherEdits`,
`OtherAssigns`) and what the page does with an answer (`Receive`: `Listed`, `Changed`)
are separate actions. A change that succeeded asks for the technicians again
(`Reload`). `missed` says of which list the page cannot know that it is old: another
dispatcher changed something since, or an answer was lost, the one to a reload included.
The properties speak of what is not in `missed`. What another dispatcher changes while
a form is open is saved over, as the code does (the form sends the whole copy it was opened
with), and no text of the repository says otherwise.

**Reports.** A load is "asked", "counted" after `OrdersSummary`, "answered" after
`LoadByTechnician`, or "failed"; `moved` notes the orders that change while it is
counted. `Open` is the mounting of the screen, whose effect asks at once; `Apply` the
button; `Receive` the `try`, `catch` and `finally` of `load`. The others do to orders what
the screens of a dispatcher and a montazhnik offer, from lists as old as may be: an order
may be cancelled, taken or completed after it has reached any other status.

**Migrations.** `Up1` to `Up5` and `Down1` to `Down5` are the files; goose runs each in one
transaction, so each is one action. A column the present version has not got is empty:
`executor` from version 4 on, `technician` below. `Up` is a starting server that applies
the next migration, `Serve` the moment it begins to listen, `Stop` its end or crash at any
moment, `Down` a `goose down` by hand while no server runs. `left` remembers who had which
order when version 5 was left.

**Operators ending in `Wrong`** are plausible slips in the code translated by the
operator after them. No specification uses them: they are there to show that a
property would notice the slip.

## Abstractions

* Texts are left out: no rule but "not empty" reads names, addresses, phones,
  comments or dates, and that one is the field `valid` of a call.
* Order numbers are numbers. As texts of one width they are ordered alike, which
  is what `max(number)` needs; `LPad` cuts the one number that is too long. An
  instance has 3 numbers with `lpad(4) = 2` (binary numerals of two digits) in
  place of 99999 with `lpad(100000) = 10000`.
* A failing insert consumes no id of the sequence. PostgreSQL may skip one; the
  properties speak of ids that were given to somebody.
* Statements of different requests take effect one at a time (PostgreSQL's row
  locks and READ COMMITTED, statement by statement).
* In `Session` a list is the set of what it holds, the dialog that confirms a
  cancellation is one step with its button, the screens of technicians and settings
  are one, and the requests for technicians, types of work and reports are left out;
  their 401 does to the token what that of a list of orders does. There is one tab.
* `users.role` and the set of users are constant: no code changes them.
* In `Staffing` a name stands for the name and the phone, `Quiet` for a dispatcher who
  looks at a list only when what he asked for has come. The server does each request at
  one moment, as in `Atomic`. `Slots` is how many requests he may have on their way. The proofs of
  `StaffIsCurrent`, `EditKeepsRest` and `DismissedGetsNothingNew` are for one. That is not a promise of the code:
  with two, the list loaded first may arrive last and stays. The theorem on types is for
  any number.
* In `Reports` a counter is the set it counts, so that "differs by these orders" can be
  said; the answer carries sizes. `DateOf` is constant (no code changes a date).
  `MaxChanges` bounds how often orders change in a run; no theorem depends on its value.
* In `Migrations` the orders' statuses, the texts and the accounts but one are left out, and
  requests are done at one moment. That migration 00003 gives ids to distinct names in
  any order is kept (`union` promises none), and that `update ... from` may take either of
  two technicians of one name.

## Runs

The instances of `Backend` have two users (a dispatcher and a montazhnik linked to technician
1), one seeded order assigned to that technician, three order numbers, two ids
of technicians. Two requests at a time meet every pair of statements of two
handlers; a place is used again as soon as its request is done, so that histories
have any length, and a third request in between is one that ran while the other
two waited. Two technicians are needed for one to be reassigned to; three numbers
for two concurrent creations and the overflow.

| run | question |
|---|---|
| `api` | any API call, failures and crashes: integrity, gapless and distinct numbers, refusals without effect, deletions that last, a montazhnik only as himself, and that `Backend` implements `Registry` |
| `screens` | the screens' calls that race, with failures and fairness: an order that is assigned, in work or done has an executor, and every accepted request is answered |
| `apart` | two requests that do not disturb each other: each is done as if at one moment (`ImplementsAtomic`), a field not passed is not changed, a montazhnik touches only his own orders, a 500 means that numbers or ids ran out |
| `lost_update` | a field not passed is changed when two PATCHes overlap (`order.go:50`) |
| `delete_race` | deletion of a technician with orders answers 500, not 409 (`README.md:89`) |
| `foreign_list` | a montazhnik whose technician is deleted lists everybody's orders (`oapi.yaml:73`) |
| `session` | a user who does not wait, all failures, other clients: the server hears the user shown and nothing his role may not ask; another user's orders reach the screen only through a logout during an answer about orders, and an open order leaves the list only through a list asked for before it was opened |
| `patient` | a user who waits: the list is what the server has, every boot ends |
| `foreign_view` | a user who does not wait leaves his list to the next one (`README.md:43`) |
| `staffing` | a dispatcher who waits: the list of technicians is the server's, a form overwrites nothing he left alone, a dismissed technician gets no new order |
| `reports` | the halves of a report differ only by the orders that changed in between, the report shown is the one asked for last, the button comes back |
| `migrations` | through any steps down and up, stops and crashes: executors are carried over, servers find sound tables, every start goes through |

Two more disagreements between code and text follow from the definitions and need no
search. `LPad` takes the number after the last to one in use (`lpad` cuts "100000" to
"10000", `orders.sql.go:230`), so that every creation is refused from then on;
`queries/orders.sql:40` speaks of `max(number)+1`. And `Edited` puts a cancelled order back
to "assigned" when an executor is set, which the screen offers without looking at the
status, although it says of the cancellation that it cannot be undone (`App.tsx:666`).

Symmetry of the two requests is used where no liveness is checked. Deadlock is
checked in every run: the server can always accept a request, a user can always reload
or go to another screen, and a server can always be stopped or started.

The instances of `Session` have the same two users, one technician and two places
for requests: one late answer beside one request of now. `session` starts without
orders and has room for one, so that creations succeed and their answers may come late, and
a later creation is refused (numbers ran out); `patient` starts with one order and has room
for a second one. In `patient` only logins and boots may fail, because a lost answer to a
change does leave the list stale until it is loaded again. `Patient` is a condition
on the user, not a promise of the code. `session` has none: what `MixedOnlyByHastyLogOut` and
`EmptiedOnlyByLateList` leave out is exactly one click made too early, and `foreign_view`
shows that for the first of them that click is enough.

`apart` has the tables of `api`, a call to every branch of the handlers and to every pair
that can disturb each other (`ApartCalls`), and no failing statements, because
`InternalOnlyAtLimits` speaks of a database that works; the theorems about `ImplementsAtomic`,
`FieldNotPassedNotChanged` and `OwnOrdersOnly` need no such condition. Its 390 000 states are
the pairs of statements of two requests without those that `Disturbs` forbids.

`staffing` has one order, the technician who has it and an id for one more: a technician
can be dismissed while he has the order, while it is given to another, and while his
form or the order is open. `reports` has two orders of one day, room for one of the
next day, two technicians and three changes, enough for an order to go from one
technician to another and on to "done" between two statements; one of its periods has no
first day, one holds only the second day. `migrations` has two seeded orders, one without
an executor, room for two more, and three ids for two names, one of them not in the
list of 00003: two technicians of one name and a name only an order knows both occur.

**Fairness.** `FairSpec` is weak fairness of `Step(r)`, the steps the server takes
for a request by itself: Go runs every goroutine that is ready and the driver
returns from every statement, with a result or an error. Nothing is assumed of
clients (`Accept`) and no crash is obliged to happen (`Abort`). `FairSpec` of
`Session` is weak fairness of `Serve(s)` (by `Answered`, or because the connection is
gone and `fetch` rejects) and of `Receive(s)` (a browser runs what waits for a
settled promise); nothing is assumed of the user. `FairSpec` of `Reports` is weak fairness
of `Answers`, for the same reasons. `FairSpec` of `Migrations` is weak fairness of `Up` or
`Serve`: a server that has started runs the next migration, or listens. No step down, no
stop and no request is obliged to happen.

## Proofs

`BackendProofs` proves, for every value of the constants that satisfies the named
assumptions of `Domain`, `Store` and `Backend`:

| theorem | property |
|---|---|
| `TypeCorrect` | `TypeOK` |
| `IntegrityHolds` | `StoreIntegrity` |
| `NumbersStayGapless` | `NumbersAreGapless` |
| `RefusalsHaveNoEffect` | `RefusalHasNoEffect` |
| `CreatedDistinct` | `CreatedOrdersDistinct` |
| `DeletedStay` | `DeletedStaysDeleted` |
| `MontazhnikOnlyAsHimself` | `MontazhnikActsAsHimself` (an action property) |
| `BackendImplementsRegistry` | `ImplementsRegistry` (refinement) |
| `ScreensKeepExecutors` | `AssignedHasExecutor`, if clients send only what the screens send and the seeds satisfy it |
| `LinkedListsOwn` | `MontazhnikListsOwn` (an action property), as long as every montazhnik's account has its technician |

`ApartProofs` proves of `ApartSpec`, under the same assumptions, for any number of requests:

| theorem | property |
|---|---|
| `ApartImplementsAtomic` | `ImplementsAtomic` (refinement), through failures and crashes |
| `ApartKeepsTheRest` | `FieldNotPassedNotChanged` (an action property), through failures and crashes |
| `ApartOwnOrders` | `OwnOrdersOnly` (an action property), through failures and crashes |
| `ApartInternalAtLimits` | `InternalOnlyAtLimits`, if no statement fails |
| `ApartConflictIs409` | `DeleteConflictIs409`, if no statement fails |

Each of the four properties that a run refutes has a theorem that says under which condition
it holds: `ApartKeepsTheRest` beside `lost_update`, `ApartConflictIs409` beside
`delete_race`, `LinkedListsOwn` beside `foreign_list`, `CleanExit` beside `foreign_view`. In
each case the condition is one the counterexample breaks at a single step. For `CleanExit`
the condition is a part of the property, the history `hasty`.

The assumptions are about the constants only: the limit of the numbers, that every
user has a role, that the seeds refer to seeded technicians and have no gap.

The inductive invariant is `IInv`. None of the properties is inductive alone,
because they say nothing of what a request carries from one statement to the
next. `Knows` does: a number in hand was the next one when it was read and every
number below it is still in use (`NumberInHand`; orders are never deleted); a copy
in hand belongs to an order that exists, and a montazhnik's copy names himself
(`EditInHand`); only dispatchers are at the dispatchers' statements, and a deletion
past its check names an id given out (`RightsInHand`); what was written and what
may still be answered fit (`OutcomeInHand`). `OwnNumbers` says that no two requests
have written one number.

The argument has two halves. `StepIsTableStep` reduces any step of any request to
one of six changes of the tables (`TableStep` of `StoreProofs`), from which integrity,
gaplessness (`TableStepSafe`) and monotonicity (`TableStepMonotone`) follow without looking
at requests. `KnowsAfter` shows that the request that moves knows what it should, and
`OthersKnow` that what the others know survives any `TableStep`. The refinement
then maps each `TableStep` to an action of `Registry` or a stutter (`StepRefines`). That
half is about the tables alone and stands in `StoreProofs`.

`LinkedListsOwn` needs `LinkInHand`: whoever was admitted as a montazhnik carries a link from
the middleware to the list. Its condition is about every moment, since a link that is gone
when the middleware loads it is what `foreign_list` is about.

`ApartSpec` has the invariant `IInv /\ AllHold`. `StillHolds` adds what the code relies on
without checking it: the row read and the executor found are still those of the tables when
the write runs, a number is still the next one or the last is in use, nobody has got an order
of the technician about to be deleted, and the link loaded with the user is still his
(`LinkHolds`). The last part is subtle: an account loses its link with its technician, also
while its PATCH is on its way. Only a technician without orders is deleted, so the order that
PATCH names is not his and stays refused, by the link in hand as by the one in the tables.
For the request that moves, one lemma per action shows that `StillHolds` is
established; for the others, that a step which would break it belongs to a request that
`Disturbs` them. The refinement puts the one moment of a request at its write, at the read on
which it is refused, or at the read that answers it; a read-back, or a failure after a write,
is an answer owed (`served`).

`SessionProofs` proves, for every value of the constants that satisfies the
assumptions of `Domain` and `Session`:

| theorem | property |
|---|---|
| `TypeCorrect` | `TypeOK` |
| `ShownUserIsHeard` | `RequestsCarryShownUser` |
| `RequestsFitTheRole` | `RequestsFitRole` |
| `CleanExit` | `MixedOnlyByHastyLogOut`: what is shown is the user's own unless somebody logged out of this page while an answer about orders was owed to it |
| `SettledListHasTheOrder` | `EmptiedOnlyByLateList`: the open order is in the list unless it was opened while a list was owed to the page |
| `WaitingUserIsCurrent` | `ShownIsCurrent`, if the user waits, no other client changes orders and only logins and boots fail |

`SessionInv` is needed because the answer to "me" shows a user without looking at
the token: while the page boots, that question is the only request anybody hears
and it carries the present token (`BootInv`); the screen of a new order is open only
to dispatchers (`RoleInv`). `PatientInv` adds that a waiting user has one request on
its way at a time and that it belongs to the page that sent it (`Belongs`). `CurrentInv`
carries `ShownIsCurrent` across a request: the answer on its way, once worked into the list
(`After`), makes it what the server lists. The server's half is `ListingCreated` (a new order
joins a dispatcher's list) and `ListingUpdated` (an order that is changed was in the list of
whoever may change it, and stays there).

`CleanExit` and `SettledListHasTheOrder` assume nothing of the user, of failures or of
other clients. `OwnInv` is what `CleanExit` needs: while no logout was hasty, an answer about
orders still to come is for the user logged in, and nothing but a login or a boot is to come
while nobody is. For the screen of an order `DetailInv` says that, unless it was opened
hastily, no list is to come while that screen is open, and only a list can take an order off
the list shown: the screen's own changes are of orders that are there, and what they answer
holds the order they changed.

`MigrationsProofs`, `ReportsProofs` and `StaffingProofs` prove, under the assumptions of
their modules:

| theorem | property |
|---|---|
| `MigrationsProofs!TypeCorrect` | `TypeOK` |
| `ServersFindSoundTables` | `ServesSoundTables` |
| `ExecutorsAreCarriedOver` | `ExecutorsCarriedOver` |
| `ReportsProofs!TypeCorrect` | `TypeOK` |
| `HalvesAgreeButForChanges` | `HalvesDifferByMoved` |
| `ShownReportIsTheLastAsked` | `ReportIsTheLastAsked` |
| `StaffingProofs!TypeCorrect` | `TypeOK` |
| `ListOfStaffIsCurrent` | `StaffIsCurrent`, for one request at a time |
| `EditsKeepTheRest` | `EditKeepsRest` (an action property), for one request at a time |
| `DismissedAreSpared` | `DismissedGetsNothingNew` (an action property), for one request at a time |

For the migrations the invariant (`Inv`) says of each version what its columns hold: a
column it has not got is empty (`Schema`, a part of `TypeOK`), which is inductive only
because requests run at version 5 alone (`Serving`); references are sound from version 4 on
(`References`), the numbers have
no gap but where the seeded orders belong (`Numbering`), a row that is not there holds
nobody (`BlankRows`). `NamesKnown` is what carrying the executors over needs: at version
3 every name in the orders is that of a technician, because `Up3` enters all it finds and
`Down4` takes names from technicians.

For the reports the invariant is about the counted load: its counters are right but
for the orders in `moved` (`CountedAgrees`), and every order has the executor its status
asks for (`SoundOrders`); `HalvesAgree` follows when the second half is read. The report shown is the one
asked for last because a screen that is not loading has no load on its way.

For the staff the invariant (`Current`) follows a list from the server to the page: a list
on its way is the present one unless `missed` says otherwise, the open form shows a
present row, and an edit on its way carries what the form showed but for the fields
changed. With one place for requests nothing else is on its way meanwhile. For
dismissals `Given` adds the orders: the executors the page knows are the present ones
(`HeldsCurrent`), and whoever is chosen on an open order is employed or has the order
(`DetailsCurrent`), which survives the loading of the list because after an assignment the
one chosen is the one who has it.

Only model-checked: liveness (`Answered`, `BootEnds`, `ButtonComesBack`,
`StartGoesThrough`), which is out of the prover's reach; that `Disturbs` has no part too
many (a question of counterexamples, not of proofs); and the shape of the four
disagreements. Every other property of a passing run is proved.

## Not modelled

Password hashing and the contents of a token, static files and Swagger,
configuration, the row mappers and generated models (they copy fields), the build; in the
front end the theme, the notices, the search and filter of a list, which only show, and a
second tab. Two tabs share the stored token, and nothing in a page compares it with the
user shown: a request of one tab is heard as the user of the other. No text of the
repository promises anything of two tabs, so that there is nothing to check.

## Plan

1. done: `Domain`, `Store`, `Backend`, `Registry`, their runs and theorems.
2. done: `Session`, one tab against the server, its runs and theorems.
3. done: `Reports`, the two queries of a report and its screen.
4. done: `Migrations`, up and down with stops and crashes.
5. done: `Staffing`, the technicians' screens.
6. done: the proofs of every invariant and action property of these modules.
7. done: `Atomic` and `Apart`, when requests look as if done at one moment, with the
   refinement; for each of the four disagreements, the condition under which the promise
   holds.
8. left: the proofs of `Staffing` for more than one request on its way, with the order in
   which answers come as their condition; a second tab, once the repository says what two
   tabs should do.
