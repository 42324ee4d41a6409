# Formal models of the T-Taxi booking platform

The backend (`src/backend/src`, Node/Express on MySQL) takes bookings for airport
transfers and charters, prices them, dispatches them to drivers, follows the trip, tells
everybody about it, and collects a commission from the driver afterwards. These modules
model the parts of it where a wrong step costs money, leaves somebody standing at the
airport, or tells somebody something false: who drives which booking, which status it may
reach, what is owed for it, and what customers, drivers and administrators are shown.

## 1. Inventory

| Component | State | Operations | Interacts with |
|---|---|---|---|
| Booking record, triggers (`booking.repository.js`, `database/13_driver_assignment_constraints.sql`) | `bookings` (status, driver_id, commission, archive flag, pickup), `booking_driver_assignments` (one active row per booking) | insert/end/accept assignment; triggers copy the driver into `bookings.driver_id` | every service below |
| Status machine (`bookingStatus.service.js`) | the status and commission columns | `transition`, `transitionInTransaction`, `cancelByCustomer` | commission at trip end, assignment release, outbox, mileage |
| Driver call, standby (`driverCall`, `driverBookingAcceptance`) | assignment rows, release markers, the drivers' vehicles | list, claim, release, accept | status machine, settlement blocking, conflict policy |
| Admin dispatch (`adminDispatch`, `bookingAssignmentReopen`, `driverCandidateScoring`) | assignment rows, archive flags | candidates, assign, auto-assign, reassign, unassign, complete, no-show, cancel, archive, restore | the same, and driver rows |
| Trip flow, QR (`driverTripFlow`, `driverQr`) | status | on route, arrived, picked up, end trip | status machine |
| Settlement (`commissionSettlement`) | commission status, slip | upload, approve, manual approve, reject, "has blocking settlement" | status machine, driver eligibility |
| Driver availability (`driverStatus`, `driverSuspension`) | driver status, online flag | online, offline, suspend, unsuspend | bookings and sockets of the driver |
| Urgent negotiation (`urgentNegotiation` and its worker) | negotiations of a booking: locked driver, ETA, failed rounds, deadlines | lock, ETA, customer decision, two timeouts, restart | status machine, dispatch |
| Booking creation (`booking.service.js`, `bookingIdempotency`, `coupon`, `mileage`) | new rows, idempotency keys, the daily sequence, coupons, ledger rows and balance | create, retry, cleanup of keys; accrue, redeem, return | status machine, outbox |
| Manual bookings (`booking.service.js`, charge-item triggers) | metadata, charge items, total, commission columns | create, edit any fields | trip end, settlement |
| Contact dispatch (`booking.service.js`) | messenger connection, markers in `bookings.metadata`, a named lock | connect, edit, verify, dispatch, dispatch again | open calls, outbox |
| Outbox and e-mail (`outboxProcessor`, `notification`, `outbox.repository`) | event rows, notifications, delivery rows | insert with the booking, dispatch after the commit, recover at startup, resend, approved retry | everything that commits |
| Push and inbox (`notification`, `fcmToken`) | device tokens, deliveries, read flags | register, deactivate, deliver, read | outbox |
| Customer access (`guestBookingLookup`, `booking.service.js`, `adminQrReissue`, `driverQr`) | guest tokens, owner, boarding and drop-off codes | look up, claim, issue, reissue, scan | trip flow |
| Applications (`driverApplication`, `driverProfile`) | applications, accounts, drivers, vehicles | submit, resubmit, approve, reject, add vehicle | sessions, open calls |
| Sessions (`auth`, `driverPasswordReset`, `socket/realtime`) | password, token version, reset codes; revoked tokens and sockets in memory | login, refresh, logout, reset, connect | suspension |
| Social sign-in (`socialAuth`) | accounts and links to providers | sign in, register | sessions |
| Location (`driverLocation`, `socket/realtime`) | last positions; rooms in memory | report, read, subscribe, list | trip flow |
| Flights (`flightSync.worker`, `adminFlightMonitor`) | flight fields of transfer details, provider cache, schedule | cycle, run now, sync, correct the number | outbox |
| Pricing (`pricing.service.js`, `cityTransferDistance`) | routes, prices, policies | quote, edit the catalogue | creation (charge-item triggers) |
| Reviews, gate (`review`, `reviewRequest`, `customerGateArrival`) | reviews, ratings, requests | write, moderate, ask, announce | assignment history |
| Customer center (`supportInquiry`) | inquiries, messages | open, read, reply, set status | - |
| Administrators' queue (`adminOperations`) | none | list by view and filter, explain each row | bookings, settlement |
| Driver's job card (`driverJob`, release and ended-assignment policies) | none; reads the driver's latest assignment row | show the card, its actions, why a job ended | trip flow, admin dispatch |
| Transactions (`config/database.js`, all services) | row locks, read views, pooled connections | `SELECT ... FOR UPDATE`, plain reads, commit, rollback | all of the above |
| Content, platform settings, golf fares, vehicle recommendation, clients | rows no modelled rule relates; arithmetic; nothing on the server | - | see section 7 |

What is hard in this code:

* **Two copies of the driver.** Settlement blocking and access checks read
  `bookings.driver_id`, dispatch reads the active assignment row. Only triggers keep
  them equal, through every handler that ends or inserts a row. After the trip he is
  found a third way: as the last assignment row by a timestamp of whole seconds.
* **Two ways to change a status.** Dedicated handlers do the status *and* what goes with
  it; the raw `PATCH /bookings/:n/status` does the status alone.
* **Checks across rows.** "No other job within the hour", "no unsettled trip", "no active
  job" are queries over all of a driver's bookings, repeated by hand with slightly
  different filters (archived rows are skipped, statuses are listed one by one).
* **One question, several programs.** Who may have a call is decided by three SQL
  statements and by JavaScript; why a booking needs attention by SQL and by JavaScript;
  what a manual booking costs is kept four times.
* **Lock order and read views.** A claim locks driver, then booking; an assignment locks
  booking, then driver. Both run the conflict check as a plain read, which under
  REPEATABLE READ shows the rows as of an earlier moment of the transaction. Searches
  for rows that do not exist lock gaps, and a search without an index locks the table.
* **Reads before an await.** bcrypt, the mail server, the flight provider and one query
  after the other: what was read before is written or acted on afterwards.
* **Deadlines against late answers.** In an urgent negotiation a driver has three minutes
  and a customer two; a worker ends rounds while answers arrive, and a unique key of the
  table decides which rows may exist side by side.
* **Work after the commit.** Notifications and mileage happen after the transaction, in
  the memory of a server that may die; retries meet what the first attempt left behind.
* **Two clocks.** The database's wall clock is +07:00, the services write UTC, and columns
  hold whole seconds.

What makes each part correct is stated as the properties of section 4; `PROJECT.json`
lists each hazard at its line with the properties that cover it.

## 2. Modules

| Module | What it is |
|---|---|
| `BookingRecord` | One booking row with its assignment: values, the statements and triggers, the transition table, the per-row queries. Pure operators. |
| `BookingLifecycle` | All bookings and drivers. One action per handler, in one step. |
| `TripContract` | The abstract promise: a booking waits, is held, is ridden, is owed for, ends settled or void. |
| `BookingRefinement` | `BookingLifecycle` with the mapping under which it implements `TripContract`. |
| `DispatchTx` | The dispatch handlers again, taken apart into locking reads, plain reads and commit, run concurrently on InnoDB. |
| `UrgentNegotiation` | `BookingLifecycle` with table `booking_urgent_negotiations`: rounds, deadlines, the timeout worker, and the restart after a driver is lost. |
| `BookingCreation` | A customer's `POST /bookings` statement by statement, with the key, coupon and mileage it spends and what the booking's end gives back. |
| `BookingDesk` | The abstract promise of `POST /bookings`: a request is placed in one step with everything it spends, or leaves no trace; a key is answered again with what it made. |
| `ManualBooking` | The four copies of the money of a booking entered by hand, over every partial edit. |
| `ContactDispatch` | A booking that needs a verified contact: connection, verification, the one call to the drivers. |
| `CustomerMail` | Outbox event, notification, delivery row and mail server for one booking's mails, over crashes and restarts. |
| `PushDevices` | Devices, FCM deliveries over several of them, and who reads a notification. |
| `CustomerAccess` | Lookup, claim into an account, boarding and drop-off codes. |
| `Reviews` | Review, rating, request and gate message, which find the driver in the assignment history. |
| `OpenCalls` | Who may have an open call, asked in four places. |
| `AdminQueue` | The queue's SQL filters against the reasons computed in JavaScript. |
| `FlightMonitor` | The worker, the sync button, the provider and corrections of the flight number. |
| `Pricing` | Catalogue, quotes and the trigger that checks a quote's items. |
| `JobCard` | What a driver is shown of a job, against what the handlers accept and how the job really ended. |
| `Sessions` | A driver's logins, tokens, reset codes, suspension and sockets. |
| `SocialLogin` | Identities, links and accounts. |
| `DriverApplications` | Applications, the drivers and vehicles approvals create, and the lock on `users`. |
| `DriverLocation` | Positions, rooms and who hears of them. |
| `SupportInquiry` | Inquiries, replies and statuses. |
| `NewBookings` | `ManualBooking`, `BookingCreation` and `ContactDispatch` in one specification, with the mapping under which `BookingCreation` implements `BookingDesk`. |
| `CustomerSide` | `CustomerAccess`, `PushDevices` and `Reviews`. |
| `UserAccounts` | `Sessions`, `SocialLogin`, `DriverApplications`, `DriverLocation` and `SupportInquiry`. |
| `OfficeViews` | `OpenCalls`, `AdminQueue`, `FlightMonitor`, `Pricing` and `JobCard`. |
| `MC...` | Instances for TLC. |
| `BookingLifecycleProofs`, `DispatchTxProofs`, `UrgentNegotiationProofs`, `NewBookingsProofs`, `CustomerSideProofs`, `UserAccountsProofs`, `OfficeViewsProofs`, `CustomerMailProofs` | Theorems checked by TLAPS, each about the module it is named after. |

State and code. A `Booking` record is the `bookings` row with its active assignment
folded in: `driver`/`accepted` are the active row of `booking_driver_assignments`,
`driverColumn` is `bookings.driver_id`, `served` the drivers with any assignment row,
`cooling` those whose release marker is younger than 30 minutes, `slip` the commission
receipt in the metadata. A `driver` record is the row of `drivers`; `is_online` is true
exactly when the status is AVAILABLE, so it is not kept apart. Each action carries the
name of its handler and, in its comment, the service method; the line ranges are in
`PROJECT.json`.

Decisions taken in `BookingLifecycle`:

* The clock counts hours: the policies compare one hour (conflict, standby) and two hours
  (cancellation). The 30-minute release cooldown ends whenever time passes.
* Modelled bookings are dispatch-eligible; urgent ones are the subject of
  `UrgentNegotiation`. `Init` has them OPEN without a
  driver, which is how both creation paths insert them; PENDING is in the table but is
  never written. The direct assignment of a new manual booking is `Assign`.
* Auto-assign is `Assign` with a driver the service picks; QR scans are `MarkPickedUp`
  and `EndTrip`; batch archiving is a sequence of single ones.
* A driver may always give an emergency reason, so `Release` has no time guard.
* An archived driver passes `assertDriverOperational`, because its lookup finds no row.
* ADMIN stands for ADMIN and SUPER_ADMIN. Who may call a route is not modelled: every
  driver, customer and administrator may call every handler of theirs.
* PENDING_AFTER_COMPLETION and OVERDUE are never written by any handler and are left out.
  The repair of completed bookings without an obligation has nothing to do: that is
  `CommissionMatchesStatus`.
* `RawAdminStatus` and `Archiving` switch two families of administrator actions, so that
  a property can say what it needs: several rules hold only without them.

Decisions taken in `DispatchTx`: no isolation level is configured, so InnoDB runs
REPEATABLE READ. `findByBookingNumberForUpdate` joins the service type and the driver, so
FOR UPDATE locks these rows too; its subquery on the assignments is a plain read and fixes
the transaction's read view. The settlement check goes through the pool and is a
transaction of its own. The rows of a suspension's list are locked in one step, and a
request writes and commits in one step (its rows are locked, so nobody can tell). The code
has no retry after a deadlock: the victim's handler throws.

Decisions taken in `UrgentNegotiation`:

* All its bookings are urgent, created by customers and not archived. `UrgentInit` has the
  negotiation that `createBooking` inserts. The handlers of `BookingLifecycle` are reused
  as they are; those that reopen a booking are conjoined with `Restart`, the rest leave
  the table alone. `Claim` is refused while a negotiation is active, which an open booking
  always has (`OpenIsNegotiated`), so it is no step here; `CancelByCustomer` is none
  because an urgent pickup is less than two hours away; raw status changes are left out.
* A booking's negotiations are a sequence in the order of their ids; `Newest` is what
  `ORDER BY id DESC LIMIT 1` finds and what `bookings.urgent_negotiation_id` names.
  `Update` and `Restart` carry the unique key on (booking_id, status) as a guard: the
  statement fails and the handler rolls back. It also keeps the sequences finite.
* Deadlines are a flag, `expired`, that `Expire` may set at any moment of a held round.
  The answer and the worker ask for opposite values of it, so both orders are explored.
* The proposal (`eta`, kept in the attempts table by the code) is reset when nobody will
  read it again. Replays of a request that already succeeded write nothing and are no
  steps. A later upper limit on the proposal (it must lie before the pickup) only refuses
  more of them.

Decisions taken in the other modules (each module's header says what it keeps):

* A handler that holds the row it changes for its whole transaction is one action; where
  others can come between two statements each statement is one. So `CustomerAccess` and
  `ManualBooking` have one action per handler, `BookingCreation`, `ContactDispatch`,
  `DriverApplications`, `Sessions` and `SocialLogin` have tasks (or requests) that walk
  through a handler, and a crash or a failed statement may meet them anywhere.
* `BookingCreation`: what a transaction has written is in its task's draft until it
  commits. A locking read of a missing row locks its gap; two inserts that wait for each
  other are a deadlock and one is rolled back. Money is in half baht because the code
  rounds prices to baht when it accrues.
* `BookingDesk` has no transactions, locks or failures. In the mapping (`Promise` of
  `NewBookings`) it sees of the keys only the COMPLETED ones, with the booking and the body
  they are answered for, of the requests under way only the answer they are about to give
  (`AnswersDue`), and the coupons, bookings, ledger and account as committed.
* `CustomerMail`: a task is a dispatch after the commit, a recovery at startup, or an
  administrator's mail. The mail server may have taken a mail whose answer is lost. A crash
  forgets the tasks and nothing else. `PushDevices` is the same delivery for FCM, where
  one delivery serves several devices.
* `ManualBooking`: every field of an edit may be `Same` (left out of the request). The
  note's prefix and the amount it carries are one value, which a later edit parses back.
* `ContactDispatch`: the metadata column is written whole, by whoever read it last.
* `OpenCalls`: one ordinary call, and for every driver at most one other job and one more
  vehicle; scores only order candidates. `Tier` is the order of vehicle types of
  `vehicleMatchTier.js`; the timestamps' offset is the constant `Shift`.
* `AdminQueue`: the request reads the clock when it builds its filters and again when it
  explains a row; SQL gets whole seconds, so time is in half seconds.
* `FlightMonitor`: an answer is the provider's state of the flight that was asked for, its
  cached copy, or a failure; an administrator's sync and the worker both write with the
  row they read in mind.
* `Pricing`: geography is a line, which is all that distance bands and nearest routes need.
  A quote's total and the policies charged on it are recursive functions over its items and
  the policies, in the order the code goes through them. `createBooking` works the quote out
  anew and inserts its items (`Book`); the trigger compares an item's amount with its units
  and looks up the policy or vehicle price it refers to, which is active in the catalogue as
  it is then (an edit committed in between is not modelled).
* `Sessions`: between two queries a handler yields and bcrypt runs outside of any
  transaction. Sockets and revoked tokens are forgotten by a restart.
* `JobCard`: one booking and, for each driver, his latest assignment row of it; the history
  variable `cause` records what really ended his job, to compare with what he is told.
* `SupportInquiry`: the order in which the list shows the inquiries is a function from
  customers to positions. In `FlightMonitor` the rows a cycle takes are any of those that
  its query may return: which of two rows with equal keys comes first is left open.
* `DriverLocation`: rooms are the server's memory, and nothing takes a socket out of one.
* `Reviews`: assignment rows have a timestamp of whole seconds and an id; the driver of a
  completed trip is the newest of them.

The composites `NewBookings`, `CustomerSide`, `UserAccounts` and `OfficeViews` put modules
side by side that answer one family of questions. Their parts keep rows of their own and
take their steps in any order; the theorems are about these specifications, for every value
of the constants. Because the parts share no row, their `MC` modules add a variable `part`,
chosen in the initial state: it says which part moves, the others stay in an initial state
of theirs. So a run explores exactly the union of the parts' behaviours, and each property
is one part's. Two of a kind have the same model values in every part, so that one
permutation group is sound for all of them. Parts that do interact are composed properly:
`DispatchTx` and `UrgentNegotiation` on `BookingLifecycle`, and `BookingRefinement` with
`TripContract`.

## 3. Plan

Done: the record, the lifecycle, its contract, the transactions, the urgent negotiation,
then everything a booking spends, sends and shows, in the order of the table above, and the
theorems of section 5. Left:

1. The timeout worker's batch: it takes the 20 rows that expired first whatever their
   booking's status, so rows it has to skip may starve the others. A model of the queue
   with the batch size as a constant; liveness with fewer stuck rows than that.
2. `ConnectionPool`: handlers that ask the pool for a second connection while they hold
   one; when is that free of deadlock?
3. The receipt upload's idempotency key; the price simulator, golf fares and the
   recommendation of vehicles.
4. More refinement: `CustomerMail` and `ContactDispatch` as implementations of one abstract
   "told at most once", as `BookingCreation` is one of `BookingDesk`.

## 4. Runs

| Run | Question | Properties, which hold unless noted |
|---|---|---|
| `LifecycleAll` | what holds whatever anybody does, raw status changes and archiving included? | `DriverColumnMatches`, `CommissionMatchesStatus`, `ClosedForever` |
| `Handlers` | do the dedicated handlers keep trip and driver together? | `TripHasDriver`, and `KeepsContract`: `TripContract` is implemented |
| `Dispatch` | what holds between bookings and between a booking and its driver? | `NoDoubleBooking`, `SuspendedHasNoTrip`, `UnsettledGetsNoWork` |
| `Transactions` | are concurrent dispatch requests serializable, and can all wait? | `CommitsAreHandlers` (every commit is a handler of `BookingLifecycle`), `NoDoubleBooking`, no deadlock (TLC's check) |
| `Urgent` | does the negotiation agree with its booking, administrators' assignments included? | `OpenIsNegotiated`, `GivenUpInTime` |
| `RoundsEnd` | does every round end while the worker runs, and can a booking always be reopened? | `RoundsEnd` (liveness), `MayReopen` |
| `CustomerMail` | what do crashes do to mails? | `OneMailPerSlot` (none twice), `RetryIsSafe` (none retried that may have arrived), `NoEventIsLost` |
| `Bookings` | how does a booking come to be? | manual: `MoneyAgrees`; creation: `OneBookingPerKey`, `SpentOnce`, `MileageFollowsTrip`, and `CreationIsAtomic`: `BookingDesk` is implemented; contact: `CalledOnce` |
| `Customers` | what does a customer hold? | access: `CodesMoveOnce`, `OwnerStays`, `ListOnlyGrows` (what a guest could read stays readable); push: `NoSecondPush`; reviews: `RatingsAreEarned` |
| `Accounts` | what do accounts open? | sessions: `SessionsEndWithPassword`, `CodeWorksOnce`, `SuspendedHearsNothing`; applications: `ApplicationsAreSettled`; social: `IdentityIsOneAccount`; location: `HeardOnTrip`; support: `InquiriesAreFound` |
| `Office` | is what is shown true? | calls: `ListMatchesClaim`, `InvitedSeesCall`; queue and job card: `ScreensAgree`; flights: `FlightIsTheBookings`; pricing: `QuotesHold` |
| `StaleView` | close pickups of different service types | `NoDoubleBooking` is violated: two assignments miss each other |

Every property has a mutant of the code that breaks it, in `PROJECT.json`.

Bounds, and why they are enough.

* `LifecycleAll`, `Handlers`: one booking, two drivers, clock 0..3. The properties speak of
  one booking at a time and of at most two drivers (the old and the new one), and no handler
  reads another booking except to refuse; hour 3 is the pickup, so the clock passes the
  cancellation deadline (hour 1), the standby window (hour 2) and the pickup itself.
* `Dispatch`: two bookings, because its properties relate two, with pickups one hour
  (conflict) and two hours (none) apart; the clock only needs to pass hour 1 so that a
  suspension meets a booking that is overdue.
* `Transactions`: two transactions for every race between two of them, three bookings so
  that a driver can hold one while two requests compete; four requests allow a release or
  completion after an assignment.
* `Urgent`, `RoundsEnd`: one booking, since no negotiation reads another booking's; two
  rounds reach both outcomes of a failure, and of two proposals one is faster; three of each,
  the program's own `MAX_ATTEMPTS`, are in `RoundsEnd`. The booking may lose its driver and
  be negotiated again in all of them.
* `CustomerMail`: two tasks, so that a recovery meets a dispatch or an administrator meets
  either; two retries; two sends, because the claim is that there is no second; one crash or
  failure, which may happen anywhere.
* `Bookings`: amounts 1..3 stand below, at and above each other, and three edits reach every
  order of setting, leaving out and removing a field. Creation has two tasks, two keys, one
  coupon and five kinds of requests (a retry, the key with another body, another key for
  the same mileage, no key, a guest), one failure. Contact dispatch has two tasks, two
  connections (so that one replaces the other), one edit, one failure.
* `Customers`: two bookings, so that a code can be shown for the wrong one; two customers
  claim; three codes, so that one is reissued. Pushes: two devices, two workers, three
  attempts, one excuse for a second copy. Reviews: three assignment rows over two drivers within one second.
* `Accounts`: two requests, two codes, two guesses (the program has five), one suspension;
  two applications with the same data; two sign-ins of one identity; two drivers, two
  bookings and one rider; three messages of an inquiry.
* `Office`: three vehicle types (equal, higher, lower), pickups that conflict, just do not
  conflict and are far apart; the queue's thresholds are scaled to 2, 4, 6 and 8 half
  seconds, which keeps their order and distinguishes each boundary from its two
  neighbours; one booking whose flight is corrected once. The catalogue has a route of each
  service, an added region fare and two regions that share one, one or three vehicles, places
  on either side of each distance limit, and one edit. The job
  card has two drivers (who has the job and who had it), two pickups, one arrival and six
  hours: each window's boundary lies inside.

Drivers, transactions, tasks and requests are symmetric: no action or property names one.
No symmetry is used where liveness is checked. Deadlock is not checked where requests and
edits are capped: such a run stops when they are used up.

Fairness. Nothing in the dispatch handlers is obliged to happen: each waits for a person,
and their specifications state no fairness; nor do those of the other modules, whose
properties are all safety properties. `UrgentSpec` states it for three actions.
`Expire` is time passing. `EtaTimeout` and `DecisionTimeout` are the worker: the scheduler
re-arms its timer after every cycle, also after one that failed, and a cycle goes through
the expired rows one by one with each failure caught. Weak fairness is enough, because an
expired round stays what it is until somebody ends it. The assumption holds only while
`URGENT_NEGOTIATION_TIMEOUT_ENABLED` is set (its default is false: then a round that
nobody answers is never ended) and while fewer than 20 expired rows belong to bookings the
worker skips. Drivers and customers are obliged to nothing.

## 5. Theorems

Every property of the passing runs but the liveness property `RoundsEnd` is stated by a
theorem, for every value of the constants.

`BookingLifecycleProofs` begins with one lemma per statement of `BookingRecord`: what it does
to the fields the invariants mention and that it keeps a record well-typed. The inductive
invariant is

    TypeOK /\ DriverColumnMatches /\ EndedReleasesDriver /\ CommissionMatchesStatus

`DriverColumnMatches` is inductive only together with the types, and
`CommissionMatchesStatus` needs `EndedReleasesDriver` and its own second half: settling
must find a DUE commission to leave it PAID. `Invariance` proves it by one step per
handler; the four parts, `ClosedStays` and `CommissionNeverBack` follow, for any number of
bookings and drivers, any pickup hours, with raw status changes and archiving.

Under `~RawAdminStatus` a second invariant adds that a booking is a job exactly while it
has a driver, and that a completed one is paid or waived: `TripsHaveDrivers`,
`CompletionsAreSettled`, `RidersKeepDrivers`. On it rests
`HandlersKeepContract`, in the same module: the initial states map to initial states
of `TripContract` and each handler to one of its steps or to a stutter. The assumption is
needed: a raw change completes a booking whose commission is still DUE.

The properties of `Dispatch` speak of pairs of bookings and of drivers. Without archiving
every step either grants a job (claim, assign, reassign: `Granted`), and then the checks on
pickups, settlement and suspension passed for the driver it grants it to, or it lets every
booking keep or lose its driver (`Stays`); and but for the edit of a manual booking it leaves
the pickups alone (`Keeps`). `GivesOrKeeps` shows this handler by handler. What the driver's SQL looks at is all he
holds (`VisibleInvariance`), and with `TripsHaveDrivers` the three theorems
`NobodyIsDoubleBooked`, `DebtorsGetNoWork` and `SuspendedDriversStand` follow. What they
assume excludes what goes wrong in the code without it: an archived booking is not seen by
the checks, a raw status change leaves a driver on a booking that is no job, and so none
to compare pickups with, and (for `NobodyIsDoubleBooked` alone) the edit of a manual booking
moves its pickup without asking. `DebtorsGetNoWork` holds with raw changes too.

`DispatchTxProofs` does the same for requests that run at once. Its `IInv` says of every
transaction, for each statement it is past (`Passed`, by the `Position` of the statement
in the script, which the rest of the script keeps to: `InOrder`):

* past the locking reads it holds the locks of its driver, its booking, the booking's
  service type and the booking's driver, and what it checked of those rows still stands;
* past `findByBookingNumberForUpdate` its read view agrees with the rows of every booking
  of that service type, since nobody else has been able to write one;
* past the settlement check, which locks nothing, its driver still owes nothing: only
  the end of a trip of his could change that, and it needs his row, which is locked;
* past the list of a suspension it holds every row in the list, and none was added, since
  whoever adds one needs the driver's row.

The second and third are what makes the invariant inductive: both are reads without a
lock, protected by locks taken for something else. `UndisturbedKeeps` is the frame: a step that writes
no row a transaction has locked keeps all it knows. `CommitKnows` draws from `IInv` what
holds as it writes, and from it follow `CommitsSerialize` (each commit is a handler of
`BookingLifecycle`) and `NobodyIsDoubleBooked`, both for any number of requests if
`CloseShareService`: bookings whose pickups are too close have the same service type. Without that the
read view may be old where it matters, and `StaleView` shows what then happens.
`SuspendedDriversStand` and `TypeCorrect` need no assumption.

`UrgentNegotiationProofs` has two layers. `NInv`, of the negotiations alone, says that a row
has a driver exactly while he is to answer, is being decided on or was chosen, that what
the customer is asked is faster than what was refused, and that it is given up exactly
with the last round; it is inductive whatever the administrators do and yields
`AlwaysFaster`. `Linked` ties it to the bookings: an open booking's newest row is active,
an active row's booking has no driver, a given-up row's booking is cancelled. It is
inductive together with the invariant of `BookingLifecycle`, whose lemmas per handler are
cited for every step that is not a round's, and needs `~AdminAssigns`: an administrator's
assignment leaves the round active (`OpenIsNegotiated` and `GivenUpInTime` are
model-checked with such assignments as well). A third invariant, that only the newest row
is ever active, gives `ReopeningIsNotRefused`.

`NewBookingsProofs` has four parts. *Manual bookings*: `MoneyAgrees` (`BooksBalance`,
`DriverOwesSurplus` and `EnteredChargeStands`) from `RowInv`, an invariant of one row: its total is the metadata's
charge, which is the sum of the charge items; the commission follows payout, charge and
collection method, and what the driver owes is that commission once the trip has ended; and
a charge that was noted is the one in force. A partial edit rebuilds the charge from the
items it finds, so each copy is needed to keep the others. The one assumption is on the
data: no amount is smaller than that of a name sign (`NameSign`), which is part of every
charge it is added to.

*Customers' bookings*: `CreationInv` says what a request holds at each step of its
transaction (`TaskInv`: the lock of its key, the gap or the lock of the daily sequence with
the next number, the lock of a coupon that is still available and of an account that still
covers its discount) and what the tables then agree in. `KeyInv` is the core: a PENDING key is
seen only by the transaction that writes it, a COMPLETED one names the only recent booking made with it,
from the same request. `OrderInv` keeps the rows above the sequence empty. `BalanceInv` is
the account as its opening balance plus the sum of the ledger; that a step which posts
to one row moves the sum by that much is proved from the fold's definition over finite sets,
by counting up to their cardinality. `LedgerInv` and `EffectInv` say
that an end is credited or returned at most once, by the task that ended the booking. It
follows that a key makes one booking, that a coupon pays once and that the account is its
ledger. That a booking's discount is exactly what it took from the account needs
`WholeFares`: prices are whole baht. With other fares the rounding differs, and
`AccountIsItsLedger` is what is left. `MileageFollowsTrip` is inductive relative to
`CreationInv`.

*Creation is atomic*: `BookingsAreMadeAtOnce` shows that `BookingCreation` implements
`BookingDesk`, for any requests and any number of tasks. Every statement that writes no table
the customer sees is a stutter (the lemmas named `...Hidden`): most of them change only the
task, its draft, a lock or a PENDING key. The commit, `Finish`, is `Place`: what `CreationInv`
says of its draft (the number is the next one, the coupon is still available, the account
still covers what is taken, the key is its own) is what `Place` asks for, although all of it was
read statements earlier. The other steps that show are single steps of the desk each (`...Seen`):
a replay is `AnswerAgain`, a cleanup `Forget`, a credit `Earn`, a return `GiveBack`. Beyond
`CreationInv` it needs `DeskInv`: what a request carries through its statements is still
what the client sent and what its coupon is worth (`SentInv`), and a booking that was given
up with its last round is cancelled and nobody is returning its mileage (`GivenUpInv`). No
hypothesis is needed: where fares are not whole baht, `Place` itself takes nothing from
the account for a mileage discount that ends in half a baht, as the code does.

*Calls*: in `ContactInv`, `DispatchInv` says that only who holds the named lock writes the
markers in the metadata. So what a request has read of them still holds as it writes them
(although a customer's edit may have changed the rest), and a call that was committed is not made again.

`CustomerMailProofs` is about the pipeline of one booking's mails, for any number of tasks,
crashes and failed queries. Its `IInv` is built from:

* `SourceInv`: what a task works on exists and was published;
* `TokensInv`: no two tasks store the same event's notification and no two recover deliveries,
  because each such right is handed over once, by the commit or the startup;
* `AttemptInv`, `BlotInv`: a delivery that was ever offered to the mail server carries a mark
  that no automatic send passes, and nobody is about to overwrite that mark;
* `HolderInv`: of the tasks that work on a mail one holds the attempt that is current;
* `AcceptedInv`: the server takes at most one copy, none of what is still to be sent;
* `SlotInv`: a mail of the administrators' is approved only for a slot whose automatic mail
  was not tried.

The first four are needed to keep the fifth: after a crash only the row tells what was
tried, and the hazard is a task whose claim passed before another's result was
recorded. `OneMailSafe`, `RetrySafe` and `EventsKept` follow. The assumption is
that a recovery's batch holds the two events one booking may publish (`MailAssumption`; the
program's batch is 50).

`UserAccountsProofs`:

* *Sessions*: `TokensFresh` with `LoginsFresh` (what carries the current version, a token or a
  login about to sign one, carries the current password), `SocketsShut` (while the driver is
  suspended no socket is about to join, and once they were closed none is in the rooms), and
  `CodesInv` (only the newest code is unused, and a reset that compares holds its row and has
  read it as it is). They give the three properties for any number of overlapping requests.
* *Social sign-in*: `PlaceholderInv`: an account made for an identity is linked, about to be
  linked by the sign-in that made it, or was left without a link by a failure (`cut`). The
  unique email does the rest.
* *Applications*: `TransactionInv` says that who has searched `users` holds them, and that
  nothing pending then equals what is about to be inserted; `AccountInv` and `DriverInv` follow the
  rows an approval writes together.
* *Location*: a handler's list of rooms is of trips its driver is on, or of trips that ended
  since and whose last report is owed (`ReportInv`); who is in a room was let in (`LetIn`).
* *Inquiries*: unless a status was set by hand it says whether anybody replied (`InquiryInv`),
  and a reply that read another status than NEW writes over none that is NEW (`ReplyInv`).

`CustomerSideProofs`:

* *Access*: `ColumnsInv` says that a booking's column holds the latest code of its purpose,
  and `MovesInv` what every move was made with, and that the code's column is used since, unless
  another code is there now. `CodesMoveOnce` is the first part of it. `Unborn` (nobody owns a booking
  that does not exist) is what `OwnerStays` needs of the creation.
* *Pushes*: `CreditInv` counts. One copy of a notification may reach a device for nothing;
  every worker that is not done with it has that one or an excuse to spend, and an idle
  notification that will be served again has kept it. `ListOnlyGrows` follows from what the
  inbox's query looks at.
* *Reviews*: the last assignment row of a booking is the latest by the timestamp of whole
  seconds and alone active (`RowsInv`), so that the newest row of a trip that ended is the row of
  who drove it (`TripInv`), to whom the review is credited (`ReviewInv`).

`OfficeViewsProofs`:

* *Calls*: the type invariant suffices; the work is in two lemmas that the SQL and the
  JavaScript compute the same vehicles (`SameVehicles`) and the same conflict
  (`SameConflict`), for any types, tiers and pickup times.
* *Flights*: `Truthful` holds of every row and of every row a caller has read and may write back
  (`AskedInv`): an answer is written only over the number that was asked for. It needs that only
  customers correct flight numbers (`Editors`), since an administrator's correction keeps
  the old flight's data until the next sync.
* *Prices*: `PriceInv` is the types and `QuoteCanBeBooked`. The work is at `Book`: whatever
  the catalogue holds, each way to a quote yields items whose amount is that of their
  units and which refer to active rows, so that the trigger accepts them.
  The other half of `QuotesHold`, that of two rides charged by one route the closer
  costs no more, compares two quotes of one catalogue: they have the same base and
  policies, and the surcharge grows with the ride (`DistanceSteps` is monotone). The sum over a
  quote's items and the policies charged on it are recursive functions; that what holds of
  the first item and is kept by each further one holds of all is proved each time it is needed
  by taking the least length for which it would fail. The hypothesis is `ShortWithinRegions`: no
  two places of a region are farther apart than a city transfer is long, but for the ten
  kilometres included. Without it the property is false: with region fares on, a ride from region to
  region costs its route's price without surcharge, while a closer one within one wide
  region goes by the same route with a surcharge. `MCOffice` evaluates the
  hypothesis on its catalogue.
* *Queue and card*: `QueueInv` says that an explained row was selected by filters built no
  later than the explanation, and that is all `ScreensAgree` needs beside one lemma per
  filter about the SQL and the JavaScript. In `CardInv` one assignment row is active exactly
  while the booking is held, and the marker of an ended one goes with what ended it (`EndedAs`).

What is assumed. Each module's assumptions on its constants are named where they are
declared and evaluated by every run. Most say that a value which stands for "none" is no other
(`NoDriver`, `None`, `NoTask`), that times and amounts are numbers and switches Boolean, or
that requests have the fields of the API's. Those of substance are `MailAssumption` and `NameSign`,
above, and `SocialAssumption`, by which a placeholder address is no identity's verified
email. Hypotheses that a theorem states itself, because the code
does not guarantee them: `~RawAdminStatus`, `~Archiving`, `~AdminAssigns`, no manual bookings,
`CloseShareService`, `WholeFares`, `Editors \subseteq {"CUSTOMER"}`, `ShortWithinRegions`. But for
`~AdminAssigns`, without which the invariant of the proof does not hold although
`OpenIsNegotiated` and `GivenUpInTime` do in the run, each excludes behaviour of the code that
breaks the property; section 6 lists what a document contradicts.

Proved as well, and not repeated in a run: `EndedReleasesDriver`, `CommissionMovesForward`,
`CompletedIsSettled`, `RiderKeepsDriver`, `EverFaster`,
`CandidateIsAssignable`, and the types of all the modules with proofs.

Only model-checked:

* `RoundsEnd`, and that requests of `DispatchTx` never all wait without a victim: liveness
  under fairness and enabledness, which the prover does not treat.

No module needs a recursive operator. What a recursive function computes is proved about
(`Pricing`) as far as counting up to a length goes.

## 6. Disagreements between the code and its documents

`StaleView` ends in a counterexample: the conflict check in an old read view lets two
assignments double-book a driver against driverBookingConflictPolicy.

Others show in a model without a run of their own. Most are stated beside the module's
other properties; each fails when it is checked:

| Stated as | The code | What says otherwise |
|---|---|---|
| `NoDoubleBooking` with manual bookings | editing the pickup of an assigned manual booking checks no conflict (`booking.service.js:2394`) | driverBookingConflictPolicy |
| `CompletedIsSettled` with raw status changes | a raw change completes while the commission is DUE (`bookingStatus.service.js:71`) | README.md:11 |
| `UnsettledGetsNoWork` with archiving | an archived debt blocks nothing (`booking.repository.js:2976`) | docs/DRIVER_UX_FLOW.md:28 |
| `BroadcastHasNoDriver` with administrators' assignments | an urgent booking keeps its round when it is assigned (`adminDispatch.service.js:1476`) | scripts/phase3-step4-urgent-timeout-readonly-audit.sql:21 |
| `MayAccept` | a second acceptance collides with the first on the unique key (`42_urgent_request_negotiation.sql:28`) | tests/urgentNegotiation.service.test.js:812 |
| `CancelledIsRefunded` | the last failed round cancels without returning mileage (`urgentNegotiation.service.js:963`) | tests/mileage.test.js:465 |
| `EditsSurvive` | the dispatch writes metadata it read before a customer's edit (`booking.service.js:970`) | tests/bookingContactDispatchDurable.test.js:279 |
| `CooldownEnds` | a +07:00 column is compared with UTC: the cooldown lasts 7.5 hours (`booking.repository.js:1542`, `:2523`) | driverAssignmentRelease.policy.js:100 |
| `RetryAsksProvider` | a failed attempt counts as a synchronisation, so a retry after less than the cooldown is refused and skipped (`flightSync.worker.js:147`, `adminFlightMonitor.service.js:182`) | tests/flightSyncWorker.test.js:169 |
| `SurchargePerVehicle` | by the nearest route the surcharge is that of one vehicle whatever their number (`pricing.service.js:176`); divided by three it is no whole satang and the trigger refuses the booking | cityTransferDistance.constants.js:11 |
| `StaleIsMarked` | the reported age and the mark come from one column read in two time zones (`driverLocation.service.js:84`, `:168`) | tests/driverLocation.test.js:351 |
| `NameOpens` | the lookup selects no name to compare with, so no name authorizes it (`booking.repository.js:809`) | tests/guestBookingLookup.test.js:695 |
| `ActiveCodeStays` | asking for the code again replaces one that is still valid (`booking.service.js:2859`) | tests/customerBoardingQr.test.js:50 |
| `PayoutIsCharged` | an edit may leave the payout above the charge, and the driver who collects gets less than his payout (`booking.service.js:2610`) | tests/adminManualBooking.test.js:568 |

Two more can be read off one action: `manualApproveWithoutReceipt` pays without the receipt
that docs/OPERATION_FLOW.md:28 requires, and assignment and claim give a driver a second job
more than an hour away although docs/OPERATION_FLOW.md:32 excludes it.

Effects the models show and no document decides: archiving and restoring a suspended
driver leaves him OFFLINE, not SUSPENDED; a former driver may still upload the slip of a
booking; a driver who takes over a trip under way by reassignment can never confirm
standby; a customer's third rejection turns a NO_SHOW booking into a CANCELLED one; a driver
suspended after his proposal may still be accepted; pickups exactly an hour apart conflict;
an outbox row that a dead server had claimed for dispatch is selected by no later claim,
which is why `NoEventIsLost` speaks of rows nobody has claimed yet; a social sign-in that failed between account and link leaves
an account its identity is locked out of; a socket whose check passed before a suspension
may join after it; an administrator's correction of a flight number keeps the old flight's
data until the next sync; a deleted route keeps its key, so that it cannot be made again.

## 7. Not modelled

The pool's limit, the worker's batch, and the receipt upload's idempotency key are planned
(section 3); the hazards they carry are listed without a property. Golf fares, charters' fares,
the recommendation of vehicles and the price simulator are table lookups and arithmetic
without state. Content pages and platform settings are rows no modelled rule relates; the
settings a rule reads are constants of its module. Uploaded files, texts of messages, which
roles an event fans out to, logging and the wording of errors are left out everywhere. Who
may call a route is taken from the route tables as it is. The clients hold no state of the
server.
