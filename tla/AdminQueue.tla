------------------------------ MODULE AdminQueue ------------------------------
(***************************************************************************)
(* The administrators' booking queue.  A request builds its filters from   *)
(* the view and the hour (adminOperations.service), the database selects   *)
(* the rows (buildAdminBookingFilters), and the process then says of every *)
(* row why it needs attention, how urgent it is and which button to show   *)
(* (evaluateOperations).  The selection and the reasons are two programs   *)
(* for one question, written in SQL and in JavaScript, and they look at    *)
(* the clock at two moments: SQL gets whole seconds, the process has       *)
(* milliseconds.  One booking is followed; a request reads it once.        *)
(***************************************************************************)
EXTENDS Integers, FiniteSets

CONSTANTS HalfHour, TwoHours, SixHours, Day,  \* OPERATIONS_THRESHOLDS, in half seconds
          HistoryDays,                        \* DEFAULT_HISTORY_DAYS
          PickupTimes, UpdateTimes,           \* when bookings are due, were last written
          StartTime, MaxTime                  \* bounds of the clock

Waiting == {"PENDING", "OPEN", "CONFIRMED"}         \* UNASSIGNED_BOOKING_STATUSES
Operating == {"DRIVER_ASSIGNED", "ON_ROUTE", "DRIVER_ARRIVED", "PICKED_UP"}
Closed == {"COMPLETED", "CANCELLED", "NO_SHOW"}     \* TERMINAL_BOOKING_STATUSES
PrePickup == Waiting \union (Operating \ {"PICKED_UP"})
Statuses == Waiting \union Operating \union Closed \union {"SETTLEMENT_PENDING"}

(* DATETIME columns hold whole seconds, formatThailandDateTime drops the   *)
(* rest.                                                                   *)
Seconds(t) == t - (t % 2)

Views == {"needs_action", "issues", "today", "upcoming", "in_progress",
          "settlement", "completed", "cancelled", "all"}
Badge == {"RECEIPT_REJECTED", "RECEIPT_SUBMITTED", "RECEIPT_MISSING", "ADMIN_CONFIRMED"}

(* What one row of the queue tells apart.  commission_status, the slip and *)
(* the active assignment follow the status as the dispatch and settlement  *)
(* handlers keep them (TripHasDriver, CommissionMatchesStatus and          *)
(* CompletedIsSettled of BookingLifecycle); a customer rates a trip that   *)
(* has ended (isBookingReviewEligible).                                    *)
Row ==
  {r \in [status: Statuses, commission: {"NOT_DUE_YET", "DUE", "PAID", "WAIVED"},
          slip: {"none", "attached", "rejected"}, assigned: BOOLEAN,
          released: {"never", "by_driver", "by_suspension"},
          lowRated: BOOLEAN, archived: BOOLEAN,
          pickup: PickupTimes, updated: UpdateTimes] :
     /\ r.assigned <=> r.status \in Operating \union {"SETTLEMENT_PENDING"}
     /\ r.status = "SETTLEMENT_PENDING" => r.commission = "DUE"
     /\ r.status = "COMPLETED" => r.commission \in {"PAID", "WAIVED"}
     /\ r.status \notin {"SETTLEMENT_PENDING", "COMPLETED"} =>
          r.commission = "NOT_DUE_YET" /\ r.slip = "none" /\ ~r.lowRated}

-----------------------------------------------------------------------------
(* Why a booking needs attention (evaluateReasons).                        *)

Unassigned(r) == ~r.assigned
Owing(r) == r.status = "SETTLEMENT_PENDING" /\ r.commission = "DUE"
ReceiptRejected(r) == Owing(r) /\ r.slip = "rejected"
ReceiptSubmitted(r) == Owing(r) /\ r.slip = "attached"
ReceiptMissing(r) == Owing(r) /\ r.slip # "attached" /\ ~ReceiptRejected(r)

Reason(code, severity, priority) ==
  [code |-> code, severity |-> severity, priority |-> priority]

AlarmReasons(r, now) ==
  {x \in {Reason("LOW_RATING", "URGENT", 10)} : r.lowRated}
  \union {x \in {Reason("RECEIPT_REJECTED", "URGENT", 20)} : ReceiptRejected(r)}
  \union {x \in {Reason("PICKUP_OVERDUE_UNASSIGNED", "URGENT", 30)} :
            r.pickup < now /\ Unassigned(r)}
  \union {x \in {Reason("PICKUP_OVERDUE_STALLED", "URGENT", 40)} :
            r.pickup < now /\ r.status \in PrePickup}
  \union {x \in {Reason("PICKUP_SOON_UNASSIGNED", "SOON", 110)} :
            now <= r.pickup /\ r.pickup <= now + HalfHour /\ Unassigned(r)}

(* A driver gave the booking back, or lost it by a suspension.             *)
ReassignmentReason(r, now) ==
  LET left == r.pickup - now
  IN  CASE r.released = "by_suspension" /\ left <= Day ->
             Reason("SUSPENDED_DRIVER_REASSIGNMENT", "URGENT", 22)
        [] r.released = "by_suspension" /\ left > Day ->
             Reason("SUSPENDED_DRIVER_REASSIGNMENT", "SOON", 102)
        [] r.released = "by_driver" /\ left <= TwoHours ->
             Reason("CRITICAL_REASSIGNMENT", "CRITICAL", 15)
        [] r.released = "by_driver" /\ TwoHours < left /\ left < SixHours ->
             Reason("URGENT_REASSIGNMENT", "URGENT", 25)
        [] OTHER -> Reason("DRIVER_RELEASED_REASSIGNMENT", "SOON", 105)

AssignmentReasons(r, now) ==
  IF r.released # "never"
    THEN {x \in {ReassignmentReason(r, now)} : Unassigned(r)}
    ELSE {x \in {Reason("CRITICAL_UNASSIGNED", "CRITICAL", 18)} :
            Unassigned(r) /\ now <= r.pickup /\ r.pickup - now <= TwoHours}
         \union {x \in {Reason("URGENT_UNASSIGNED", "URGENT", 28)} :
            Unassigned(r) /\ TwoHours < r.pickup - now /\ r.pickup - now < SixHours}

ReceiptReasons(r) ==
  {x \in {Reason("RECEIPT_REVIEW", "SOON", 120)} : ReceiptSubmitted(r)}
  \union {x \in {Reason("RECEIPT_MISSING", "SOON", 130)} : ReceiptMissing(r)}

DelayReasons(r, now) ==
  LET elapsed == now - r.updated
  IN  {x \in {Reason("BOARDING_DELAY", "REVIEW", 210)} :
         r.status = "DRIVER_ARRIVED" /\ elapsed >= HalfHour}
      \union {x \in {Reason("LONG_TRIP", "REVIEW", 220)} :
         r.status = "PICKED_UP" /\ elapsed >= SixHours}
      \union {x \in {Reason("STATUS_STALE", "REVIEW", 230)} :
         r.status \in Waiting /\ elapsed >= TwoHours}

Reasons(r, now) ==
  LET found == AlarmReasons(r, now) \union AssignmentReasons(r, now)
               \union ReceiptReasons(r) \union DelayReasons(r, now)
  IN  IF found = {} /\ Unassigned(r) /\ r.status \in Waiting
        THEN {Reason("UNASSIGNED_BOOKING", "REVIEW", 240)} ELSE found

(* The first reason after the sort by priority.                            *)
Primary(reasons) == CHOOSE x \in reasons : \A y \in reasons : x.priority <= y.priority

(* The button of the row.                                                  *)
DefaultCta(r) ==
  CASE Unassigned(r) /\ r.status \notin Closed -> "ASSIGN_DRIVER"
    [] r.assigned /\ ReceiptSubmitted(r) -> "CONFIRM_SETTLEMENT"
    [] r.assigned /\ r.status = "SETTLEMENT_PENDING" /\ ~ReceiptSubmitted(r) ->
         "SETTLEMENT_DETAIL"
    [] OTHER -> "VIEW_BOOKING"

(* Mutant of CtaOf: a missing slip is put forward for approval too.        *)
CtaOfMissing(r, code) ==
  CASE code = "LOW_RATING" -> "REVIEW_RATING"
    [] code = "RECEIPT_REJECTED" -> "SETTLEMENT_DETAIL"
    [] code \in {"RECEIPT_MISSING", "RECEIPT_REVIEW"} -> "CONFIRM_SETTLEMENT"
    [] code \in {"PICKUP_OVERDUE_UNASSIGNED", "PICKUP_SOON_UNASSIGNED",
                 "CRITICAL_REASSIGNMENT", "URGENT_REASSIGNMENT",
                 "DRIVER_RELEASED_REASSIGNMENT", "CRITICAL_UNASSIGNED",
                 "URGENT_UNASSIGNED"} -> "ASSIGN_DRIVER"
    [] code \in {"PICKUP_OVERDUE_STALLED", "BOARDING_DELAY", "LONG_TRIP",
                 "STATUS_STALE"} -> "CHECK_STATUS"
    [] OTHER -> DefaultCta(r)

CtaOf(r, code) ==
  CASE code = "LOW_RATING" -> "REVIEW_RATING"
    [] code \in {"RECEIPT_REJECTED", "RECEIPT_MISSING"} -> "SETTLEMENT_DETAIL"
    [] code = "RECEIPT_REVIEW" -> "CONFIRM_SETTLEMENT"
    [] code \in {"PICKUP_OVERDUE_UNASSIGNED", "PICKUP_SOON_UNASSIGNED",
                 "CRITICAL_REASSIGNMENT", "URGENT_REASSIGNMENT",
                 "DRIVER_RELEASED_REASSIGNMENT", "CRITICAL_UNASSIGNED",
                 "URGENT_UNASSIGNED"} -> "ASSIGN_DRIVER"
    [] code \in {"PICKUP_OVERDUE_STALLED", "BOARDING_DELAY", "LONG_TRIP",
                 "STATUS_STALE"} -> "CHECK_STATUS"
    [] OTHER -> DefaultCta(r)

PrimaryCta(r, reasons) ==
  CASE Unassigned(r) /\ r.status \in Waiting -> "ASSIGN_DRIVER"
    [] r.status \notin Waiting /\ reasons # {} -> CtaOf(r, Primary(reasons).code)
    [] r.status \in Operating /\ reasons = {} -> "CHECK_STATUS"
    [] OTHER -> "VIEW_BOOKING"

SettlementState(r) ==
  CASE r.status # "SETTLEMENT_PENDING" -> "none"
    [] ReceiptRejected(r) -> "RECEIPT_REJECTED"
    [] r.status = "SETTLEMENT_PENDING" /\ r.commission = "PAID" -> "ADMIN_CONFIRMED"
    [] ReceiptSubmitted(r) -> "RECEIPT_SUBMITTED"
    [] OTHER -> "RECEIPT_MISSING"

Operations(r, now) ==
  LET reasons == Reasons(r, now)
  IN  [codes |-> {x.code : x \in reasons},
       severity |-> IF reasons = {} THEN "none" ELSE Primary(reasons).severity,
       cta |-> PrimaryCta(r, reasons), settlement |-> SettlementState(r)]

-----------------------------------------------------------------------------
(* The filters of a request (buildFilters) and what they select.           *)

Never == -1

(* The service day of an instant, and DEFAULT_HISTORY_DAYS before it.      *)
DayStart(t) == t - (t % Day)
HistoryFrom(t) == DayStart(t) - HistoryDays * Day

(* The query's own dates, status, driver and search words narrow a view    *)
(* further and are left out.                                               *)
Query ==
  {q \in [view: Views, archived: BOOLEAN, unassigned: BOOLEAN, exact: BOOLEAN,
          badge: Badge \union {"any"}] :
     /\ q.badge # "any" => q.view = "settlement"
     /\ q.exact => ~q.archived /\ ~q.unassigned}

Parsed(q, now) ==
  [view |-> q.view, now |-> Seconds(now), exact |-> q.exact, archivedOnly |-> q.archived,
   statuses |-> Statuses, needsAction |-> FALSE, issues |-> FALSE,
   unassigned |-> q.unassigned, from |-> Never, to |-> Never, badge |-> q.badge]

(* "Unassigned" asks for any waiting booking and switches the view's own   *)
(* selection off.                                                          *)
UnassignedOnly(f) ==
  IF f.unassigned
    THEN [f EXCEPT !.statuses = @ \intersect Waiting, !.needsAction = FALSE]
    ELSE f

ViewDefaults(f, now) ==
  LET today == DayStart(now)
      live == Statuses \ Closed
  IN  IF f.archivedOnly THEN f ELSE
      CASE f.view = "needs_action" -> [f EXCEPT !.statuses = live, !.needsAction = TRUE]
        [] f.view = "issues" -> [f EXCEPT !.issues = TRUE]
        [] f.view = "today" -> [f EXCEPT !.statuses = live, !.from = today, !.to = today + Day]
        [] f.view = "upcoming" -> [f EXCEPT !.statuses = live, !.from = today + Day]
        [] f.view = "in_progress" -> [f EXCEPT !.statuses = Operating]
        [] f.view = "settlement" -> [f EXCEPT !.statuses = {"SETTLEMENT_PENDING"}]
        [] f.view = "completed" -> [f EXCEPT !.statuses = {"SETTLEMENT_PENDING", "COMPLETED"}]
        [] f.view = "cancelled" -> [f EXCEPT !.statuses = {"CANCELLED", "NO_SHOW"},
                                             !.from = HistoryFrom(now), !.to = today + Day]
        [] f.view = "all" -> IF f.unassigned THEN f
             ELSE [f EXCEPT !.from = HistoryFrom(now), !.to = today + Day]

Filters(q, now) ==
  IF q.exact THEN Parsed(q, now) ELSE UnassignedOnly(ViewDefaults(Parsed(q, now), now))

UnassignedBooking(r) == Unassigned(r) /\ r.status \in Waiting

(* buildNeedsActionWhere and buildIssuesWhere share these.                 *)
SelectsTrouble(r, now) ==
  \/ r.lowRated
  \/ Owing(r) /\ r.slip = "rejected"
  \/ r.pickup < now /\ r.status \in PrePickup \ {"OPEN"}
  \/ r.status = "DRIVER_ARRIVED" /\ r.updated < now - HalfHour
  \/ r.status = "PICKED_UP" /\ r.updated < now - SixHours

SelectsNeedsAction(r, now) ==
  \/ SelectsTrouble(r, now)
  \/ Owing(r)
  \/ UnassignedBooking(r)
  \/ r.status \in Waiting /\ r.updated < now - TwoHours

SelectsIssue(r, now) ==
  \/ SelectsTrouble(r, now)
  \/ UnassignedBooking(r) /\ r.pickup < now

SelectsBadge(r, badge) ==
  CASE badge = "RECEIPT_REJECTED" -> r.status = "SETTLEMENT_PENDING" /\ r.slip = "rejected"
    [] badge = "RECEIPT_SUBMITTED" -> Owing(r) /\ r.slip = "attached"
    [] badge = "RECEIPT_MISSING" -> r.status = "SETTLEMENT_PENDING" /\ r.slip = "none"
    [] badge = "ADMIN_CONFIRMED" -> r.commission = "PAID"
    [] badge = "any" -> TRUE

Selects(f, r) ==
  IF f.exact THEN TRUE
  ELSE /\ r.archived = f.archivedOnly
       /\ r.status \in f.statuses
       /\ f.needsAction => SelectsNeedsAction(r, f.now)
       /\ f.issues => SelectsIssue(r, f.now)
       /\ f.from # Never => r.pickup >= f.from
       /\ f.to # Never => r.pickup < f.to
       /\ SelectsBadge(r, f.badge)
       /\ f.unassigned => Unassigned(r)

-----------------------------------------------------------------------------
(* One request.                                                            *)

VARIABLES row,      \* the booking as the request will read it
          clock,
          filters,  \* of the request, or Idle
          item      \* what the request shows of the booking, or NoItem

Idle == [view |-> "idle"]
NoItem == [cta |-> "none"]

queueVars == <<row, clock, filters, item>>

Init ==
  /\ row \in Row
  /\ clock = StartTime
  /\ filters = Idle
  /\ item = NoItem

(* listBookings builds the filters, then asks the database twice.          *)
Ask ==
  /\ filters = Idle
  /\ \E q \in Query : filters' = Filters(q, clock)
  /\ UNCHANGED <<row, clock, item>>

(* findAdminBookings reads the booking, which other handlers may have      *)
(* written since the filters were built but not later than now; then       *)
(* mapQueueItem reads the clock again.                                     *)
Show ==
  /\ filters # Idle /\ item = NoItem
  /\ row.updated <= clock
  /\ Selects(filters, row)
  /\ item' = Operations(row, clock)
  /\ UNCHANGED <<row, clock, filters>>

Tick ==
  /\ clock < MaxTime
  /\ clock' = clock + 1
  /\ UNCHANGED <<row, filters, item>>

Next == Ask \/ Show \/ Tick

Spec == Init /\ [][Next]_queueVars

-----------------------------------------------------------------------------
(* Properties.                                                             *)

TypeOK ==
  /\ row \in Row
  /\ clock \in StartTime..MaxTime
  /\ filters = Idle \/ \E q \in Query, t \in StartTime..clock : filters = Filters(q, t)
  /\ item = NoItem \/ \E t \in StartTime..clock : item = Operations(row, t)

NeedsAction ==
  [view |-> "needs_action", archived |-> FALSE, unassigned |-> FALSE,
   exact |-> FALSE, badge |-> "any"]

(* A booking the queue lists as needing action is shown with a reason, no  *)
(* matter how much later the reasons are worked out than the list; and a   *)
(* live booking that has a reason now is listed by a request made one      *)
(* second from now.  The queue's SQL and evaluateReasons agree.            *)
ListMatchesReasons ==
  /\ (item # NoItem /\ filters.needsAction) => item.codes # {}
  /\ (/\ ~row.archived
      /\ row.status \notin Closed
      /\ row.updated <= clock
      /\ Reasons(row, clock) # {}) => Selects(Filters(NeedsAction, clock + 2), row)

(* The button of a live booking is one its handler accepts: a driver is    *)
(* offered to waiting bookings only (assignDriver), a settlement is put    *)
(* forward for approval when a slip waits for it and only then (approve),  *)
(* unless a low rating comes first.                                        *)
ButtonIsPossible ==
  (item # NoItem /\ row.status \notin Closed) =>
    /\ item.cta = "ASSIGN_DRIVER" <=> row.status \in Waiting
    /\ (~row.lowRated) =>
         (item.cta = "CONFIRM_SETTLEMENT" <=> ReceiptSubmitted(row))
    /\ item.cta = "SETTLEMENT_DETAIL" => Owing(row) /\ row.slip # "attached"

(* The settlement view filtered by a badge shows exactly the bookings that *)
(* carry it.                                                               *)
BadgeMatchesFilter ==
  (item # NoItem /\ filters.view = "settlement" /\ ~filters.exact /\ ~filters.archivedOnly
     /\ filters.badge # "any") => item.settlement = filters.badge
=============================================================================
