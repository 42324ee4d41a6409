-------------------------------- MODULE Reviews --------------------------------
(***************************************************************************)
(* What a customer says of a trip: the review, its moderation and the      *)
(* driver's rating (ReviewService, ReviewRepository), the operator's       *)
(* request for one (ReviewRequestService) and the message that the         *)
(* customer stands at the gate (CustomerGateArrivalService).  All of them  *)
(* must find the booking's driver, and once a trip is completed only the   *)
(* history of the booking's assignment rows names him.                     *)
(***************************************************************************)
EXTENDS Naturals, Sequences, FiniteSets

CONSTANTS Bookings, Drivers, None,
          Ratings,      \* the ratings given, out of 1..5
          MaxRows,      \* bound on a booking's assignment rows
          MaxSeconds    \* bound on the clock, whose unit is that of DATETIME

VARIABLES
  status,   \* bookings.status
  column,   \* bookings.driver_id, kept by the assignment triggers
  rows,     \* booking_driver_assignments, in the order of their ids
  request,  \* the review request in bookings.metadata
  review,   \* the booking's row of reviews
  events,   \* outbox events REVIEW_SUBMITTED
  arrivals, \* gate messages, by the assignment they are keyed with
  drove,    \* who drove the customer to the destination
  clock

vars == <<status, column, rows, request, review, events, arrivals, drove, clock>>

Coming == {"DRIVER_ASSIGNED", "DRIVER_ARRIVED"}   \* ON_ROUTE too: gate ALLOWED
Ended == {"SETTLEMENT_PENDING", "COMPLETED"}      \* REVIEW_ELIGIBLE_STATUSES
Row == [driver: Drivers, active: BOOLEAN, updated: Nat]
Review == [driver: Drivers, rating: Ratings, visible: BOOLEAN, reason: {"", "r1", "r2"}]
Request == [eligible: BOOLEAN, copied: BOOLEAN, sent: BOOLEAN, optedOut: BOOLEAN]

TypeOK ==
  /\ status \in [Bookings -> {"OPEN", "PICKED_UP"} \union Coming \union Ended]
  /\ column \in [Bookings -> Drivers \union {None}]
  /\ \A b \in Bookings : rows[b] \in Seq(Row) /\ Len(rows[b]) <= MaxRows
  /\ request \in [Bookings -> Request]
  /\ \A b \in Bookings : review[b] = None \/ review[b] \in Review
  /\ events \in [Bookings -> Nat]
  /\ arrivals \subseteq Bookings \X (1..MaxRows) \X Drivers
  /\ drove \in [Bookings -> Drivers \union {None}]
  /\ clock \in 0..MaxSeconds

Init ==
  /\ status = [b \in Bookings |-> "OPEN"]
  /\ column = [b \in Bookings |-> None]
  /\ rows = [b \in Bookings |-> <<>>]
  /\ request = [b \in Bookings |->
                  [eligible |-> FALSE, copied |-> FALSE, sent |-> FALSE, optedOut |-> FALSE]]
  /\ review = [b \in Bookings |-> None]
  /\ events = [b \in Bookings |-> 0]
  /\ arrivals = {}
  /\ drove = [b \in Bookings |-> None]
  /\ clock = 0

-----------------------------------------------------------------------------
(* Assignment rows, as BookingLifecycle changes them; every change stamps  *)
(* updated_at with the second it happens in.                               *)

ActiveRows(b) == {i \in DOMAIN rows[b] : rows[b][i].active}
SwitchedOff(b) ==
  [i \in DOMAIN rows[b] |->
     IF rows[b][i].active THEN [rows[b][i] EXCEPT !.active = FALSE, !.updated = clock]
     ELSE rows[b][i]]

(* An assignment, or a reassignment before the pickup.                     *)
Assign(b, d) ==
  /\ status[b] \in {"OPEN"} \union Coming
  /\ column[b] # d
  /\ Len(rows[b]) < MaxRows
  /\ rows' = [rows EXCEPT ![b] = Append(SwitchedOff(b),
                [driver |-> d, active |-> TRUE, updated |-> clock])]
  /\ column' = [column EXCEPT ![b] = d]
  /\ status' = [status EXCEPT ![b] = IF @ = "OPEN" THEN "DRIVER_ASSIGNED" ELSE @]
  /\ UNCHANGED <<request, review, events, arrivals, drove, clock>>

Release(b) ==
  /\ status[b] = "DRIVER_ASSIGNED"
  /\ rows' = [rows EXCEPT ![b] = SwitchedOff(b)]
  /\ column' = [column EXCEPT ![b] = None]
  /\ status' = [status EXCEPT ![b] = "OPEN"]
  /\ UNCHANGED <<request, review, events, arrivals, drove, clock>>

Drive(b) ==
  /\ status[b] \in Coming
  /\ status' = [status EXCEPT ![b] =
                  IF @ = "DRIVER_ASSIGNED" THEN "DRIVER_ARRIVED" ELSE "PICKED_UP"]
  /\ UNCHANGED <<column, rows, request, review, events, arrivals, drove, clock>>

(* transition to SETTLEMENT_PENDING: markReviewRequestEligible.            *)
Finish(b) ==
  /\ status[b] = "PICKED_UP"
  /\ status' = [status EXCEPT ![b] = "SETTLEMENT_PENDING"]
  /\ request' = [request EXCEPT ![b].eligible = TRUE]
  /\ drove' = [drove EXCEPT ![b] = column[b]]
  /\ UNCHANGED <<column, rows, review, events, arrivals, clock>>

(* transition to COMPLETED: completeActiveAssignment, whose trigger clears *)
(* bookings.driver_id.                                                     *)
Complete(b) ==
  /\ status[b] = "SETTLEMENT_PENDING"
  /\ status' = [status EXCEPT ![b] = "COMPLETED"]
  /\ rows' = [rows EXCEPT ![b] = SwitchedOff(b)]
  /\ column' = [column EXCEPT ![b] = None]
  /\ UNCHANGED <<request, review, events, arrivals, drove, clock>>

-----------------------------------------------------------------------------
(* The booking's driver.                                                   *)

(* Mutant of Before: without the id, rows of one second come as stored.    *)
BeforeNoId(b, i, j) ==
  LET r == rows[b][i]  s == rows[b][j]
  IN  IF r.active # s.active THEN r.active
      ELSE IF r.updated # s.updated THEN r.updated > s.updated
      ELSE i < j

(* ORDER BY is_active DESC, updated_at DESC, id DESC: row i before row j.  *)
Before(b, i, j) ==
  LET r == rows[b][i]  s == rows[b][j]
  IN  IF r.active # s.active THEN r.active
      ELSE IF r.updated # s.updated THEN r.updated > s.updated
      ELSE i > j

(* COALESCE(b.driver_id, bda.driver_id), the assignment being the active   *)
(* one or, once the trip has ended, the last of any kind.                  *)
DriverOf(b) ==
  LET seen == IF status[b] \in Ended THEN DOMAIN rows[b] ELSE ActiveRows(b)
  IN  IF column[b] # None THEN column[b]
      ELSE IF seen = {} THEN None
      ELSE rows[b][CHOOSE i \in seen : \A j \in seen \ {i} : Before(b, i, j)].driver

IsReviewEligible(b) == status[b] \in Ended /\ DriverOf(b) # None

-----------------------------------------------------------------------------
(* submitBookingReview under the booking's lock; the unique key on the     *)
(* booking backs the check for an earlier one.                             *)
Submit(b, rating) ==
  /\ IsReviewEligible(b) /\ review[b] = None
  /\ review' = [review EXCEPT ![b] =
       [driver |-> DriverOf(b), rating |-> rating, visible |-> TRUE, reason |-> ""]]
  /\ events' = [events EXCEPT ![b] = @ + 1]
  /\ UNCHANGED <<status, column, rows, request, arrivals, drove, clock>>

(* hideReview: the same reason again is accepted and changes nothing,      *)
(* another reason is refused.                                              *)
Hide(b, reason) ==
  /\ review[b] # None /\ review[b].visible
  /\ review' = [review EXCEPT ![b].visible = FALSE, ![b].reason = reason]
  /\ UNCHANGED <<status, column, rows, request, events, arrivals, drove, clock>>

Restore(b) ==
  /\ review[b] # None /\ ~review[b].visible
  /\ review' = [review EXCEPT ![b].visible = TRUE, ![b].reason = ""]
  /\ UNCHANGED <<status, column, rows, request, events, arrivals, drove, clock>>

(* getVisibleRatingSummaryForDriver: the reviews it counts and averages.   *)
Summarised(d) ==
  {b \in Bookings : review[b] # None /\ review[b].driver = d /\ review[b].visible}

(* ReviewRequestService.update, which writes the metadata it has locked.   *)
UpdateRequest(b, act, confirmResend, out) ==
  /\ IsReviewEligible(b)
  /\ act # "OPT_OUT" => ~request[b].optedOut
  /\ act = "SENT" /\ request[b].sent => confirmResend
  /\ request' = [request EXCEPT ![b] =
       CASE act = "COPY"    -> [@ EXCEPT !.copied = TRUE]
         [] act = "SENT"    -> [@ EXCEPT !.sent = TRUE]
         [] act = "OPT_OUT" -> [@ EXCEPT !.optedOut = out]]
  /\ UNCHANGED <<status, column, rows, review, events, arrivals, drove, clock>>

(* The bookings the operator is still to ask: reviewRequestsOnly.          *)
RequestQueue ==
  {b \in Bookings : /\ status[b] \in Ended /\ DriverOf(b) # None
                    /\ request[b].eligible /\ ~request[b].optedOut /\ ~request[b].sent}

(* CustomerGateArrivalService.run: one message for each assignment row.    *)
SendArrival(b) ==
  /\ status[b] \in Coming
  /\ \E i \in ActiveRows(b) :
       arrivals' = arrivals \union {<<b, i, rows[b][i].driver>>}
  /\ UNCHANGED <<status, column, rows, request, review, events, drove, clock>>

Tick ==
  /\ clock < MaxSeconds
  /\ clock' = clock + 1
  /\ UNCHANGED <<status, column, rows, request, review, events, arrivals, drove>>

Next ==
  \/ \E b \in Bookings, d \in Drivers : Assign(b, d)
  \/ \E b \in Bookings : Release(b) \/ Drive(b) \/ Finish(b) \/ Complete(b)
  \/ \E b \in Bookings, r \in Ratings : Submit(b, r)
  \/ \E b \in Bookings, r \in {"r1", "r2"} : Hide(b, r)
  \/ \E b \in Bookings : Restore(b) \/ SendArrival(b)
  \/ \E b \in Bookings, a \in {"COPY", "SENT", "OPT_OUT"}, c, o \in BOOLEAN :
       UpdateRequest(b, a, c, o)
  \/ Tick

Spec == Init /\ [][Next]_vars

-----------------------------------------------------------------------------
(* A driver's rating is made of the reviews of trips he drove himself,     *)
(* those an operator hid left out, however often the booking was           *)
(* reassigned or released before, even within one second, and whether the  *)
(* review came before or after the settlement (review.service.js).         *)
RatingsAreEarned ==
  \A d \in Drivers :
    Summarised(d) = {b \in Bookings : review[b] # None /\ drove[b] = d
                                      /\ review[b].reason = ""}

(* Every trip that ended is either still to be asked about or was asked    *)
(* about, unless the customer opted out (buildAdminListWhere,              *)
(* reviewRequestsOnly).                                                    *)
EndedTripsAreQueued ==
  \A b \in Bookings : status[b] \in Ended =>
    (b \in RequestQueue <=> ~request[b].sent /\ ~request[b].optedOut)
=============================================================================
