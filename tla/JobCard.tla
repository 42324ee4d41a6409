-------------------------------- MODULE JobCard --------------------------------
(***************************************************************************)
(* What a driver is shown of a job: the actions its card offers, whether   *)
(* he may give it back, and what he is told of a job that is his no longer *)
(* (driverJob.service.js with its two policies), against what the handlers *)
(* accept and against how the job really ended.  One booking, and for each *)
(* driver his latest assignment row of it; time in hours.  Bookings are    *)
(* moved by the dedicated handlers only, and an administrator's reason for *)
(* an assignment is a text of his own, never one of the markers.           *)
(***************************************************************************)
EXTENDS Integers

CONSTANTS Drivers, None,
          JobPickups,    \* the pickup hours the booking may be given
          Arrivals,      \* the arrival hours its flight may have
          MaxTime        \* bound on the clock

VARIABLES job,        \* the booking with its flight
          link,       \* driver -> his latest assignment row
          suspended,  \* the drivers suspended
          clock,
          cause       \* driver -> what ended his last job (a history variable)

vars == <<job, link, suspended, clock, cause>>

Waiting == {"PENDING", "OPEN", "CONFIRMED"}
Underway == {"ON_ROUTE", "DRIVER_ARRIVED", "PICKED_UP"}
Closed == {"COMPLETED", "CANCELLED", "NO_SHOW"}
Status == Waiting \union {"DRIVER_ASSIGNED"} \union Underway
            \union {"SETTLEMENT_PENDING"} \union Closed

NoLink == [state |-> "NONE", reason |-> None]

-----------------------------------------------------------------------------
(* The driver's queries.                                                   *)

Active(d) == link[d].state \in {"ASSIGNED", "ACCEPTED"}     \* is_active = 1
OtherHolds(d) == \E e \in Drivers \ {d} : Active(e)

(* driverJobActiveWhereSql, and findDriverTerminalBookingByNumber.         *)
ActiveJob(d) == Active(d) /\ ~ job.archived
TerminalJob(d) == link[d].state = "COMPLETED" /\ job.status \in Closed /\ ~ job.archived
HasCard(d) == ActiveJob(d) \/ TerminalJob(d)

(* findActiveDriverBookingsScheduled *)
Listed(d) == ActiveJob(d) /\ job.status \notin Closed

-----------------------------------------------------------------------------
(* The card: mapBase, mapDetail.                                           *)

StandbyWindow == 1
ReleaseWindow == 2
UrgentWindow == 6

(* The landing of an airport pickup, its timetable before its estimate;    *)
(* otherwise the pickup.                                                   *)
StandbyReference ==
  IF job.airport /\ job.scheduled # None THEN job.scheduled
  ELSE IF job.airport /\ job.estimated # None THEN job.estimated
  ELSE job.pickup

CanConfirmStandby(d) ==
  /\ job.status = "DRIVER_ASSIGNED" /\ link[d].state = "ASSIGNED"
  /\ clock >= StandbyReference - StandbyWindow

AllowedActions(d) ==
  CASE job.status = "DRIVER_ASSIGNED" ->
         {"VIEW_DETAILS"}
           \union (IF Active(d) THEN {"RELEASE_ASSIGNMENT"} ELSE {})
           \union (IF CanConfirmStandby(d) THEN {"ACCEPT_BOOKING"} ELSE {})
           \union (IF link[d].state = "ACCEPTED" THEN {"START_ON_ROUTE"} ELSE {})
    [] job.status = "ON_ROUTE"       -> {"VIEW_DETAILS", "MARK_ARRIVED"}
    [] job.status = "DRIVER_ARRIVED" -> {"VIEW_DETAILS", "MARK_PICKED_UP"}
    [] job.status = "PICKED_UP"      -> {"VIEW_DETAILS", "END_TRIP"}
    [] OTHER                         -> {}

(* evaluateDriverAssignmentRelease.  A reason is None (the card asks), one *)
(* of the emergencies, another of the list, or one that is refused.        *)
Emergencies == {"VEHICLE_BREAKDOWN", "ACCIDENT", "DRIVER_ILLNESS", "FAMILY_EMERGENCY"}
OtherReasons == {"SCHEDULE_CONFLICT", "LOCATION_TOO_FAR", "OTHER"}
Refused == {"CUSTOMER_REQUEST", "OTHER_WITHOUT_DETAIL"}

Remaining == job.pickup - clock
WithinTwoHours == clock >= job.pickup - ReleaseWindow
Priority ==
  IF Remaining <= ReleaseWindow THEN "CRITICAL"
  ELSE IF Remaining < UrgentWindow THEN "URGENT" ELSE "NORMAL"

Evaluate(d, reason) ==
  LET releasable == job.status = "DRIVER_ASSIGNED" /\ Active(d)
      passes == reason \in IF WithinTwoHours THEN Emergencies
                           ELSE Emergencies \union OtherReasons \union {None}
  IN  [available |-> releasable /\ passes,
       emergencyOnly |-> releasable /\ WithinTwoHours /\ (reason = None \/ passes),
       priority |-> Priority]

(* getDetail for a driver without a card: a stranger learns nothing, nor   *)
(* does the holder of an archived job; the others learn how it ended.      *)
(* resolveAssignmentEndedReason asks for another holder first, then for    *)
(* the marker of the row, then for the status of the booking.              *)
ReasonOfMarker(marker) ==
  CASE marker = "DRIVER_RELEASED_ASSIGNMENT" -> "DRIVER_RELEASED"
    [] marker = "ADMIN_RELEASED_ASSIGNMENT"  -> "ADMIN_RELEASED"
    [] marker \in {"CUSTOMER_CANCELLED", "ADMIN_CANCELLED"} -> marker
    [] OTHER -> None

ReasonOfStatus ==
  CASE job.status = "CANCELLED" -> "ADMIN_CANCELLED"
    [] job.status \in {"COMPLETED", "NO_SHOW"} -> "TRIP_COMPLETED"
    [] job.status \in Waiting -> "DRIVER_RELEASED"
    [] OTHER -> "NO_ACTIVE_ASSIGNMENT"

AssignmentEnded(d) ==
  LET marked == ReasonOfMarker(link[d].reason)
  IN  IF OtherHolds(d) THEN "REASSIGNED_TO_ANOTHER_DRIVER"
      ELSE IF marked # None THEN marked ELSE ReasonOfStatus

Answer(d) ==
  IF HasCard(d) THEN "CARD"
  ELSE IF link[d].state = "NONE" \/ Active(d) THEN "NOT_FOUND"
  ELSE AssignmentEnded(d)

-----------------------------------------------------------------------------
Init ==
  /\ job \in [status : {"OPEN"}, pickup : JobPickups, archived : {FALSE},
              airport : BOOLEAN, exempt : BOOLEAN,
              scheduled : {None}, estimated : {None}]
  /\ link = [d \in Drivers |-> NoLink]
  /\ suspended = {}
  /\ clock = 0
  /\ cause = [d \in Drivers |-> None]

(* insertDriverAssignment after a claim, an assignment or the customer's   *)
(* choice: a plain text as reason, or none.                                *)
Take(d) ==
  /\ ~ job.archived /\ job.status \in Waiting
  /\ d \notin suspended
  /\ ~ \E e \in Drivers : Active(e)
  /\ link' = [link EXCEPT ![d] = [state |-> "ASSIGNED", reason |-> None]]
  /\ job' = [job EXCEPT !.status = "DRIVER_ASSIGNED"]
  /\ UNCHANGED <<suspended, clock, cause>>

(* acceptBooking refuses by the same window, of the booking's own row.     *)
CanAccept(d) ==
  /\ d \notin suspended
  /\ ActiveJob(d) /\ job.status = "DRIVER_ASSIGNED" /\ link[d].state = "ASSIGNED"
  /\ clock >= StandbyReference - StandbyWindow

Accept(d) ==
  /\ CanAccept(d)
  /\ link' = [link EXCEPT ![d].state = "ACCEPTED"]
  /\ UNCHANGED <<job, suspended, clock, cause>>

(* deactivateAssignment: COALESCE keeps the reason when none is given.     *)
Ended(d, state, marker, why) ==
  /\ link' = [link EXCEPT ![d].state = state,
                          ![d].reason = IF marker = None THEN @ ELSE marker]
  /\ cause' = [cause EXCEPT ![d] = why]

Reopen(d, marker, why) ==
  /\ Ended(d, "CANCELLED", marker, why)
  /\ job' = [job EXCEPT !.status = "OPEN"]

(* releaseAssignment looks for the active row, whatever else it finds.     *)
CanRelease(d, reason) == ActiveJob(d) /\ Evaluate(d, reason).available

Release(d, reason) ==
  /\ CanRelease(d, reason)
  /\ Reopen(d, "DRIVER_RELEASED_ASSIGNMENT", "RELEASED")
  /\ UNCHANGED <<suspended, clock>>

Unassign(d) ==
  /\ ActiveJob(d) /\ job.status = "DRIVER_ASSIGNED"
  /\ Reopen(d, "ADMIN_RELEASED_ASSIGNMENT", "UNASSIGNED")
  /\ UNCHANGED <<suspended, clock>>

(* Refused while a listed job is under way or overdue.                     *)
Suspend(d) ==
  /\ suspended' = suspended \union {d}
  /\ UNCHANGED clock
  /\ IF ActiveJob(d) /\ job.status \in {"DRIVER_ASSIGNED"} \union Underway
     THEN /\ job.status = "DRIVER_ASSIGNED" /\ job.pickup > clock
          /\ Reopen(d, "ADMIN_SUSPENDED_DRIVER_RELEASE", "SUSPENDED")
     ELSE UNCHANGED <<job, link, cause>>

Unsuspend(d) ==
  /\ d \in suspended
  /\ suspended' = suspended \ {d}
  /\ UNCHANGED <<job, link, clock, cause>>

(* reassignDriver: the old row keeps its reason unless a text is given.    *)
Reassign(d, e) ==
  /\ ActiveJob(d) /\ e # d /\ e \notin suspended
  /\ job.status \notin {"PICKED_UP", "SETTLEMENT_PENDING"} \union Closed
  /\ link' = [link EXCEPT ![d].state = "CANCELLED",
                          ![e] = [state |-> "ASSIGNED", reason |-> None]]
  /\ cause' = [cause EXCEPT ![d] = "REASSIGNED"]
  /\ UNCHANGED <<job, suspended, clock>>

-----------------------------------------------------------------------------
(* The trip, driverTripFlow.runTransition.                                 *)
CanStep(d, from) == d \notin suspended /\ ActiveJob(d) /\ job.status = from

TripStep(d, from, to) ==
  /\ CanStep(d, from)
  /\ job' = [job EXCEPT !.status = to]
  /\ UNCHANGED <<link, suspended, clock, cause>>

StartOnRoute(d) == TripStep(d, "DRIVER_ASSIGNED", "ON_ROUTE")
MarkArrived(d) == TripStep(d, "ON_ROUTE", "DRIVER_ARRIVED")
MarkPickedUp(d) == TripStep(d, "DRIVER_ARRIVED", "PICKED_UP")

(* completeActiveAssignment *)
Completed(d) ==
  /\ Ended(d, "COMPLETED", None, "DONE")
  /\ job' = [job EXCEPT !.status = "COMPLETED"]

TripEnds(d) ==
  /\ IF job.exempt THEN Completed(d)
     ELSE /\ job' = [job EXCEPT !.status = "SETTLEMENT_PENDING"]
          /\ UNCHANGED <<link, cause>>
  /\ UNCHANGED <<suspended, clock>>

EndTrip(d) == CanStep(d, "PICKED_UP") /\ TripEnds(d)

CompleteActiveTrip(d) ==
  /\ ActiveJob(d) /\ job.status \in {"DRIVER_ASSIGNED"} \union Underway
  /\ TripEnds(d)

Settle(d) ==
  /\ ActiveJob(d) /\ job.status = "SETTLEMENT_PENDING"
  /\ Completed(d)
  /\ UNCHANGED <<suspended, clock>>

-----------------------------------------------------------------------------
(* clearAssignmentOnCancel: the active row, if there is one, is ended with *)
(* the marker of who closed the booking.                                   *)
CloseWith(status, marker, why) ==
  /\ ~ job.archived
  /\ job' = [job EXCEPT !.status = status]
  /\ link' = [d \in Drivers |-> IF Active(d) THEN [state |-> "CANCELLED", reason |-> marker]
                                ELSE link[d]]
  /\ cause' = [d \in Drivers |-> IF Active(d) THEN why ELSE cause[d]]
  /\ UNCHANGED <<suspended, clock>>

CancelByCustomer ==
  /\ job.status \in Waiting \union {"DRIVER_ASSIGNED"}
  /\ clock < job.pickup - ReleaseWindow
  /\ CloseWith("CANCELLED", "CUSTOMER_CANCELLED", "CUSTOMER")

CancelByOffice ==
  /\ job.status \notin {"SETTLEMENT_PENDING"} \union Closed
  /\ CloseWith("CANCELLED", "ADMIN_CANCELLED", "OFFICE")

NoShow ==
  /\ job.status \notin {"PICKED_UP", "SETTLEMENT_PENDING"} \union Closed
  /\ CloseWith("NO_SHOW", "ADMIN_NO_SHOW", "NO_SHOW")

Archive(a) ==
  /\ job' = [job EXCEPT !.archived = a]
  /\ UNCHANGED <<link, suspended, clock, cause>>

(* The pickup is edited; the flight is synchronised.                       *)
EditPickup(p) ==
  /\ ~ job.archived /\ job.status \in {"OPEN", "CONFIRMED", "DRIVER_ASSIGNED"}
  /\ job' = [job EXCEPT !.pickup = p]
  /\ UNCHANGED <<link, suspended, clock, cause>>

SyncFlight(s, e) ==
  /\ ~ job.archived /\ job.airport /\ job.status \notin Closed
  /\ job' = [job EXCEPT !.scheduled = s, !.estimated = e]
  /\ UNCHANGED <<link, suspended, clock, cause>>

Tick ==
  /\ clock < MaxTime
  /\ clock' = clock + 1
  /\ UNCHANGED <<job, link, suspended, cause>>

DriverAction(d) ==
  \/ Take(d) \/ Accept(d)
  \/ \E r \in Emergencies \union OtherReasons \union Refused : Release(d, r)
  \/ Unassign(d) \/ Suspend(d) \/ Unsuspend(d)
  \/ StartOnRoute(d) \/ MarkArrived(d) \/ MarkPickedUp(d) \/ EndTrip(d)
  \/ CompleteActiveTrip(d) \/ Settle(d)
  \/ \E e \in Drivers : Reassign(d, e)

Next ==
  \/ \E d \in Drivers : DriverAction(d)
  \/ CancelByCustomer \/ CancelByOffice \/ NoShow
  \/ \E a \in BOOLEAN : Archive(a)
  \/ \E p \in JobPickups : EditPickup(p)
  \/ \E s, e \in Arrivals \union {None} : SyncFlight(s, e)
  \/ Tick

Spec == Init /\ [][Next]_vars

-----------------------------------------------------------------------------
(* The rows have their types, at most one is active, and one is active     *)
(* exactly while a driver has the job.                                     *)
Causes == {"RELEASED", "UNASSIGNED", "SUSPENDED", "REASSIGNED", "DONE",
           "CUSTOMER", "OFFICE", "NO_SHOW", None}

Markers == {"DRIVER_RELEASED_ASSIGNMENT", "ADMIN_RELEASED_ASSIGNMENT",
            "ADMIN_SUSPENDED_DRIVER_RELEASE", "CUSTOMER_CANCELLED",
            "ADMIN_CANCELLED", "ADMIN_NO_SHOW"}

Links == [state : {"NONE", "ASSIGNED", "ACCEPTED", "CANCELLED", "COMPLETED"},
          reason : Markers \union {None}]

Jobs == [status : Status, pickup : JobPickups, archived : BOOLEAN,
         airport : BOOLEAN, exempt : BOOLEAN,
         scheduled : Arrivals \union {None}, estimated : Arrivals \union {None}]

TypeOK ==
  /\ job \in Jobs
  /\ link \in [Drivers -> Links]
  /\ suspended \subseteq Drivers
  /\ clock \in 0..MaxTime
  /\ cause \in [Drivers -> Causes]

(* Whatever a card offers its driver is accepted when he does it at once,  *)
(* and standby, once it can be confirmed, is offered (allowedActions       *)
(* against the handlers, for a driver who is not suspended); what the card *)
(* says of giving the job back is what releaseAssignment decides for each  *)
(* reason, urgent jobs included; and a job he holds is on his list.        *)
OfferedActionsWork ==
  \A d \in Drivers \ suspended : ActiveJob(d) =>
    LET offered == AllowedActions(d)
        card == Evaluate(d, None)
    IN  /\ "ACCEPT_BOOKING" \in offered <=> CanAccept(d)
        /\ "RELEASE_ASSIGNMENT" \in offered <=> \E r \in Emergencies : CanRelease(d, r)
        /\ "START_ON_ROUTE" \in offered => CanStep(d, "DRIVER_ASSIGNED")
        /\ "MARK_ARRIVED" \in offered <=> CanStep(d, "ON_ROUTE")
        /\ "MARK_PICKED_UP" \in offered <=> CanStep(d, "DRIVER_ARRIVED")
        /\ "END_TRIP" \in offered <=> CanStep(d, "PICKED_UP")
        /\ \A r \in OtherReasons : CanRelease(d, r) <=> card.available
        /\ \A r \in Emergencies :
             CanRelease(d, r) <=> card.available \/ card.emergencyOnly
        /\ card.emergencyOnly => card.priority = "CRITICAL"
        /\ card.available => card.priority # "CRITICAL"
        /\ Listed(d)

(* What a driver is told of a job that is not his any more is how it ended *)
(* for him: that the customer cancelled, exactly if that is why he lost    *)
(* it; that the office took it, or a colleague has it, exactly if so; that *)
(* he gave it back, only if he or his suspension did, or nobody has it;    *)
(* and the answer that explains nothing is never given                     *)
(* (driverAssignmentEnded.policy.js: "never claim customer cancel          *)
(* incorrectly").                                                          *)
ToldWhy ==
  \A d \in Drivers : (~ HasCard(d) /\ link[d].state # "NONE" /\ ~ Active(d)) =>
    LET told == Answer(d)
    IN  /\ told = "REASSIGNED_TO_ANOTHER_DRIVER" <=> OtherHolds(d)
        /\ told = "CUSTOMER_CANCELLED" <=> cause[d] = "CUSTOMER"
        /\ told = "ADMIN_RELEASED" <=> cause[d] = "UNASSIGNED" /\ ~ OtherHolds(d)
        /\ cause[d] = "OFFICE" => told = "ADMIN_CANCELLED"
        /\ told = "ADMIN_CANCELLED" => job.status = "CANCELLED"
        /\ told = "TRIP_COMPLETED" => job.status \in {"COMPLETED", "NO_SHOW"}
        /\ told = "DRIVER_RELEASED" =>
             \/ cause[d] = "RELEASED"
             \/ cause[d] \in {"SUSPENDED", "REASSIGNED"} /\ job.status \in Waiting
        /\ told # "NO_ACTIVE_ASSIGNMENT"
=============================================================================
