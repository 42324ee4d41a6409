-------------------------- MODULE BookingLifecycle --------------------------
(***************************************************************************)
(* The life of a booking: dispatch to a driver, the trip, the commission   *)
(* settlement, and the administrators' interventions.  One action is one   *)
(* HTTP handler, with everything it writes in its transaction: the rows it *)
(* reads FOR UPDATE are locked until it commits, so a handler that         *)
(* succeeds is one atomic step here (DispatchTx takes the dispatch         *)
(* handlers apart and shows when that is so).  A handler that throws rolls *)
(* back, so a refused request is no step.                                  *)
(*                                                                         *)
(* Modelled bookings are dispatch-eligible; what an urgent request adds to *)
(* a booking's life is in UrgentNegotiation.                               *)
(* Time is counted in hours, the finest unit the policies compare.         *)
(***************************************************************************)
EXTENDS BookingRecord

CONSTANTS Bookings,         \* booking numbers
          ManualBookings,   \* those with booking_source ADMIN_MANUAL
          MaxHour,          \* bound on the clock
          RawAdminStatus,   \* administrators use PATCH /bookings/:n/status
          Archiving         \* administrators archive and restore rows

ASSUME BookingsAssumption == ManualBookings \subseteq Bookings
ASSUME MaxHourAssumption == MaxHour \in Nat
ASSUME SwitchesAssumption == RawAdminStatus \in BOOLEAN /\ Archiving \in BOOLEAN

VARIABLES booking,   \* booking number -> Booking
          driver,    \* driver -> status (online exactly when AVAILABLE), archived
          now        \* the hour

vars == <<booking, driver, now>>

DriverRow == [status: {"AVAILABLE", "OFFLINE", "SUSPENDED"}, archived: BOOLEAN]

TypeOK ==
  /\ booking \in [Bookings -> Booking]
  /\ driver \in [Drivers -> DriverRow]
  /\ now \in 0..MaxHour

(* Bookings are inserted OPEN with no assignment; only a manual booking    *)
(* can be commission-exempt.                                               *)
Init ==
  /\ booking \in [Bookings -> {NewBooking(p, x) : p \in Slots, x \in BOOLEAN}]
  /\ \A b \in Bookings \ ManualBookings : ~booking[b].exempt
  /\ driver = [d \in Drivers |-> [status |-> "OFFLINE", archived |-> FALSE]]
  /\ now = 0

-----------------------------------------------------------------------------
(* What the handlers ask about a driver.                                   *)

(* hasActiveJob, active_assignment_count of findArchiveCandidatesForUpdate *)
HasActiveJob(d) == \E b \in Bookings : IsJobOf(booking[b], d)

(* driverHasBlockingSettlement *)
HasBlockingSettlement(d) == \E b \in Bookings : OwesSettlement(booking[b], d)

(* Mutant of PickupTimeFree: trips under way do not count.                 *)
PickupTimeFreeBeforeTrip(d, b) ==
  \A c \in Bookings \ {b} :
    (WorksOn(booking[c], d) /\ booking[c].status = "DRIVER_ASSIGNED")
      => ~TooClose(booking[c].pickup, booking[b].pickup)

(* assertNoPickupTimeConflict over findActiveAssignmentPickupsForConflict  *)
PickupTimeFree(d, b) ==
  \A c \in Bookings \ {b} :
    IsJobOf(booking[c], d) => ~TooClose(booking[c].pickup, booking[b].pickup)

(* assertDriverOperational on findByUserIdForUpdate: an archived driver is *)
(* not found there, and "not found" passes.                                *)
Operational(d) == driver[d].archived \/ driver[d].status # "SUSPENDED"

(* Mutant of Assignable: no settlement check.                              *)
AssignableUnsettled(d) == ~driver[d].archived /\ driver[d].status # "SUSPENDED"

(* isDriverAssignable with ensureDriverEligible: offline drivers qualify.  *)
Assignable(d) ==
  /\ ~driver[d].archived
  /\ driver[d].status # "SUSPENDED"
  /\ ~HasBlockingSettlement(d)

(* findByBookingNumberForUpdate *)
Visible(b) == ~booking[b].archived

Write(b, r) == booking' = [booking EXCEPT ![b] = r]

-----------------------------------------------------------------------------
(* Dispatch.                                                               *)

(* driverCall.claimOpenCall.  The replay of a claim that already succeeded *)
(* writes nothing.                                                         *)
Claim(d, b) ==
  /\ Visible(b)
  /\ ~driver[d].archived
  /\ driver[d].status = "AVAILABLE"
  /\ ~HasBlockingSettlement(d)
  /\ booking[b].status = "OPEN"
  /\ ~HasAssignment(booking[b])
  /\ d \notin booking[b].cooling
  /\ PickupTimeFree(d, b)
  /\ Write(b, [InsertAssignment(booking[b], d) EXCEPT !.status = "DRIVER_ASSIGNED"])
  /\ UNCHANGED <<driver, now>>

(* driverBookingAcceptance.acceptBooking: standby confirmation, from one   *)
(* hour before the pickup.                                                 *)
StandbyLead == 1
Accept(d, b) ==
  /\ Visible(b)
  /\ ~driver[d].archived
  /\ Operational(d)
  /\ booking[b].driver = d
  /\ booking[b].status = "DRIVER_ASSIGNED"
  /\ ~booking[b].accepted
  /\ now >= booking[b].pickup - StandbyLead
  /\ Write(b, AcceptAssignment(booking[b]))
  /\ UNCHANGED <<driver, now>>

(* driverCall.releaseAssignment.  Within two hours of the pickup only an   *)
(* emergency reason is allowed, and a driver may always give one, so the   *)
(* hour does not restrict the step.                                        *)
Release(d, b) ==
  /\ Visible(b)
  /\ ~driver[d].archived
  /\ booking[b].driver = d
  /\ booking[b].status = "DRIVER_ASSIGNED"
  /\ Write(b, Reopen(booking[b], TRUE))
  /\ UNCHANGED <<driver, now>>

(* Mutant of Assign: no check for a closed booking.                        *)
AssignClosed(d, b) ==
  /\ Visible(b)
  /\ ~HasAssignment(booking[b])
  /\ Assignable(d)
  /\ PickupTimeFree(d, b)
  /\ Write(b, [InsertAssignment(booking[b], d) EXCEPT
                 !.status = IF @ \in WaitingStatus THEN "DRIVER_ASSIGNED" ELSE @])
  /\ UNCHANGED <<driver, now>>

(* adminDispatch.assignDriver, autoAssignDriver and the direct assignment  *)
(* of createAdminManualBooking.  transitionToDriverAssigned moves a        *)
(* waiting booking only.                                                   *)
Assign(d, b) ==
  /\ Visible(b)
  /\ booking[b].status \notin ClosedStatus
  /\ ~HasAssignment(booking[b])
  /\ Assignable(d)
  /\ PickupTimeFree(d, b)
  /\ Write(b, [InsertAssignment(booking[b], d) EXCEPT
                 !.status = IF @ \in WaitingStatus THEN "DRIVER_ASSIGNED" ELSE @])
  /\ UNCHANGED <<driver, now>>

(* adminDispatch.reassignDriver: the status stays as it is.                *)
Reassign(d, b) ==
  /\ Visible(b)
  /\ booking[b].status \notin {"PICKED_UP", "SETTLEMENT_PENDING"} \union ClosedStatus
  /\ HasAssignment(booking[b])
  /\ booking[b].driver # d
  /\ Assignable(d)
  /\ PickupTimeFree(d, b)
  /\ Write(b, InsertAssignment(EndAssignment(booking[b]), d))
  /\ UNCHANGED <<driver, now>>

(* Mutant of Unassign: from any status of a trip.                          *)
UnassignDuringTrip(b) ==
  /\ Visible(b)
  /\ booking[b].status \in TripStatus
  /\ HasAssignment(booking[b])
  /\ Write(b, Reopen(booking[b], FALSE))
  /\ UNCHANGED <<driver, now>>

(* adminDispatch.unassignDriver: no cooldown for the driver.               *)
Unassign(b) ==
  /\ Visible(b)
  /\ booking[b].status = "DRIVER_ASSIGNED"
  /\ HasAssignment(booking[b])
  /\ Write(b, Reopen(booking[b], FALSE))
  /\ UNCHANGED <<driver, now>>

-----------------------------------------------------------------------------
(* The trip.                                                               *)

(* driverTripFlow.runTransition.                                           *)
TripStep(d, b, from, to) ==
  /\ Operational(d)
  /\ WorksOn(booking[b], d)
  /\ booking[b].status = from
  /\ Write(b, ApplyTransition(booking[b], to))
  /\ UNCHANGED <<driver, now>>

StartOnRoute(d, b) == TripStep(d, b, "DRIVER_ASSIGNED", "ON_ROUTE")
MarkArrived(d, b) == TripStep(d, b, "ON_ROUTE", "DRIVER_ARRIVED")
(* Also the boarding and dropoff QR scans of driverQr.                     *)
MarkPickedUp(d, b) == TripStep(d, b, "DRIVER_ARRIVED", "PICKED_UP")
EndTrip(d, b) == TripStep(d, b, "PICKED_UP", "SETTLEMENT_PENDING")

(* adminDispatch.completeActiveTrip: from any trip status, with the        *)
(* assignment required.                                                    *)
CompleteActiveTrip(b) ==
  /\ Visible(b)
  /\ booking[b].status \in TripStatus
  /\ HasAssignment(booking[b])
  /\ Write(b, ApplyTransition(booking[b], "SETTLEMENT_PENDING"))
  /\ UNCHANGED <<driver, now>>

(* PATCH /bookings/:n/status by the driver the booking names.              *)
ChangeStatusByDriver(d, b, to) ==
  /\ Visible(b)
  /\ booking[b].driverColumn = d
  /\ ValidTransition(booking[b].status, to, "DRIVER")
  /\ Write(b, ApplyTransition(booking[b], to))
  /\ UNCHANGED <<driver, now>>

(* PATCH /bookings/:n/status by an administrator: any move of the table.   *)
ChangeStatusByAdmin(b, to) ==
  /\ RawAdminStatus
  /\ Visible(b)
  /\ ValidTransition(booking[b].status, to, "ADMIN")
  /\ Write(b, ApplyTransition(booking[b], to))
  /\ UNCHANGED <<driver, now>>

-----------------------------------------------------------------------------
(* Closing a booking early, and editing it.                                *)

(* cancelByCustomer, and PATCH status CANCELLED by the customer: until two *)
(* hours before the pickup.                                                *)
CancelLead == 2
CancelByCustomer(b) ==
  /\ Visible(b)
  /\ now < booking[b].pickup - CancelLead
  /\ ValidTransition(booking[b].status, "CANCELLED", "CUSTOMER")
  /\ Write(b, ApplyTransition(booking[b], "CANCELLED"))
  /\ UNCHANGED <<driver, now>>

(* adminDispatch.cancelManualBooking *)
CancelManual(b) ==
  /\ Visible(b)
  /\ b \in ManualBookings
  /\ ValidTransition(booking[b].status, "CANCELLED", "ADMIN")
  /\ Write(b, ApplyTransition(booking[b], "CANCELLED"))
  /\ UNCHANGED <<driver, now>>

(* Mutant of NoShow: the bare transition.                                  *)
NoShowBare(b) ==
  /\ Visible(b)
  /\ ValidTransition(booking[b].status, "NO_SHOW", "ADMIN")
  /\ Write(b, ApplyTransition(booking[b], "NO_SHOW"))
  /\ UNCHANGED <<driver, now>>

(* adminDispatch.processNoShow: unlike the bare transition it also clears  *)
(* the assignment.                                                         *)
NoShow(b) ==
  /\ Visible(b)
  /\ ValidTransition(booking[b].status, "NO_SHOW", "ADMIN")
  /\ Write(b, ClearAssignmentOnCancel(ApplyTransition(booking[b], "NO_SHOW")))
  /\ UNCHANGED <<driver, now>>

(* booking.updateAdminManualBooking: pickup, payment (and with it the      *)
(* commission exemption) and a fresh NOT_DUE_YET commission, also when a   *)
(* driver is already assigned.                                             *)
EditManual(b, p, x) ==
  /\ Visible(b)
  /\ b \in ManualBookings
  /\ booking[b].status \in {"OPEN", "CONFIRMED", "DRIVER_ASSIGNED"}
  /\ Write(b, [booking[b] EXCEPT !.pickup = p, !.exempt = x,
                                 !.commission = "NOT_DUE_YET"])
  /\ UNCHANGED <<driver, now>>

-----------------------------------------------------------------------------
(* Settlement of the commission.                                           *)

(* commissionSettlement.uploadReceipt: any driver with an assignment row   *)
(* on the booking, the current one or a former one.                        *)
UploadReceipt(d, b) ==
  /\ Visible(b)
  /\ ~driver[d].archived
  /\ booking[b].status \in {"SETTLEMENT_PENDING", "COMPLETED"}
  /\ d \in booking[b].served
  /\ booking[b].commission # "PAID"
  /\ Write(b, [booking[b] EXCEPT !.slip = "attached"])
  /\ UNCHANGED <<driver, now>>

(* PAID and the move to COMPLETED in one transaction; the move fails, and  *)
(* rolls PAID back, when the booking is archived.                          *)
Settle(r) == [ApplyTransition(r, "COMPLETED") EXCEPT !.commission = "PAID"]

Approve(b) ==
  /\ Visible(b)
  /\ booking[b].status = "SETTLEMENT_PENDING"
  /\ booking[b].slip = "attached"
  /\ Write(b, Settle(booking[b]))
  /\ UNCHANGED <<driver, now>>

(* manualApproveWithoutReceipt: no slip, and none rejected.                *)
ManualApprove(b) ==
  /\ Visible(b)
  /\ booking[b].status = "SETTLEMENT_PENDING"
  /\ booking[b].commission # "PAID"
  /\ booking[b].slip = "none"
  /\ Write(b, Settle(booking[b]))
  /\ UNCHANGED <<driver, now>>

(* reject reads the settlement row without the archive filter.             *)
Reject(b) ==
  /\ booking[b].status = "SETTLEMENT_PENDING"
  /\ booking[b].commission # "PAID"
  /\ booking[b].slip = "attached"
  /\ Write(b, [booking[b] EXCEPT !.slip = "rejected"])
  /\ UNCHANGED <<driver, now>>

-----------------------------------------------------------------------------
(* Drivers.                                                                *)

WriteDriver(d, s) == driver' = [driver EXCEPT ![d].status = s]

GoOnline(d) ==
  /\ ~driver[d].archived
  /\ driver[d].status # "SUSPENDED"
  /\ ~HasBlockingSettlement(d)
  /\ WriteDriver(d, "AVAILABLE")
  /\ UNCHANGED <<booking, now>>

GoOffline(d) ==
  /\ ~driver[d].archived
  /\ ~HasActiveJob(d)
  /\ driver[d].status # "SUSPENDED"
  /\ WriteDriver(d, "OFFLINE")
  /\ UNCHANGED <<booking, now>>

(* Mutant of Suspend: trips under way are not listed.                      *)
SuspendAssignedOnly(d) ==
  LET listed == {b \in Bookings : WorksOn(booking[b], d)
                                  /\ booking[b].status = "DRIVER_ASSIGNED"}
  IN  /\ \A b \in listed : booking[b].pickup > now
      /\ booking' = [b \in Bookings |-> IF b \in listed THEN Reopen(booking[b], TRUE)
                                        ELSE booking[b]]
      /\ WriteDriver(d, "SUSPENDED")
      /\ UNCHANGED now

(* driverSuspension.suspend: refused while a listed trip is under way or   *)
(* overdue; otherwise every listed booking is reopened and the driver      *)
(* suspended, all in one transaction.                                      *)
Suspend(d) ==
  LET listed == {b \in Bookings : WorksOn(booking[b], d)
                                  /\ booking[b].status \in TripStatus}
  IN  /\ \A b \in listed : /\ booking[b].status = "DRIVER_ASSIGNED"
                           /\ booking[b].pickup > now
      /\ booking' = [b \in Bookings |-> IF b \in listed THEN Reopen(booking[b], TRUE)
                                        ELSE booking[b]]
      /\ WriteDriver(d, "SUSPENDED")
      /\ UNCHANGED now

Unsuspend(d) ==
  /\ driver[d].status = "SUSPENDED"
  /\ WriteDriver(d, "OFFLINE")
  /\ UNCHANGED <<booking, now>>

(* adminDispatch.archiveDrivers also resets the status, whatever it was.   *)
ArchiveDriver(d) ==
  /\ Archiving
  /\ ~HasActiveJob(d)
  /\ driver' = [driver EXCEPT ![d] = [status |-> "OFFLINE", archived |-> TRUE]]
  /\ UNCHANGED <<booking, now>>

RestoreDriver(d) ==
  /\ Archiving
  /\ driver' = [driver EXCEPT ![d].archived = FALSE]
  /\ UNCHANGED <<booking, now>>

(* adminDispatch.archiveBookings and restoreBookings: in any status.       *)
ArchiveBooking(b) ==
  /\ Archiving
  /\ Write(b, [booking[b] EXCEPT !.archived = TRUE])
  /\ UNCHANGED <<driver, now>>

RestoreBooking(b) ==
  /\ Archiving
  /\ Write(b, [booking[b] EXCEPT !.archived = FALSE])
  /\ UNCHANGED <<driver, now>>

(* Half an hour passes: every release cooldown running now is over, and    *)
(* the hour may have changed.                                              *)
PassTime ==
  /\ now' \in {now, now + 1} \intersect 0..MaxHour
  /\ booking' = [b \in Bookings |-> [booking[b] EXCEPT !.cooling = {}]]
  /\ UNCHANGED driver

-----------------------------------------------------------------------------
DriverAction(d) ==
  \/ GoOnline(d)
  \/ GoOffline(d)
  \/ Suspend(d)
  \/ Unsuspend(d)
  \/ ArchiveDriver(d)
  \/ RestoreDriver(d)

BookingAction(b) ==
  \/ Unassign(b)
  \/ CompleteActiveTrip(b)
  \/ CancelByCustomer(b)
  \/ CancelManual(b)
  \/ NoShow(b)
  \/ Approve(b)
  \/ ManualApprove(b)
  \/ Reject(b)
  \/ ArchiveBooking(b)
  \/ RestoreBooking(b)
  \/ \E to \in Status : ChangeStatusByAdmin(b, to)
  \/ \E p \in Slots, x \in BOOLEAN : EditManual(b, p, x)

JobAction(d, b) ==
  \/ Claim(d, b)
  \/ Accept(d, b)
  \/ Release(d, b)
  \/ Assign(d, b)
  \/ Reassign(d, b)
  \/ StartOnRoute(d, b)
  \/ MarkArrived(d, b)
  \/ MarkPickedUp(d, b)
  \/ EndTrip(d, b)
  \/ UploadReceipt(d, b)
  \/ \E to \in Status : ChangeStatusByDriver(d, b, to)

Next ==
  \/ \E d \in Drivers : DriverAction(d)
  \/ \E b \in Bookings : BookingAction(b)
  \/ \E d \in Drivers, b \in Bookings : JobAction(d, b)
  \/ PassTime

Spec == Init /\ [][Next]_vars

-----------------------------------------------------------------------------
(* Properties that hold whatever the administrators do.                    *)

(* bookings.driver_id always names the driver of the active assignment     *)
(* row, and is NULL when there is none: settlement blocking and the access *)
(* check read the column, dispatch reads the row.                          *)
DriverColumnMatches ==
  \A b \in Bookings : booking[b].driverColumn = booking[b].driver

(* A completed or cancelled booking keeps no driver assigned.              *)
EndedReleasesDriver ==
  \A b \in Bookings :
    booking[b].status \in {"COMPLETED", "CANCELLED"} => ~HasAssignment(booking[b])

(* The commission is charged exactly at the end of the trip: nothing is    *)
(* due before it, something is always charged after it (so the repair      *)
(* query for completed bookings without an obligation finds none), a trip  *)
(* awaiting settlement owes it, and only a completed one is paid or waived.*)
CommissionMatchesStatus ==
  \A b \in Bookings :
    LET r == booking[b]
    IN  /\ r.commission = "NOT_DUE_YET"
           <=> r.status \notin {"SETTLEMENT_PENDING", "COMPLETED"}
        /\ r.status = "SETTLEMENT_PENDING" => r.commission = "DUE"

(* A closed booking is never reopened, reassigned or moved to another      *)
(* closed status, by any handler.                                          *)
ClosedForever ==
  [][\A b \in Bookings :
       booking[b].status \in ClosedStatus
         => /\ booking'[b].status = booking[b].status
            /\ booking'[b].driver = booking[b].driver]_vars

(* The commission only moves forward: once charged it can only be paid,    *)
(* and what is paid or waived stays so.                                    *)
CommissionMovesForward ==
  [][\A b \in Bookings :
       LET was == booking[b].commission
           is == booking'[b].commission
       IN  was # is => \/ was = "NOT_DUE_YET" /\ is \in {"DUE", "WAIVED"}
                       \/ was = "DUE" /\ is = "PAID"]_vars

-----------------------------------------------------------------------------
(* Properties of the dedicated handlers: RawAdminStatus = FALSE.           *)

(* A booking is on a trip or awaiting settlement exactly while a driver is *)
(* assigned to it; in particular a no-show frees its driver.               *)
TripHasDriver ==
  \A b \in Bookings : booking[b].status \in JobStatus <=> HasAssignment(booking[b])

(* A completed trip is settled: its commission is paid or waived.          *)
CompletedIsSettled ==
  \A b \in Bookings :
    booking[b].status = "COMPLETED" => booking[b].commission \in {"PAID", "WAIVED"}

(* While the customer is in the car, and until the trip is settled, the    *)
(* driver does not change.                                                 *)
RiderKeepsDriver ==
  [][\A b \in Bookings :
       /\ booking[b].status \in {"PICKED_UP", "SETTLEMENT_PENDING"}
       /\ booking'[b].status \in JobStatus
       => booking'[b].driver = booking[b].driver]_vars

-----------------------------------------------------------------------------
(* Properties across bookings: besides, Archiving = FALSE, and for         *)
(* NoDoubleBooking no manual booking.                                      *)

(* No driver is assigned two bookings whose pickups are within the hour.   *)
NoDoubleBooking ==
  \A b, c \in Bookings :
    /\ b # c
    /\ HasAssignment(booking[b])
    /\ booking[b].driver = booking[c].driver
    => ~TooClose(booking[b].pickup, booking[c].pickup)

(* A suspended driver has no trip left to start or to finish.              *)
SuspendedHasNoTrip ==
  \A d \in Drivers, b \in Bookings :
    /\ driver[d].status = "SUSPENDED"
    /\ booking[b].driver = d
    => booking[b].status \notin TripStatus

(* A driver is given no further booking while the trip of another one is   *)
(* unsettled.                                                              *)
UnsettledGetsNoWork ==
  [][\A b \in Bookings, d \in Drivers :
       /\ booking[b].driver # d
       /\ booking'[b].driver = d
       => ~ \E c \in Bookings : /\ booking[c].driver = d
                                 /\ booking[c].status = "SETTLEMENT_PENDING"]_vars
=============================================================================
