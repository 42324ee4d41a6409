---------------------------- MODULE BookingRecord ----------------------------
(***************************************************************************)
(* One booking as the database keeps it: the row of table bookings, its    *)
(* assignment rows in booking_driver_assignments, and the statements that  *)
(* change them together with the triggers those statements fire            *)
(* (database/13_driver_assignment_constraints.sql).  Everything here is a  *)
(* pure function or predicate of one record; the handlers that call them   *)
(* inside a transaction are the actions of BookingLifecycle.               *)
(***************************************************************************)
EXTENDS Integers, FiniteSets

CONSTANTS Drivers,      \* the rows of table drivers
          NoDriver,     \* SQL NULL in a driver column
          Slots         \* the pickup hours a booking can be scheduled for

ASSUME NoDriverAssumption == NoDriver \notin Drivers
ASSUME SlotsAssumption == Slots \subseteq Nat

-----------------------------------------------------------------------------
(* Values.                                                                 *)

WaitingStatus == {"PENDING", "OPEN", "CONFIRMED"}
ClosedStatus == {"COMPLETED", "CANCELLED", "NO_SHOW"}      \* TERMINAL_STATUSES
UnderwayStatus == {"ON_ROUTE", "DRIVER_ARRIVED", "PICKED_UP"}
(* What completeActiveTrip may end, and what a suspension looks at.        *)
TripStatus == {"DRIVER_ASSIGNED"} \union UnderwayStatus
(* The statuses every "active job" query lists.                            *)
JobStatus == TripStatus \union {"SETTLEMENT_PENDING"}
Status == WaitingStatus \union JobStatus \union ClosedStatus

Commission == {"NOT_DUE_YET", "DUE", "PAID", "WAIVED"}
(* The transfer slip: no file, a file attached, or the last file rejected  *)
(* (commissionRejectionReason set and no file).                            *)
Slip == {"none", "attached", "rejected"}

Booking ==
  [status: Status,
   driver: Drivers \union {NoDriver},      \* driver of the active assignment row
   accepted: BOOLEAN,                      \* that row is ACCEPTED, not ASSIGNED
   driverColumn: Drivers \union {NoDriver},\* bookings.driver_id
   served: SUBSET Drivers,                 \* drivers with any assignment row
   cooling: SUBSET Drivers,                \* released it within the last 30 minutes
   commission: Commission,
   slip: Slip,
   exempt: BOOLEAN,                        \* bookings.commission_exempt
   archived: BOOLEAN,
   pickup: Slots]

(* A booking as createBooking and createAdminManualBooking insert it.      *)
NewBooking(p, x) ==
  [status |-> "OPEN", driver |-> NoDriver, accepted |-> FALSE,
   driverColumn |-> NoDriver, served |-> {}, cooling |-> {},
   commission |-> "NOT_DUE_YET", slip |-> "none", exempt |-> x,
   archived |-> FALSE, pickup |-> p]

-----------------------------------------------------------------------------
(* Assignment rows.  Each statement is followed by its trigger's effect on *)
(* bookings.driver_id.                                                     *)

HasAssignment(r) == r.driver # NoDriver

(* INSERT of an active row: refused by the unique key while another row is *)
(* active; the after-insert trigger copies the driver into the booking.    *)
InsertAssignment(r, d) ==
  [r EXCEPT !.driver = d, !.accepted = FALSE, !.driverColumn = d,
            !.served = @ \union {d}]

(* Mutant of EndAssignment: no after-update trigger.                       *)
EndAssignmentNoTrigger(r) == [r EXCEPT !.driver = NoDriver, !.accepted = FALSE]

(* is_active = 0: the after-update trigger clears the column when it still *)
(* names the driver of the row that was switched off.                      *)
EndAssignment(r) ==
  [r EXCEPT !.driver = NoDriver, !.accepted = FALSE,
            !.driverColumn = IF @ = r.driver THEN NoDriver ELSE @]

AcceptAssignment(r) == [r EXCEPT !.accepted = TRUE]

ClearAssignmentOnCancel(r) == [EndAssignment(r) EXCEPT !.driverColumn = NoDriver]

(* reopenAssignedBookingInTransaction; cools says whether the release      *)
(* marker is one that hasReleasedAssignment looks for.                     *)
Reopen(r, cools) ==
  [EndAssignment(r) EXCEPT
     !.status = "OPEN", !.driverColumn = NoDriver,
     !.cooling = IF cools THEN @ \union {r.driver} ELSE @]

-----------------------------------------------------------------------------
(* The transition table of BookingStatusService.  ADMIN stands for ADMIN   *)
(* and SUPER_ADMIN, which the table never tells apart.                     *)

Role == {"CUSTOMER", "DRIVER", "ADMIN"}

AdminMoves ==
  ({"PENDING"} \X {"OPEN", "CONFIRMED", "CANCELLED", "NO_SHOW"})
  \union ({"OPEN"} \X {"CONFIRMED", "DRIVER_ASSIGNED", "CANCELLED", "NO_SHOW"})
  \union ({"CONFIRMED"} \X {"DRIVER_ASSIGNED", "CANCELLED", "NO_SHOW"})
  \union ({"DRIVER_ASSIGNED"} \X
            {"ON_ROUTE", "CONFIRMED", "OPEN", "CANCELLED", "NO_SHOW"})
  \union ({"ON_ROUTE"} \X {"DRIVER_ARRIVED", "CANCELLED", "NO_SHOW"})
  \union ({"DRIVER_ARRIVED"} \X {"PICKED_UP", "CANCELLED", "NO_SHOW"})
  \union ({"PICKED_UP"} \X {"SETTLEMENT_PENDING", "CANCELLED"})
  \union {<<"SETTLEMENT_PENDING", "COMPLETED">>}

DriverMoves ==
  {<<"OPEN", "DRIVER_ASSIGNED">>, <<"DRIVER_ASSIGNED", "ON_ROUTE">>,
   <<"ON_ROUTE", "DRIVER_ARRIVED">>, <<"DRIVER_ARRIVED", "PICKED_UP">>,
   <<"PICKED_UP", "SETTLEMENT_PENDING">>}

CustomerMoves == {"PENDING", "OPEN", "CONFIRMED", "DRIVER_ASSIGNED"} \X {"CANCELLED"}

TransitionAllowed(from, to, role) ==
  CASE role = "ADMIN"    -> <<from, to>> \in AdminMoves
    [] role = "DRIVER"   -> <<from, to>> \in DriverMoves
    [] role = "CUSTOMER" -> <<from, to>> \in CustomerMoves

(* validateTransition without options: DRIVER_ASSIGNED -> OPEN is in the   *)
(* table but kept for the unassign handler.                                *)
ValidTransition(from, to, role) ==
  /\ ~(from = "DRIVER_ASSIGNED" /\ to = "OPEN")
  /\ from \notin ClosedStatus
  /\ TransitionAllowed(from, to, role)

(* Mutant of ApplyTransition: the commission looks at the status reached,  *)
(* so that an exempt trip, completed at once, is never charged or waived.  *)
ApplyTransitionUncharged(r, requested) ==
  LET to == IF requested = "SETTLEMENT_PENDING" /\ r.exempt
              THEN "COMPLETED" ELSE requested
      charged == IF to = "SETTLEMENT_PENDING" THEN "DUE" ELSE r.commission
      moved == [r EXCEPT !.status = to, !.commission = charged]
  IN  CASE to = "COMPLETED" -> EndAssignment(moved)
        [] to = "CANCELLED" -> ClearAssignmentOnCancel(moved)
        [] OTHER            -> moved

(* transitionInTransaction's writes once the transition is valid.          *)
ApplyTransition(r, requested) ==
  LET to == IF requested = "SETTLEMENT_PENDING" /\ r.exempt
              THEN "COMPLETED" ELSE requested
      charged == IF requested # "SETTLEMENT_PENDING" THEN r.commission
                 ELSE IF r.exempt THEN "WAIVED" ELSE "DUE"
      moved == [r EXCEPT !.status = to, !.commission = charged]
  IN  CASE to = "COMPLETED" -> EndAssignment(moved)
        [] to = "CANCELLED" -> ClearAssignmentOnCancel(moved)
        [] OTHER            -> moved

-----------------------------------------------------------------------------
(* Queries over one row.  Archived bookings are invisible to all of them.  *)

(* driverJobActiveWhereSql, findActiveAssignmentForUpdate: d works on it.  *)
WorksOn(r, d) == ~r.archived /\ r.driver = d

(* hasActiveJob, findActiveAssignmentPickupsForConflict.                   *)
IsJobOf(r, d) == WorksOn(r, d) /\ r.status \in JobStatus

(* findUnpaidSettlementsForDriver and isSettlementBlocking.                *)
OwesSettlement(r, d) ==
  /\ ~r.archived
  /\ r.driverColumn = d
  /\ r.status \in {"SETTLEMENT_PENDING", "COMPLETED"}
  /\ r.commission \notin {"PAID", "WAIVED", "NOT_DUE_YET"}

ConflictGap == 1

(* assertNoPickupTimeConflict: pickups at most 60 minutes apart clash.     *)
TooClose(p, q) == p - q \in -ConflictGap..ConflictGap
=============================================================================
