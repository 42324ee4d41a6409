------------------------ MODULE BookingLifecycleProofs ------------------------
(***************************************************************************)
(* Theorems about every execution of BookingLifecycle, for any sets of     *)
(* drivers, bookings and slots and any bound on the clock.  The inductive  *)
(* invariant says of every booking that its row is in order (RowOK), and   *)
(* every step moves every row by a RowStep; the handlers are taken one by  *)
(* one, and each writes one row except Suspend and PassTime.  The last     *)
(* section shows that a RowStep, or the rows a suspension reopens, is a    *)
(* step of TripContract or a stutter: the lifecycle implements it.         *)
(***************************************************************************)
EXTENDS BookingRefinement, TLAPS

-----------------------------------------------------------------------------
(* One row, for any drivers and slots: what the statements of              *)
(* BookingRecord do to it.  RowOK is the inductive invariant of one        *)
(* booking, RowStep what any handler may do to it.                         *)

(* The statuses in which the commission has been charged.                  *)
ChargedStatus == {"SETTLEMENT_PENDING", "COMPLETED"}

RowOK(r) ==
  /\ r \in Booking
  /\ r.driverColumn = r.driver
  /\ r.status \in {"COMPLETED", "CANCELLED"} => r.driver = NoDriver
  /\ r.commission = "NOT_DUE_YET" <=> r.status \notin ChargedStatus
  /\ r.status = "SETTLEMENT_PENDING" => r.commission = "DUE"

CommissionForward(was, is) ==
  \/ was = is
  \/ was = "NOT_DUE_YET" /\ is \in {"DUE", "WAIVED"}
  \/ was = "DUE" /\ is = "PAID"

RowStep(r, s) ==
  /\ RowOK(s)
  /\ r.status \in ClosedStatus => s.status = r.status /\ s.driver = r.driver
  /\ CommissionForward(r.commission, s.commission)

(* What the dedicated handlers keep besides: a booking is on a trip or     *)
(* awaiting settlement exactly while it has a driver, and a completed one  *)
(* is settled.                                                             *)
RowHandled(r) ==
  /\ r.status \in JobStatus <=> HasAssignment(r)
  /\ r.status = "COMPLETED" => r.commission \in {"PAID", "WAIVED"}

HeldStatus == {"DRIVER_ASSIGNED", "ON_ROUTE", "DRIVER_ARRIVED"}
RideStatus == HeldStatus \union {"PICKED_UP"}

(* What a dedicated handler may do to a booking's status and driver: the   *)
(* moves of TripContract, said of one row.                                 *)
Promised(r, s) ==
  \/ s.status = r.status /\ s.driver = r.driver
  \/ /\ r.status \in WaitingStatus \union HeldStatus
     /\ s.status \in HeldStatus
     /\ s.driver \in Drivers
  \/ r.status \in HeldStatus /\ s.status = "PICKED_UP" /\ s.driver = r.driver
  \/ r.status \in RideStatus /\ s.status = "SETTLEMENT_PENDING" /\ s.driver = r.driver
  \/ /\ r.status \in RideStatus \union {"SETTLEMENT_PENDING"}
     /\ s.status = "COMPLETED"
     /\ s.driver = NoDriver
  \/ /\ r.status \in WaitingStatus \union RideStatus
     /\ s.status \in {"CANCELLED", "NO_SHOW"}
     /\ s.driver = NoDriver
  \/ r.status = "DRIVER_ASSIGNED" /\ s.status = "OPEN" /\ s.driver = NoDriver

HandledStep(r, s) == RowHandled(s) /\ Promised(r, s)

-----------------------------------------------------------------------------
(* The statements on assignment rows.                                      *)

(* Inserting an active assignment row: the booking and its driver column   *)
(* name the new driver, nothing else changes but acceptance and history.   *)
LEMMA InsertEffect ==
  ASSUME NEW r \in Booking, NEW d \in Drivers
  PROVE  /\ InsertAssignment(r, d) \in Booking
         /\ InsertAssignment(r, d).driver = d
         /\ InsertAssignment(r, d).driverColumn = d
         /\ InsertAssignment(r, d).status = r.status
         /\ InsertAssignment(r, d).commission = r.commission
  BY DEF InsertAssignment, Booking

(* Switching the active row off frees the booking; the trigger keeps the   *)
(* driver column equal to the assignment if it was equal before.           *)
LEMMA EndEffect ==
  ASSUME NEW r \in Booking
  PROVE  /\ EndAssignment(r) \in Booking
         /\ EndAssignment(r).driver = NoDriver
         /\ r.driverColumn = r.driver => EndAssignment(r).driverColumn = NoDriver
         /\ EndAssignment(r).status = r.status
         /\ EndAssignment(r).commission = r.commission
         /\ EndAssignment(r).exempt = r.exempt
  BY DEF EndAssignment, Booking

(* clearAssignmentOnCancel clears the column whatever it held.             *)
LEMMA ClearEffect ==
  ASSUME NEW r \in Booking
  PROVE  /\ ClearAssignmentOnCancel(r) \in Booking
         /\ ClearAssignmentOnCancel(r).driver = NoDriver
         /\ ClearAssignmentOnCancel(r).driverColumn = NoDriver
         /\ ClearAssignmentOnCancel(r).status = r.status
         /\ ClearAssignmentOnCancel(r).commission = r.commission
<1>1. EndAssignment(r) \in Booking
  BY EndEffect
<1>2. QED
  BY <1>1, EndEffect DEF ClearAssignmentOnCancel, Booking

(* Reopening an assigned booking: OPEN, without a driver, the commission   *)
(* untouched.                                                              *)
LEMMA ReopenEffect ==
  ASSUME NEW r \in Booking, NEW cools \in BOOLEAN, HasAssignment(r)
  PROVE  /\ Reopen(r, cools) \in Booking
         /\ Reopen(r, cools).driver = NoDriver
         /\ Reopen(r, cools).driverColumn = NoDriver
         /\ Reopen(r, cools).status = "OPEN"
         /\ Reopen(r, cools).commission = r.commission
<1>1. EndAssignment(r) \in Booking
  BY EndEffect
<1>2. r.driver \in Drivers
  BY DEF HasAssignment, Booking
<1>3. QED
  BY <1>1, <1>2, EndEffect DEF Reopen, Booking, Status, WaitingStatus

-----------------------------------------------------------------------------
(* transitionInTransaction.                                                *)

(* The end of a trip charges the commission, or waives it and completes    *)
(* the booking at once when it is exempt.                                  *)
LEMMA EndOfTripEffect ==
  ASSUME NEW r \in Booking, r.driverColumn = r.driver
  PROVE  LET s == ApplyTransition(r, "SETTLEMENT_PENDING")
         IN  /\ s \in Booking
             /\ s.driverColumn = s.driver
             /\ ~r.exempt => /\ s.status = "SETTLEMENT_PENDING"
                             /\ s.commission = "DUE"
                             /\ s.driver = r.driver
             /\ r.exempt => /\ s.status = "COMPLETED"
                            /\ s.commission = "WAIVED"
                            /\ s.driver = NoDriver
<1>1. CASE r.exempt
  <2>. DEFINE m == [r EXCEPT !.status = "COMPLETED", !.commission = "WAIVED"]
  <2>1. /\ m \in Booking /\ m.driverColumn = m.driver
        /\ m.status = "COMPLETED" /\ m.commission = "WAIVED"
    BY DEF Booking, Status, ClosedStatus, Commission
  <2>2. ApplyTransition(r, "SETTLEMENT_PENDING") = EndAssignment(m)
    BY <1>1 DEF ApplyTransition
  <2>. HIDE DEF m
  <2>3. QED
    BY <1>1, <2>1, <2>2, EndEffect
<1>2. CASE ~r.exempt
  <2>. DEFINE m == [r EXCEPT !.status = "SETTLEMENT_PENDING", !.commission = "DUE"]
  <2>1. /\ m \in Booking /\ m.driverColumn = m.driver /\ m.driver = r.driver
        /\ m.status = "SETTLEMENT_PENDING" /\ m.commission = "DUE"
    BY DEF Booking, Status, JobStatus, Commission
  <2>2. ApplyTransition(r, "SETTLEMENT_PENDING") = m
    BY <1>2 DEF ApplyTransition
  <2>. HIDE DEF m
  <2>3. QED
    BY <1>2, <2>1, <2>2
<1>3. QED
  BY <1>1, <1>2

(* Every other move keeps the commission; completion and cancellation free *)
(* the driver, the rest keep the assignment.                               *)
LEMMA PlainMoveEffect ==
  ASSUME NEW r \in Booking, r.driverColumn = r.driver,
         NEW to \in Status, to # "SETTLEMENT_PENDING"
  PROVE  LET s == ApplyTransition(r, to)
         IN  /\ s \in Booking
             /\ s.driverColumn = s.driver
             /\ s.status = to
             /\ s.commission = r.commission
             /\ s.driver = IF to \in {"COMPLETED", "CANCELLED"} THEN NoDriver
                           ELSE r.driver
<1>. DEFINE m == [r EXCEPT !.status = to, !.commission = r.commission]
<1>1. /\ m \in Booking /\ m.driverColumn = m.driver /\ m.driver = r.driver
      /\ m.status = to /\ m.commission = r.commission
  BY DEF Booking
<1>2. ApplyTransition(r, to) = CASE to = "COMPLETED" -> EndAssignment(m)
                                 [] to = "CANCELLED" -> ClearAssignmentOnCancel(m)
                                 [] OTHER            -> m
  BY DEF ApplyTransition
<1>. HIDE DEF m
<1>3. CASE to = "COMPLETED"
  BY <1>1, <1>2, <1>3, EndEffect
<1>4. CASE to = "CANCELLED"
  BY <1>1, <1>2, <1>4, ClearEffect
<1>5. CASE to \notin {"COMPLETED", "CANCELLED"}
  BY <1>1, <1>2, <1>5
<1>6. QED
  BY <1>3, <1>4, <1>5

-----------------------------------------------------------------------------
(* All rows.                                                               *)

IInv ==
  /\ TypeOK
  /\ \A b \in Bookings : RowOK(booking[b])

(* HandledStep is what a step does besides when administrators only use    *)
(* the dedicated handlers.                                                 *)
Moves(r, s) == /\ RowStep(r, s)
               /\ ~RawAdminStatus /\ RowHandled(r) => HandledStep(r, s)

RowsStep == /\ booking' \in [Bookings -> Booking]
            /\ \A b \in Bookings : Moves(booking[b], booking'[b])

-----------------------------------------------------------------------------
(* A booking as it is inserted is in order.                                *)
LEMMA InitIInv == Init => IInv
<1>1. ASSUME NEW p \in Slots, NEW x \in BOOLEAN
      PROVE  RowOK(NewBooking(p, x))
  BY DEF RowOK, NewBooking, Booking, Status, WaitingStatus, JobStatus, TripStatus,
         UnderwayStatus, ClosedStatus, ChargedStatus, Commission, Slip
<1>2. ASSUME Init PROVE IInv
  <2>1. ASSUME NEW b \in Bookings PROVE RowOK(booking[b])
    BY <1>1, <1>2 DEF Init
  <2>2. booking \in [Bookings -> Booking]
    <3>1. booking = [b \in Bookings |-> booking[b]]
      BY <1>2 DEF Init
    <3>2. QED
      BY <2>1, <3>1 DEF RowOK
  <2>3. driver \in [Drivers -> DriverRow] /\ now \in 0..MaxHour
    BY <1>2, MaxHourAssumption DEF Init, DriverRow
  <2>4. QED
    BY <2>1, <2>2, <2>3 DEF IInv, TypeOK
<1>3. QED
  BY <1>2

(* A row that does not change makes a step.                                *)
LEMMA SameRow == ASSUME NEW r, RowOK(r) PROVE Moves(r, r)
  BY DEF Moves, RowStep, HandledStep, Promised, CommissionForward

(* So does a row that changes in fields no property is about.              *)
LEMMA QuietRow ==
  ASSUME NEW r, NEW s \in Booking, RowOK(r),
         s.status = r.status, s.driver = r.driver,
         s.driverColumn = r.driverColumn, s.commission = r.commission
  PROVE  Moves(r, s)
  BY DEF Moves, RowStep, RowOK, RowHandled, HandledStep, Promised,
         HasAssignment, CommissionForward

(* Writing one row moves every row when it moves that one.                 *)
LEMMA WriteStep ==
  ASSUME IInv, NEW b \in Bookings, NEW r, Moves(booking[b], r), Write(b, r)
  PROVE  RowsStep
<1>0. booking' \in [Bookings -> Booking]
  BY DEF IInv, TypeOK, Write, Moves, RowStep, RowOK
<1>. SUFFICES ASSUME NEW c \in Bookings PROVE Moves(booking[c], booking'[c])
  BY <1>0 DEF RowsStep
<1>1. CASE c = b
  BY <1>1 DEF IInv, TypeOK, Write
<1>2. CASE c # b
  BY <1>2, SameRow DEF IInv, TypeOK, Write
<1>3. QED
  BY <1>1, <1>2

-----------------------------------------------------------------------------
(* The dispatch handlers.                                                  *)

(* An open booking, which is free, is given to a driver.                   *)
LEMMA OpenAssignedMoves ==
  ASSUME NEW r, RowOK(r), r.status = "OPEN", NEW d \in Drivers
  PROVE  Moves(r, [InsertAssignment(r, d) EXCEPT !.status = "DRIVER_ASSIGNED"])
<1>. DEFINE i == InsertAssignment(r, d)
            s == [i EXCEPT !.status = "DRIVER_ASSIGNED"]
<1>1. r \in Booking
  BY DEF RowOK
<1>2. /\ i \in Booking /\ i.driver = d /\ i.driverColumn = d
      /\ i.commission = r.commission
  BY <1>1, InsertEffect
<1>. HIDE DEF i
<1>3. /\ s \in Booking /\ s.driver = d /\ s.driverColumn = d
      /\ s.commission = r.commission /\ s.status = "DRIVER_ASSIGNED"
  BY <1>2 DEF Booking, Status, JobStatus, TripStatus
<1>. HIDE DEF s
<1>4. RowStep(r, s)
  BY <1>3 DEF RowStep, RowOK, CommissionForward, ChargedStatus, ClosedStatus
<1>5. HandledStep(r, s)
  <2>1. RowHandled(s)
    BY <1>3, NoDriverAssumption DEF RowHandled, HasAssignment, JobStatus, TripStatus
  <2>2. Promised(r, s)
    BY <1>3 DEF Promised, WaitingStatus, HeldStatus
  <2>3. QED
    BY <2>1, <2>2 DEF HandledStep
<1>6. Moves(r, s)
  BY <1>4, <1>5 DEF Moves
<1>7. QED
  BY <1>6 DEF s, i

(* A claim moves an open row to its driver.                                *)
LEMMA ClaimStep ==
  ASSUME IInv, NEW d \in Drivers, NEW b \in Bookings, Claim(d, b)
  PROVE  RowsStep
<1>1. /\ RowOK(booking[b]) /\ booking[b].status = "OPEN"
      /\ Write(b, [InsertAssignment(booking[b], d) EXCEPT !.status = "DRIVER_ASSIGNED"])
  BY DEF IInv, Claim
<1>2. QED
  BY <1>1, OpenAssignedMoves, WriteStep

(* Standby confirmation touches the acceptance only.                       *)
LEMMA AcceptStep ==
  ASSUME IInv, NEW d \in Drivers, NEW b \in Bookings, Accept(d, b)
  PROVE  RowsStep
<1>. DEFINE r == booking[b]
            s == AcceptAssignment(r)
<1>1. RowOK(r) /\ r \in Booking /\ Write(b, s)
  BY DEF IInv, RowOK, Accept
<1>. HIDE DEF r
<1>2. /\ s \in Booking /\ s.status = r.status /\ s.driver = r.driver
      /\ s.driverColumn = r.driverColumn /\ s.commission = r.commission
  BY <1>1 DEF Booking, AcceptAssignment
<1>. HIDE DEF s
<1>3. QED
  BY <1>1, <1>2, QuietRow, WriteStep DEF r

(* Reopening an assigned booking, by release, unassignment or suspension.  *)
LEMMA ReopenMoves ==
  ASSUME NEW r, NEW cools \in BOOLEAN,
         RowOK(r), HasAssignment(r), r.status = "DRIVER_ASSIGNED"
  PROVE  Moves(r, Reopen(r, cools))
<1>. DEFINE s == Reopen(r, cools)
<1>1. /\ s \in Booking /\ s.driver = NoDriver /\ s.driverColumn = NoDriver
      /\ s.status = "OPEN" /\ s.commission = r.commission
  BY ReopenEffect DEF RowOK
<1>. HIDE DEF s
<1>2. RowStep(r, s)
  BY <1>1 DEF RowStep, RowOK, CommissionForward, ChargedStatus, ClosedStatus
<1>3. HandledStep(r, s)
  BY <1>1 DEF HandledStep, Promised, RowHandled, HasAssignment, JobStatus, TripStatus,
              UnderwayStatus
<1>4. QED
  BY <1>2, <1>3 DEF Moves, s

(* A driver's release reopens the row and remembers him for the cooldown.  *)
LEMMA ReleaseStep ==
  ASSUME IInv, NEW d \in Drivers, NEW b \in Bookings, Release(d, b)
  PROVE  RowsStep
<1>1. /\ RowOK(booking[b]) /\ HasAssignment(booking[b])
      /\ booking[b].status = "DRIVER_ASSIGNED" /\ Write(b, Reopen(booking[b], TRUE))
  BY NoDriverAssumption DEF IInv, Release, HasAssignment
<1>2. QED
  BY <1>1, ReopenMoves, WriteStep

(* An administrator's release reopens the row.                             *)
LEMMA UnassignStep ==
  ASSUME IInv, NEW b \in Bookings, Unassign(b)
  PROVE  RowsStep
<1>1. /\ RowOK(booking[b]) /\ HasAssignment(booking[b])
      /\ booking[b].status = "DRIVER_ASSIGNED" /\ Write(b, Reopen(booking[b], FALSE))
  BY DEF IInv, Unassign
<1>2. QED
  BY <1>1, ReopenMoves, WriteStep

(* An administrator's assignment needs a booking that is not closed and    *)
(* has no driver; only a waiting one changes its status.                   *)
LEMMA AssignStep ==
  ASSUME IInv, NEW d \in Drivers, NEW b \in Bookings, Assign(d, b)
  PROVE  RowsStep
<1>. DEFINE r == booking[b]
            i == InsertAssignment(r, d)
            t == IF i.status \in WaitingStatus THEN "DRIVER_ASSIGNED" ELSE i.status
            s == [i EXCEPT !.status = t]
<1>1. /\ RowOK(r) /\ r \in Booking /\ r.status \notin ClosedStatus
      /\ ~HasAssignment(r) /\ Write(b, s)
  BY DEF IInv, RowOK, Assign
<1>2. /\ i \in Booking /\ i.driver = d /\ i.driverColumn = d
      /\ i.status = r.status /\ i.commission = r.commission
  BY <1>1, InsertEffect
<1>. HIDE DEF r, i
<1>3. /\ t \in Status
      /\ t = IF r.status \in WaitingStatus THEN "DRIVER_ASSIGNED" ELSE r.status
  BY <1>2 DEF Booking, Status, JobStatus, TripStatus
<1>. HIDE DEF t
<1>4. /\ s \in Booking /\ s.driver = d /\ s.driverColumn = d
      /\ s.commission = r.commission /\ s.status = t
  BY <1>2, <1>3 DEF Booking
<1>. HIDE DEF s
<1>5. RowStep(r, s)
  BY <1>1, <1>3, <1>4
     DEF RowStep, RowOK, CommissionForward, ChargedStatus, ClosedStatus, WaitingStatus
<1>6. ASSUME RowHandled(r) PROVE HandledStep(r, s)
  <2>1. r.status \in WaitingStatus
    BY <1>1, <1>6 DEF RowHandled, Booking, Status
  <2>2. QED
    BY <2>1, <1>3, <1>4, NoDriverAssumption
       DEF HandledStep, Promised, HeldStatus, RowHandled, HasAssignment, JobStatus,
           TripStatus, WaitingStatus
<1>7. QED
  BY <1>1, <1>5, <1>6, WriteStep DEF r, Moves

(* Reassignment exchanges the driver before the pickup and keeps the       *)
(* status.                                                                 *)
LEMMA ReassignStep ==
  ASSUME IInv, NEW d \in Drivers, NEW b \in Bookings, Reassign(d, b)
  PROVE  RowsStep
<1>. DEFINE r == booking[b]
            e == EndAssignment(r)
            s == InsertAssignment(e, d)
<1>1. /\ RowOK(r) /\ r \in Booking /\ HasAssignment(r) /\ Write(b, s)
      /\ r.status \notin {"PICKED_UP", "SETTLEMENT_PENDING"} \union ClosedStatus
  BY DEF IInv, RowOK, Reassign
<1>2. e \in Booking /\ e.status = r.status /\ e.commission = r.commission
  BY <1>1, EndEffect
<1>. HIDE DEF r, e
<1>3. /\ s \in Booking /\ s.driver = d /\ s.driverColumn = d
      /\ s.status = r.status /\ s.commission = r.commission
  BY <1>2, InsertEffect
<1>. HIDE DEF s
<1>4. RowStep(r, s)
  BY <1>1, <1>3 DEF RowStep, RowOK, CommissionForward, ClosedStatus
<1>5. ASSUME RowHandled(r) PROVE HandledStep(r, s)
  <2>1. RowHandled(s)
    BY <1>1, <1>3, <1>5, NoDriverAssumption DEF RowHandled, HasAssignment, ClosedStatus
  <2>2. r.status \in HeldStatus
    BY <1>1, <1>5 DEF RowHandled, HeldStatus, JobStatus, TripStatus, UnderwayStatus
  <2>3. QED
    BY <1>3, <2>1, <2>2 DEF HandledStep, Promised
<1>6. QED
  BY <1>1, <1>4, <1>5, WriteStep DEF r, Moves

-----------------------------------------------------------------------------
(* The moves of the transition table.                                      *)

(* What a move may start from and lead to so that it leaves the row in     *)
(* order; Handled adds what the dedicated handlers ask for.                *)
SafeMove(r, to) ==
  /\ to \in Status
  /\ r.status \notin ClosedStatus
  /\ to = "SETTLEMENT_PENDING" => r.status # "SETTLEMENT_PENDING"
  /\ to = "COMPLETED" <=> r.status = "SETTLEMENT_PENDING"

HandledMove(r, to) ==
  \/ to = "COMPLETED" /\ r.commission \in {"PAID", "WAIVED"}
  \/ to = "CANCELLED"
  \/ HasAssignment(r) /\ (to = "SETTLEMENT_PENDING" \/ <<r.status, to>> \in DriverMoves)

(* Every move of the table, whoever makes it, is safe.                     *)
LEMMA ValidMovesAreSafe ==
  ASSUME NEW r \in Booking, NEW to \in Status, NEW role \in Role,
         ValidTransition(r.status, to, role)
  PROVE  SafeMove(r, to)
<1>1. CASE role = "ADMIN"
  BY <1>1 DEF ValidTransition, TransitionAllowed, AdminMoves, SafeMove, ClosedStatus
<1>2. CASE role = "DRIVER"
  BY <1>2 DEF ValidTransition, TransitionAllowed, DriverMoves, SafeMove, ClosedStatus
<1>3. CASE role = "CUSTOMER"
  BY <1>3 DEF ValidTransition, TransitionAllowed, CustomerMoves, SafeMove, ClosedStatus
<1>4. QED
  BY <1>1, <1>2, <1>3 DEF Role

(* A safe move keeps the row in order: the commission is charged by the    *)
(* end of the trip and by nothing else, a closing move frees the driver.   *)
LEMMA MoveStep ==
  ASSUME NEW r, NEW to, RowOK(r), SafeMove(r, to)
  PROVE  /\ RowStep(r, ApplyTransition(r, to))
         /\ RowHandled(r) /\ HandledMove(r, to)
              => HandledStep(r, ApplyTransition(r, to))
<1>. DEFINE s == ApplyTransition(r, to)
<1>0. r \in Booking /\ r.driverColumn = r.driver /\ to \in Status
  BY DEF RowOK, SafeMove
<1>1. CASE to = "SETTLEMENT_PENDING"
  <2>1. /\ s \in Booking /\ s.driverColumn = s.driver
        /\ \/ /\ s.status = "SETTLEMENT_PENDING" /\ s.commission = "DUE"
              /\ s.driver = r.driver
           \/ /\ s.status = "COMPLETED" /\ s.commission = "WAIVED"
              /\ s.driver = NoDriver
    BY <1>0, <1>1, EndOfTripEffect
  <2>2. r.commission = "NOT_DUE_YET" /\ r.status \notin ClosedStatus
    BY <1>0, <1>1 DEF RowOK, SafeMove, ChargedStatus, ClosedStatus
  <2>. HIDE DEF s
  <2>3. RowStep(r, s)
    BY <2>1, <2>2 DEF RowStep, RowOK, CommissionForward, ChargedStatus
  <2>4. ASSUME RowHandled(r), HandledMove(r, to) PROVE HandledStep(r, s)
    <3>1. r.driver # NoDriver
      BY <1>1, <2>4 DEF HandledMove, HasAssignment
    <3>2. r.status \in RideStatus
      BY <1>1, <2>4, <3>1 DEF SafeMove, RowHandled, HasAssignment, RideStatus,
                              HeldStatus, JobStatus, TripStatus, UnderwayStatus
    <3>3. RowHandled(s)
      BY <2>1, <3>1
         DEF RowHandled, HasAssignment, JobStatus, TripStatus, UnderwayStatus
    <3>4. QED
      BY <2>1, <3>2, <3>3 DEF HandledStep, Promised
  <2>5. QED
    BY <2>3, <2>4 DEF s
<1>2. CASE to # "SETTLEMENT_PENDING"
  <2>1. /\ s \in Booking /\ s.driverColumn = s.driver /\ s.status = to
        /\ s.commission = r.commission
        /\ s.driver = IF to \in {"COMPLETED", "CANCELLED"} THEN NoDriver ELSE r.driver
    BY <1>0, <1>2, PlainMoveEffect
  <2>. HIDE DEF s
  <2>2. RowStep(r, s)
    BY <1>2, <2>1 DEF RowStep, RowOK, SafeMove, CommissionForward, ChargedStatus,
                      ClosedStatus
  <2>3. ASSUME RowHandled(r), HandledMove(r, to) PROVE HandledStep(r, s)
    <3>1. CASE to = "COMPLETED" /\ r.commission \in {"PAID", "WAIVED"}
      BY <2>1, <3>1
         DEF SafeMove, HandledStep, Promised, RowHandled, HasAssignment, JobStatus,
             TripStatus, UnderwayStatus
    <3>2. CASE to = "CANCELLED"
      <4>1. r.status \in WaitingStatus \union RideStatus
        BY <1>0, <3>2 DEF SafeMove, Booking, Status, JobStatus, TripStatus,
                          UnderwayStatus, RideStatus, HeldStatus
      <4>2. RowHandled(s)
        BY <2>1, <3>2
           DEF RowHandled, HasAssignment, JobStatus, TripStatus, UnderwayStatus
      <4>3. QED
        BY <2>1, <3>2, <4>1, <4>2 DEF HandledStep, Promised
    <3>3. CASE HasAssignment(r) /\ <<r.status, to>> \in DriverMoves
      <4>1. /\ r.status \in HeldStatus
            /\ to \in HeldStatus \union {"PICKED_UP"}
        BY <1>2, <2>3, <3>3
           DEF DriverMoves, RowHandled, HeldStatus, JobStatus, TripStatus,
               UnderwayStatus
      <4>2. s.driver = r.driver /\ r.driver \in Drivers
        BY <1>0, <2>1, <3>3, <4>1 DEF HeldStatus, HasAssignment, Booking
      <4>3. RowHandled(s)
        BY <2>1, <3>3, <4>1, <4>2 DEF RowHandled, HasAssignment, HeldStatus, JobStatus,
                                      TripStatus, UnderwayStatus
      <4>4. QED
        BY <2>1, <4>1, <4>2, <4>3 DEF HandledStep, Promised
    <3>4. QED
      BY <1>2, <2>3, <3>1, <3>2, <3>3 DEF HandledMove
  <2>4. QED
    BY <2>2, <2>3 DEF s
<1>3. QED
  BY <1>1, <1>2

(* Each step of the trip flow is a transition of the table.                *)
LEMMA TripStepStep ==
  ASSUME IInv, NEW d \in Drivers, NEW b \in Bookings, NEW from, NEW to,
         <<from, to>> \in DriverMoves \ {<<"OPEN", "DRIVER_ASSIGNED">>},
         TripStep(d, b, from, to)
  PROVE  RowsStep
<1>. DEFINE r == booking[b]
<1>1. /\ RowOK(r) /\ r.status = from /\ Write(b, ApplyTransition(r, to))
      /\ HasAssignment(r)
  BY NoDriverAssumption DEF IInv, TripStep, WorksOn, HasAssignment
<1>2. SafeMove(r, to) /\ HandledMove(r, to)
  BY <1>1 DEF DriverMoves, SafeMove, HandledMove, Status, JobStatus, TripStatus,
              UnderwayStatus, ClosedStatus
<1>3. QED
  BY <1>1, <1>2, MoveStep, WriteStep DEF Moves

(* An administrator ends a trip as its driver would.                       *)
LEMMA CompleteActiveTripStep ==
  ASSUME IInv, NEW b \in Bookings, CompleteActiveTrip(b)
  PROVE  RowsStep
<1>. DEFINE r == booking[b]
            to == "SETTLEMENT_PENDING"
<1>1. /\ RowOK(r) /\ r.status \in TripStatus /\ Write(b, ApplyTransition(r, to))
      /\ HasAssignment(r)
  BY DEF IInv, CompleteActiveTrip
<1>2. SafeMove(r, to) /\ HandledMove(r, to)
  BY <1>1 DEF SafeMove, HandledMove, Status, JobStatus, TripStatus, UnderwayStatus,
              ClosedStatus
<1>3. QED
  BY <1>1, <1>2, MoveStep, WriteStep DEF Moves

(* The driver the column names is the assigned one, so the booking is not  *)
(* an open one and keeps its driver.                                       *)
LEMMA ChangeStatusByDriverStep ==
  ASSUME IInv, NEW d \in Drivers, NEW b \in Bookings, NEW to \in Status,
         ChangeStatusByDriver(d, b, to)
  PROVE  RowsStep
<1>. DEFINE r == booking[b]
<1>1. /\ RowOK(r) /\ r \in Booking /\ HasAssignment(r)
      /\ Write(b, ApplyTransition(r, to)) /\ ValidTransition(r.status, to, "DRIVER")
  BY NoDriverAssumption DEF IInv, RowOK, ChangeStatusByDriver, HasAssignment
<1>2. SafeMove(r, to)
  BY <1>1, ValidMovesAreSafe DEF Role
<1>3. HandledMove(r, to)
  BY <1>1 DEF ValidTransition, TransitionAllowed, DriverMoves, HandledMove, JobStatus,
              TripStatus, UnderwayStatus
<1>4. QED
  BY <1>1, <1>2, <1>3, MoveStep, WriteStep DEF Moves

(* A raw status change is a transition an administrator may make.          *)
LEMMA ChangeStatusByAdminStep ==
  ASSUME IInv, NEW b \in Bookings, NEW to \in Status, ChangeStatusByAdmin(b, to)
  PROVE  RowsStep
<1>. DEFINE r == booking[b]
<1>1. /\ RawAdminStatus /\ RowOK(r) /\ r \in Booking
      /\ Write(b, ApplyTransition(r, to)) /\ ValidTransition(r.status, to, "ADMIN")
  BY DEF IInv, RowOK, ChangeStatusByAdmin
<1>2. SafeMove(r, to)
  BY <1>1, ValidMovesAreSafe DEF Role
<1>3. QED
  BY <1>1, <1>2, MoveStep, WriteStep DEF Moves

(* Both cancellations are transitions to CANCELLED.                        *)
LEMMA CancelStep ==
  ASSUME IInv, NEW b \in Bookings, CancelByCustomer(b) \/ CancelManual(b)
  PROVE  RowsStep
<1>. DEFINE r == booking[b]
            to == "CANCELLED"
<1>1. /\ RowOK(r) /\ r \in Booking /\ to \in Status /\ Write(b, ApplyTransition(r, to))
      /\ \E role \in Role : ValidTransition(r.status, to, role)
  BY DEF IInv, RowOK, CancelByCustomer, CancelManual, Role, Status, ClosedStatus
<1>2. SafeMove(r, to) /\ HandledMove(r, to)
  BY <1>1, ValidMovesAreSafe DEF HandledMove
<1>3. QED
  BY <1>1, <1>2, MoveStep, WriteStep DEF Moves

(* A no-show frees the driver by clearAssignmentOnCancel.                  *)
LEMMA NoShowStep ==
  ASSUME IInv, NEW b \in Bookings, NoShow(b)
  PROVE  RowsStep
<1>. DEFINE r == booking[b]
            m == ApplyTransition(r, "NO_SHOW")
            s == ClearAssignmentOnCancel(m)
<1>1. /\ RowOK(r) /\ r \in Booking /\ Write(b, s) /\ "NO_SHOW" \in Status
      /\ ValidTransition(r.status, "NO_SHOW", "ADMIN") /\ r.driverColumn = r.driver
  BY DEF IInv, RowOK, NoShow, Status, ClosedStatus
<1>2. SafeMove(r, "NO_SHOW")
  BY <1>1, ValidMovesAreSafe DEF Role
<1>3. m \in Booking /\ m.status = "NO_SHOW" /\ m.commission = r.commission
  BY <1>1, PlainMoveEffect
<1>. HIDE DEF m
<1>4. /\ s \in Booking /\ s.status = "NO_SHOW" /\ s.commission = r.commission
      /\ s.driver = NoDriver /\ s.driverColumn = NoDriver
  BY <1>3, ClearEffect
<1>. HIDE DEF s
<1>5. RowStep(r, s)
  BY <1>1, <1>2, <1>4 DEF RowStep, RowOK, SafeMove, CommissionForward, ChargedStatus,
                          ClosedStatus
<1>6. HandledStep(r, s)
  <2>1. RowHandled(s)
    BY <1>4 DEF RowHandled, HasAssignment, JobStatus, TripStatus, UnderwayStatus
  <2>2. r.status \in WaitingStatus \union RideStatus
    BY <1>1, <1>2 DEF ValidTransition, TransitionAllowed, AdminMoves, WaitingStatus,
                      RideStatus, HeldStatus
  <2>3. QED
    BY <1>4, <2>1, <2>2 DEF HandledStep, Promised
<1>7. QED
  BY <1>1, <1>5, <1>6, WriteStep DEF Moves

-----------------------------------------------------------------------------
(* Editing, settlement and archiving of a booking.                         *)

(* An edit resets the commission to what it is before the trip's end.      *)
LEMMA EditManualStep ==
  ASSUME IInv, NEW b \in Bookings, NEW p \in Slots, NEW x \in BOOLEAN,
         EditManual(b, p, x)
  PROVE  RowsStep
<1>. DEFINE r == booking[b]
            s == [r EXCEPT !.pickup = p, !.exempt = x, !.commission = "NOT_DUE_YET"]
<1>1. /\ RowOK(r) /\ r \in Booking /\ Write(b, s)
      /\ r.status \in {"OPEN", "CONFIRMED", "DRIVER_ASSIGNED"}
  BY DEF IInv, RowOK, EditManual
<1>2. r.commission = "NOT_DUE_YET"
  BY <1>1 DEF RowOK, ChargedStatus
<1>. HIDE DEF r
<1>3. /\ s \in Booking /\ s.status = r.status /\ s.driver = r.driver
      /\ s.driverColumn = r.driverColumn /\ s.commission = "NOT_DUE_YET"
  BY <1>1 DEF Booking, Commission
<1>. HIDE DEF s
<1>4. QED
  BY <1>1, <1>2, <1>3, QuietRow, WriteStep DEF r

(* The slip of a receipt is no part of the invariant.                      *)
LEMMA SlipStep ==
  ASSUME IInv, NEW b \in Bookings, NEW f \in Slip,
         Write(b, [booking[b] EXCEPT !.slip = f])
  PROVE  RowsStep
<1>. DEFINE r == booking[b]
            s == [r EXCEPT !.slip = f]
<1>1. RowOK(r) /\ r \in Booking /\ Write(b, s)
  BY DEF IInv, RowOK
<1>. HIDE DEF r
<1>2. /\ s \in Booking /\ s.status = r.status /\ s.driver = r.driver
      /\ s.driverColumn = r.driverColumn /\ s.commission = r.commission
  BY <1>1 DEF Booking
<1>. HIDE DEF s
<1>3. QED
  BY <1>1, <1>2, QuietRow, WriteStep DEF r

(* Archiving hides a booking and changes nothing else of it.               *)
LEMMA ArchivedStep ==
  ASSUME IInv, NEW b \in Bookings, NEW h \in BOOLEAN,
         Write(b, [booking[b] EXCEPT !.archived = h])
  PROVE  RowsStep
<1>. DEFINE r == booking[b]
            s == [r EXCEPT !.archived = h]
<1>1. RowOK(r) /\ r \in Booking /\ Write(b, s)
  BY DEF IInv, RowOK
<1>. HIDE DEF r
<1>2. /\ s \in Booking /\ s.status = r.status /\ s.driver = r.driver
      /\ s.driverColumn = r.driverColumn /\ s.commission = r.commission
  BY <1>1 DEF Booking
<1>. HIDE DEF s
<1>3. QED
  BY <1>1, <1>2, QuietRow, WriteStep DEF r

(* Approval, with a slip or without, takes a booking that awaits           *)
(* settlement, and so owes its commission, to COMPLETED and PAID.          *)
LEMMA SettleStep ==
  ASSUME IInv, NEW b \in Bookings, booking[b].status = "SETTLEMENT_PENDING",
         Write(b, Settle(booking[b]))
  PROVE  RowsStep
<1>. DEFINE r == booking[b]
            m == ApplyTransition(r, "COMPLETED")
            s == [m EXCEPT !.commission = "PAID"]
<1>1. /\ RowOK(r) /\ r \in Booking /\ Write(b, s) /\ "COMPLETED" \in Status
      /\ r.driverColumn = r.driver /\ r.commission = "DUE"
      /\ r.status = "SETTLEMENT_PENDING"
  BY DEF IInv, RowOK, Settle, Status, ClosedStatus
<1>2. /\ m \in Booking /\ m.status = "COMPLETED" /\ m.driver = NoDriver
      /\ m.driverColumn = NoDriver
  BY <1>1, PlainMoveEffect
<1>. HIDE DEF r, m
<1>3. /\ s \in Booking /\ s.status = "COMPLETED" /\ s.driver = NoDriver
      /\ s.driverColumn = NoDriver /\ s.commission = "PAID"
  BY <1>2 DEF Booking, Commission
<1>. HIDE DEF s
<1>4. RowStep(r, s)
  BY <1>1, <1>3 DEF RowStep, RowOK, CommissionForward, ChargedStatus, ClosedStatus
<1>5. HandledStep(r, s)
  <2>1. RowHandled(s)
    BY <1>3 DEF RowHandled, HasAssignment, JobStatus, TripStatus, UnderwayStatus
  <2>2. QED
    BY <1>1, <1>3, <2>1 DEF HandledStep, Promised
<1>6. QED
  BY <1>1, <1>4, <1>5, WriteStep DEF Moves, r

-----------------------------------------------------------------------------
(* Steps that write no booking, or several.                                *)

(* What leaves the bookings alone keeps their rows in order.               *)
LEMMA NoBookingStep ==
  ASSUME IInv, UNCHANGED booking
  PROVE  RowsStep
  BY SameRow DEF IInv, TypeOK, RowsStep

(* A suspension reopens assigned bookings only.                            *)
LEMMA SuspendStep ==
  ASSUME IInv, NEW d \in Drivers, Suspend(d)
  PROVE  RowsStep
<1>. DEFINE listed == {b \in Bookings : WorksOn(booking[b], d)
                                        /\ booking[b].status \in TripStatus}
<1>1. /\ \A b \in listed : booking[b].status = "DRIVER_ASSIGNED"
      /\ booking' = [b \in Bookings |-> IF b \in listed THEN Reopen(booking[b], TRUE)
                                        ELSE booking[b]]
  BY DEF Suspend
<1>2. ASSUME NEW b \in Bookings PROVE Moves(booking[b], booking'[b])
  <2>1. CASE b \in listed
    <3>1. /\ RowOK(booking[b]) /\ HasAssignment(booking[b])
          /\ booking[b].status = "DRIVER_ASSIGNED"
      BY <1>1, <2>1, NoDriverAssumption DEF IInv, WorksOn, HasAssignment
    <3>2. booking'[b] = Reopen(booking[b], TRUE)
      BY <1>1, <2>1
    <3>3. QED
      BY <3>1, <3>2, ReopenMoves
  <2>2. CASE b \notin listed
    <3>1. booking'[b] = booking[b] /\ RowOK(booking[b])
      BY <1>1, <2>2 DEF IInv
    <3>2. QED
      BY <3>1, SameRow
  <2>3. QED
    BY <2>1, <2>2
<1>3. booking' = [b \in Bookings |-> booking'[b]]
  BY <1>1
<1>4. booking' \in [Bookings -> Booking]
  BY <1>2, <1>3 DEF Moves, RowStep, RowOK
<1>5. QED
  BY <1>2, <1>4 DEF RowsStep

(* The end of the cooldowns is no part of the invariant.                   *)
LEMMA PassTimeStep ==
  ASSUME IInv, PassTime
  PROVE  RowsStep
<1>1. ASSUME NEW b \in Bookings
      PROVE  Moves(booking[b], booking'[b]) /\ booking'[b] \in Booking
  <2>. DEFINE r == booking[b]
              s == [r EXCEPT !.cooling = {}]
  <2>1. RowOK(r) /\ r \in Booking /\ booking'[b] = s
    BY DEF IInv, RowOK, PassTime
  <2>. HIDE DEF r
  <2>2. /\ s \in Booking /\ s.status = r.status /\ s.driver = r.driver
        /\ s.driverColumn = r.driverColumn /\ s.commission = r.commission
    BY <2>1 DEF Booking
  <2>. HIDE DEF s
  <2>3. QED
    BY <2>1, <2>2, QuietRow DEF r
<1>2. booking' = [b \in Bookings |-> booking'[b]]
  BY DEF PassTime
<1>3. QED
  BY <1>1, <1>2 DEF RowsStep

-----------------------------------------------------------------------------
(* Every step of the system.                                               *)

(* So does every step: one case per handler.                               *)
LEMMA NextRowsStep == IInv /\ [Next]_vars => RowsStep
<1>. SUFFICES ASSUME IInv, [Next]_vars PROVE RowsStep
  OBVIOUS
<1>1. ASSUME NEW d \in Drivers, DriverAction(d) PROVE RowsStep
  BY <1>1, NoBookingStep, SuspendStep
     DEF DriverAction, GoOnline, GoOffline, Unsuspend, ArchiveDriver, RestoreDriver
<1>2. ASSUME NEW b \in Bookings, BookingAction(b) PROVE RowsStep
  <2>1. CASE Approve(b) \/ ManualApprove(b)
    BY <2>1, SettleStep DEF Approve, ManualApprove
  <2>2. CASE Reject(b)
    BY <2>2, SlipStep DEF Reject, Slip
  <2>3. CASE ArchiveBooking(b) \/ RestoreBooking(b)
    BY <2>3, ArchivedStep DEF ArchiveBooking, RestoreBooking
  <2>4. CASE \E to \in Status : ChangeStatusByAdmin(b, to)
    BY <2>4, ChangeStatusByAdminStep
  <2>5. CASE \E p \in Slots, x \in BOOLEAN : EditManual(b, p, x)
    BY <2>5, EditManualStep
  <2>6. QED
    BY <1>2, <2>1, <2>2, <2>3, <2>4, <2>5, UnassignStep, CompleteActiveTripStep,
       CancelStep, NoShowStep DEF BookingAction
<1>3. ASSUME NEW d \in Drivers, NEW b \in Bookings, JobAction(d, b) PROVE RowsStep
  <2>1. CASE \/ StartOnRoute(d, b) \/ MarkArrived(d, b)
             \/ MarkPickedUp(d, b) \/ EndTrip(d, b)
    BY <2>1, TripStepStep
       DEF StartOnRoute, MarkArrived, MarkPickedUp, EndTrip, DriverMoves
  <2>2. CASE UploadReceipt(d, b)
    BY <2>2, SlipStep DEF UploadReceipt, Slip
  <2>3. CASE \E to \in Status : ChangeStatusByDriver(d, b, to)
    BY <2>3, ChangeStatusByDriverStep
  <2>4. QED
    BY <1>3, <2>1, <2>2, <2>3, ClaimStep, AcceptStep, ReleaseStep, AssignStep,
       ReassignStep DEF JobAction
<1>4. CASE UNCHANGED vars
  BY <1>4, NoBookingStep DEF vars
<1>5. QED
  BY <1>1, <1>2, <1>3, <1>4, PassTimeStep DEF Next

(* The rows of the drivers and the clock keep their types.                 *)
LEMMA NextOtherTypes ==
  IInv /\ [Next]_vars => driver' \in [Drivers -> DriverRow] /\ now' \in 0..MaxHour
<1>. SUFFICES ASSUME IInv, [Next]_vars
              PROVE  driver' \in [Drivers -> DriverRow] /\ now' \in 0..MaxHour
  OBVIOUS
<1>. USE DEF IInv, TypeOK
<1>1. ASSUME NEW d \in Drivers, DriverAction(d)
      PROVE  driver' \in [Drivers -> DriverRow] /\ now' = now
  <2>1. ASSUME NEW s \in {"AVAILABLE", "OFFLINE", "SUSPENDED"}, WriteDriver(d, s)
        PROVE  driver' \in [Drivers -> DriverRow]
    BY <2>1 DEF WriteDriver, DriverRow
  <2>2. CASE ArchiveDriver(d)
    <3>1. /\ driver' = [driver EXCEPT ![d] = [status |-> "OFFLINE", archived |-> TRUE]]
          /\ now' = now
      BY <2>2 DEF ArchiveDriver
    <3>2. [status |-> "OFFLINE", archived |-> TRUE] \in DriverRow
      BY DEF DriverRow
    <3>3. QED
      BY <3>1, <3>2
  <2>3. CASE RestoreDriver(d)
    <3>1. driver' = [driver EXCEPT ![d] = [driver[d] EXCEPT !.archived = FALSE]]
          /\ now' = now
      BY <2>3 DEF RestoreDriver
    <3>2. [driver[d] EXCEPT !.archived = FALSE] \in DriverRow
      BY DEF DriverRow
    <3>3. QED
      BY <3>1, <3>2
  <2>4. QED
    BY <1>1, <2>1, <2>2, <2>3 DEF DriverAction, GoOnline, GoOffline, Suspend, Unsuspend
<1>2. ASSUME NEW b \in Bookings, BookingAction(b) PROVE UNCHANGED <<driver, now>>
  BY <1>2 DEF BookingAction, Unassign, CompleteActiveTrip, CancelByCustomer,
              CancelManual, NoShow, Approve, ManualApprove, Reject, ArchiveBooking,
              RestoreBooking, ChangeStatusByAdmin, EditManual
<1>3. ASSUME NEW d \in Drivers, NEW b \in Bookings, JobAction(d, b)
      PROVE  UNCHANGED <<driver, now>>
  BY <1>3 DEF JobAction, Claim, Accept, Release, Assign, Reassign, StartOnRoute,
              MarkArrived, MarkPickedUp, EndTrip, TripStep, UploadReceipt,
              ChangeStatusByDriver
<1>4. CASE PassTime
  BY <1>4 DEF PassTime
<1>5. CASE UNCHANGED vars
  BY <1>5 DEF vars
<1>6. QED
  BY <1>1, <1>2, <1>3, <1>4, <1>5 DEF Next

(* The inductive invariant holds throughout.                               *)
THEOREM Invariance == Spec => []IInv
<1>1. Init => IInv
  BY InitIInv
<1>2. IInv /\ [Next]_vars => IInv'
  <2>1. IInv /\ [Next]_vars => RowsStep
    BY NextRowsStep
  <2>2. RowsStep => \A b \in Bookings : RowOK(booking'[b])
    BY DEF RowsStep, Moves, RowStep
  <2>3. QED
    BY <2>1, <2>2, NextOtherTypes DEF IInv, TypeOK, RowsStep
<1>3. QED
  BY <1>1, <1>2, PTL DEF Spec

-----------------------------------------------------------------------------
(* What the runs check on small instances, for every instance.             *)

(* Rows, drivers and clock are well-typed in every reachable state.        *)
THEOREM TypeCorrect == Spec => []TypeOK
<1>1. IInv => TypeOK
  BY DEF IInv
<1>2. QED
  BY <1>1, Invariance, PTL

(* The triggers keep bookings.driver_id equal to the driver of the active  *)
(* assignment row, through every handler.                                  *)
THEOREM ColumnMatchesAssignment == Spec => []DriverColumnMatches
<1>1. IInv => DriverColumnMatches
  BY DEF IInv, RowOK, DriverColumnMatches
<1>2. QED
  BY <1>1, Invariance, PTL

(* Completing or cancelling a booking, by any handler, frees its driver.   *)
THEOREM EndReleases == Spec => []EndedReleasesDriver
<1>1. IInv => EndedReleasesDriver
  BY DEF IInv, RowOK, EndedReleasesDriver, HasAssignment
<1>2. QED
  BY <1>1, Invariance, PTL

(* The commission is charged exactly at the end of the trip.               *)
THEOREM CommissionFollowsStatus == Spec => []CommissionMatchesStatus
<1>1. IInv => CommissionMatchesStatus
  BY DEF IInv, RowOK, ChargedStatus, CommissionMatchesStatus
<1>2. QED
  BY <1>1, Invariance, PTL

(* No handler changes the status or the driver of a closed booking.        *)
THEOREM ClosedStays == Spec => ClosedForever
<1>. DEFINE Stays == \A b \in Bookings :
                       booking[b].status \in ClosedStatus
                         => /\ booking'[b].status = booking[b].status
                            /\ booking'[b].driver = booking[b].driver
<1>1. IInv /\ [Next]_vars => [Stays]_vars
  BY NextRowsStep DEF RowsStep, Moves, RowStep
<1>. HIDE DEF Stays
<1>2. Spec => [][Stays]_vars
  BY <1>1, Invariance, PTL DEF Spec
<1>3. QED
  BY <1>2 DEF ClosedForever, Stays

(* Once charged, a commission can only be paid, and PAID and WAIVED are    *)
(* final, by any handler.                                                  *)
THEOREM CommissionNeverBack == Spec => CommissionMovesForward
<1>. DEFINE Forward == \A b \in Bookings :
                         LET was == booking[b].commission
                             is == booking'[b].commission
                         IN  was # is
                               => \/ was = "NOT_DUE_YET" /\ is \in {"DUE", "WAIVED"}
                                  \/ was = "DUE" /\ is = "PAID"
<1>1. IInv /\ [Next]_vars => [Forward]_vars
  BY NextRowsStep DEF RowsStep, Moves, RowStep, CommissionForward
<1>. HIDE DEF Forward
<1>2. Spec => [][Forward]_vars
  BY <1>1, Invariance, PTL DEF Spec
<1>3. QED
  BY <1>2 DEF CommissionMovesForward, Forward

-----------------------------------------------------------------------------
(* When administrators keep to the dedicated handlers.                     *)

HandledInv == \A b \in Bookings : RowHandled(booking[b])

(* Without raw changes every row is also as the dedicated handlers leave it. *)
LEMMA HandledInvariance ==
  ASSUME ~RawAdminStatus
  PROVE  Spec => []HandledInv
<1>1. Init => HandledInv
  <2>1. ASSUME Init, NEW b \in Bookings PROVE RowHandled(booking[b])
    <3>1. PICK p \in Slots, x \in BOOLEAN : booking[b] = NewBooking(p, x)
      BY <2>1 DEF Init
    <3>2. QED
      BY <3>1 DEF NewBooking, RowHandled, HasAssignment, JobStatus, TripStatus,
                  UnderwayStatus
  <2>2. QED
    BY <2>1 DEF HandledInv
<1>2. IInv /\ HandledInv /\ [Next]_vars => HandledInv'
  <2>1. IInv /\ [Next]_vars => RowsStep
    BY NextRowsStep
  <2>2. RowsStep /\ HandledInv => HandledInv'
    BY DEF RowsStep, Moves, HandledStep, HandledInv
  <2>3. QED
    BY <2>1, <2>2
<1>3. QED
  BY <1>1, <1>2, Invariance, PTL DEF Spec

(* A booking is on a trip or awaiting settlement exactly while a driver is *)
(* assigned; in particular a no-show frees its driver.                     *)
THEOREM TripsHaveDrivers ==
  ASSUME ~RawAdminStatus
  PROVE  Spec => []TripHasDriver
<1>1. HandledInv => TripHasDriver
  BY DEF HandledInv, RowHandled, TripHasDriver
<1>2. QED
  BY <1>1, HandledInvariance, PTL

(* Every completed trip has its commission paid or waived.                 *)
THEOREM CompletionsAreSettled ==
  ASSUME ~RawAdminStatus
  PROVE  Spec => []CompletedIsSettled
<1>1. HandledInv => CompletedIsSettled
  BY DEF HandledInv, RowHandled, CompletedIsSettled
<1>2. QED
  BY <1>1, HandledInvariance, PTL

(* The driver is not exchanged from pickup to settlement.                  *)
THEOREM RidersKeepDrivers ==
  ASSUME ~RawAdminStatus
  PROVE  Spec => RiderKeepsDriver
<1>. DEFINE Keeps == \A b \in Bookings :
                       /\ booking[b].status \in {"PICKED_UP", "SETTLEMENT_PENDING"}
                       /\ booking'[b].status \in JobStatus
                       => booking'[b].driver = booking[b].driver
<1>1. ASSUME NEW r, NEW s, Promised(r, s), s.status \in JobStatus,
             r.status \in {"PICKED_UP", "SETTLEMENT_PENDING"}
      PROVE  s.driver = r.driver
  BY <1>1 DEF Promised, HeldStatus, RideStatus, WaitingStatus, JobStatus, TripStatus,
              UnderwayStatus
<1>2. IInv /\ HandledInv /\ [Next]_vars => [Keeps]_vars
  <2>1. IInv /\ [Next]_vars => RowsStep
    BY NextRowsStep
  <2>2. RowsStep /\ HandledInv
          => \A b \in Bookings : Promised(booking[b], booking'[b])
    BY DEF RowsStep, Moves, HandledStep, HandledInv
  <2>3. QED
    BY <1>1, <2>1, <2>2
<1>. HIDE DEF Keeps
<1>3. Spec => [][Keeps]_vars
  BY <1>2, Invariance, HandledInvariance, PTL DEF Spec
<1>4. QED
  BY <1>3 DEF RiderKeepsDriver, Keeps

-----------------------------------------------------------------------------
(* Between bookings, and between a booking and its driver: without         *)
(* archiving.                                                              *)

(* What a handler that gives no booking to anybody does to one of them.    *)
Kept(r, s) ==
  /\ s.pickup = r.pickup /\ s.archived = r.archived
  /\ s.driver \in {r.driver, NoDriver}

(* A handler that gives booking b to driver d: what it asks, and that it   *)
(* changes nothing else.                                                   *)
Granted(d, b) ==
  /\ driver[d].status # "SUSPENDED"
  /\ ~HasBlockingSettlement(d)
  /\ PickupTimeFree(d, b)
  /\ booking'[b].driver = d
  /\ booking'[b].pickup = booking[b].pickup
  /\ booking'[b].archived = booking[b].archived
  /\ \A c \in Bookings \ {b} : booking'[c] = booking[c]
  /\ UNCHANGED driver

Gives == \E d \in Drivers, b \in Bookings : Granted(d, b)
Keeps == \A b \in Bookings : Kept(booking[b], booking'[b])

(* Only an edited manual booking gets another pickup; its driver stays.    *)
Edits == \E b \in ManualBookings, p \in Slots, x \in BOOLEAN : EditManual(b, p, x)
Stays == \A b \in Bookings : /\ booking'[b].archived = booking[b].archived
                              /\ booking'[b].driver \in {booking[b].driver, NoDriver}

AllVisible == \A b \in Bookings : Visible(b)

(* A transition may free the driver and does nothing else to the three.    *)
LEMMA TransitionKept ==
  ASSUME NEW r \in Booking, NEW to
  PROVE  Kept(r, ApplyTransition(r, to))
<1>. DEFINE t == IF to = "SETTLEMENT_PENDING" /\ r.exempt THEN "COMPLETED" ELSE to
            c == IF to # "SETTLEMENT_PENDING" THEN r.commission
                 ELSE IF r.exempt THEN "WAIVED" ELSE "DUE"
            m == [r EXCEPT !.status = t, !.commission = c]
<1>1. ApplyTransition(r, to) = CASE t = "COMPLETED" -> EndAssignment(m)
                                 [] t = "CANCELLED" -> ClearAssignmentOnCancel(m)
                                 [] OTHER           -> m
  BY DEF ApplyTransition
<1>. HIDE DEF t, c
<1>2. /\ Kept(r, m) /\ Kept(r, EndAssignment(m)) /\ Kept(r, ClearAssignmentOnCancel(m))
  BY DEF Kept, EndAssignment, ClearAssignmentOnCancel, Booking
<1>. HIDE DEF m
<1>3. QED
  BY <1>1, <1>2

(* Nor does reopening a booking, or clearing its assignment once more.     *)
LEMMA ReopenKept ==
  ASSUME NEW r \in Booking, NEW cools \in BOOLEAN
  PROVE  Kept(r, Reopen(r, cools))
  BY DEF Kept, Reopen, EndAssignment, Booking

(* Writing one row keeps every row when it keeps that one.                 *)
LEMMA WriteKeeps ==
  ASSUME IInv, NEW b \in Bookings, NEW r, Kept(booking[b], r), Write(b, r)
  PROVE  Keeps
  BY DEF IInv, TypeOK, Write, Keeps, Kept

(* Steps that leave the bookings alone keep every row.                     *)
LEMMA UnchangedKeeps == ASSUME UNCHANGED booking PROVE Keeps
  BY DEF Keeps, Kept

(* A new assignment row names its driver and leaves the rest.              *)
LEMMA InsertGives ==
  ASSUME NEW r \in Booking, NEW d \in Drivers, NEW t
  PROVE  LET i == InsertAssignment(r, d)
             s == [i EXCEPT !.status = t]
         IN  /\ i.driver = d /\ i.pickup = r.pickup /\ i.archived = r.archived
             /\ s.driver = d /\ s.pickup = r.pickup /\ s.archived = r.archived
<1>. DEFINE i == InsertAssignment(r, d)
<1>1. /\ i \in Booking
      /\ i.driver = d /\ i.pickup = r.pickup /\ i.archived = r.archived
  BY InsertEffect DEF InsertAssignment, Booking
<1>. HIDE DEF i
<1>2. LET s == [i EXCEPT !.status = t]
      IN  s.driver = d /\ s.pickup = r.pickup /\ s.archived = r.archived
  BY <1>1 DEF Booking
<1>3. QED
  BY <1>1, <1>2 DEF i

(* Writing such a row to a booking gives it to the driver, if the handler  *)
(* asked what a grant asks.                                                *)
LEMMA WriteGives ==
  ASSUME IInv, NEW d \in Drivers, NEW b \in Bookings, NEW s, Write(b, s),
         s.driver = d, s.pickup = booking[b].pickup, s.archived = booking[b].archived,
         driver[d].status # "SUSPENDED", ~HasBlockingSettlement(d),
         PickupTimeFree(d, b), UNCHANGED driver
  PROVE  Gives
<1>1. booking'[b] = s /\ \A c \in Bookings \ {b} : booking'[c] = booking[c]
  BY DEF IInv, TypeOK, Write
<1>2. Granted(d, b)
  BY <1>1 DEF Granted
<1>3. QED
  BY <1>2 DEF Gives

(* A claim, an assignment and a reassignment are the grants; every other   *)
(* handler lets a booking keep its driver or takes him away.               *)
LEMMA GrantStep ==
  ASSUME IInv, NEW d \in Drivers, NEW b \in Bookings,
         Claim(d, b) \/ Assign(d, b) \/ Reassign(d, b)
  PROVE  Gives
<1>. DEFINE r == booking[b]
<1>1. r \in Booking
  BY DEF IInv, TypeOK
<1>2. /\ driver[d].status # "SUSPENDED" /\ ~HasBlockingSettlement(d)
      /\ PickupTimeFree(d, b) /\ UNCHANGED driver
  BY DEF Claim, Assign, Reassign, Assignable
<1>3. CASE Claim(d, b)
  <2>1. Write(b, [InsertAssignment(r, d) EXCEPT !.status = "DRIVER_ASSIGNED"])
    BY <1>3 DEF Claim
  <2>2. QED
    BY <1>1, <1>2, <2>1, InsertGives, WriteGives
<1>4. CASE Assign(d, b)
  <2>. DEFINE i == InsertAssignment(r, d)
              t == IF i.status \in WaitingStatus THEN "DRIVER_ASSIGNED" ELSE i.status
  <2>1. Write(b, [i EXCEPT !.status = t])
    BY <1>4 DEF Assign
  <2>. HIDE DEF t
  <2>2. QED
    BY <1>1, <1>2, <2>1, InsertGives, WriteGives
<1>5. CASE Reassign(d, b)
  <2>. DEFINE e == EndAssignment(r)
  <2>1. Write(b, InsertAssignment(e, d))
    BY <1>5 DEF Reassign
  <2>2. e \in Booking /\ e.pickup = r.pickup /\ e.archived = r.archived
    BY <1>1, EndEffect DEF EndAssignment, Booking
  <2>. HIDE DEF e
  <2>3. QED
    BY <1>2, <2>1, <2>2, InsertGives, WriteGives
<1>6. QED
  BY <1>3, <1>4, <1>5

(* A no-show is a transition, and then the assignment is cleared.          *)
LEMMA NoShowKeeps ==
  ASSUME IInv, NEW b \in Bookings, NoShow(b)
  PROVE  Keeps
<1>. DEFINE r == booking[b]
            m == ApplyTransition(r, "NO_SHOW")
<1>1. /\ r \in Booking /\ r.driverColumn = r.driver
      /\ Write(b, ClearAssignmentOnCancel(m)) /\ "NO_SHOW" \in Status
  BY DEF IInv, RowOK, NoShow, Status, ClosedStatus
<1>2. m \in Booking /\ Kept(r, m)
  BY <1>1, PlainMoveEffect, TransitionKept
<1>. HIDE DEF m
<1>3. Kept(m, ClearAssignmentOnCancel(m))
  BY <1>2 DEF Kept, ClearAssignmentOnCancel, EndAssignment, Booking
<1>4. Kept(r, ClearAssignmentOnCancel(m))
  BY <1>2, <1>3 DEF Kept
<1>5. QED
  BY <1>1, <1>4, WriteKeeps

(* An approval completes the booking and records the payment.              *)
LEMMA SettleKeeps ==
  ASSUME IInv, NEW b \in Bookings, Write(b, Settle(booking[b]))
  PROVE  Keeps
<1>. DEFINE r == booking[b]
            m == ApplyTransition(r, "COMPLETED")
            s == [m EXCEPT !.commission = "PAID"]
<1>1. /\ r \in Booking /\ r.driverColumn = r.driver /\ "COMPLETED" \in Status
      /\ Write(b, s)
  BY DEF IInv, RowOK, Settle, Status, ClosedStatus
<1>2. m \in Booking /\ Kept(r, m)
  BY <1>1, PlainMoveEffect, TransitionKept
<1>. HIDE DEF r, m
<1>3. Kept(r, s)
  BY <1>2 DEF Kept, Booking
<1>4. QED
  BY <1>1, <1>3, WriteKeeps DEF r

(* A suspension takes the driver's bookings away.                          *)
LEMMA SuspendKeeps ==
  ASSUME IInv, NEW d \in Drivers, Suspend(d)
  PROVE  Keeps
<1>. SUFFICES ASSUME NEW b \in Bookings PROVE Kept(booking[b], booking'[b])
  BY DEF Keeps
<1>1. booking[b] \in Booking
  BY DEF IInv, TypeOK
<1>2. booking'[b] = Reopen(booking[b], TRUE) \/ booking'[b] = booking[b]
  BY DEF Suspend
<1>3. QED
  BY <1>1, <1>2, ReopenKept DEF Kept

(* Changes of other columns keep every row.                                *)
LEMMA OtherColumnsKeep ==
  ASSUME IInv, NEW b \in Bookings,
         \/ Write(b, AcceptAssignment(booking[b]))
         \/ \E f \in Slip : Write(b, [booking[b] EXCEPT !.slip = f])
  PROVE  Keeps
<1>. DEFINE r == booking[b]
<1>1. r \in Booking
  BY DEF IInv, TypeOK
<1>2. CASE Write(b, AcceptAssignment(r))
  <2>. DEFINE s == AcceptAssignment(r)
  <2>1. Kept(r, s)
    BY <1>1 DEF Kept, AcceptAssignment, Booking
  <2>. HIDE DEF s
  <2>2. QED
    BY <1>2, <2>1, WriteKeeps DEF s
<1>3. ASSUME NEW f \in Slip, Write(b, [r EXCEPT !.slip = f]) PROVE Keeps
  <2>. DEFINE s == [r EXCEPT !.slip = f]
  <2>1. Kept(r, s)
    BY <1>1 DEF Kept, Booking
  <2>. HIDE DEF s
  <2>2. QED
    BY <1>3, <2>1, WriteKeeps DEF s
<1>4. QED
  BY <1>2, <1>3

(* So does the end of the cooldowns.                                       *)
LEMMA PassTimeKeeps == ASSUME IInv, PassTime PROVE Keeps
<1>. SUFFICES ASSUME NEW b \in Bookings PROVE Kept(booking[b], booking'[b])
  BY DEF Keeps
<1>1. booking[b] \in Booking /\ booking'[b] = [booking[b] EXCEPT !.cooling = {}]
  BY DEF IInv, TypeOK, PassTime
<1>2. QED
  BY <1>1 DEF Kept, Booking

(* Every step: a grant, an edit, or everybody keeps or loses what he had.  *)
LEMMA GivesOrKeeps ==
  ASSUME ~Archiving
  PROVE  IInv /\ [Next]_vars => Gives \/ Keeps \/ Edits
<1>. SUFFICES ASSUME IInv, [Next]_vars PROVE Gives \/ Keeps \/ Edits
  OBVIOUS
<1>1. ASSUME NEW d \in Drivers, DriverAction(d) PROVE Keeps
  BY <1>1, SuspendKeeps, UnchangedKeeps
     DEF DriverAction, GoOnline, GoOffline, Unsuspend, ArchiveDriver, RestoreDriver
<1>2. ASSUME NEW b \in Bookings, NEW to, Write(b, ApplyTransition(booking[b], to))
      PROVE  Keeps
  <2>1. booking[b] \in Booking
    BY DEF IInv, TypeOK
  <2>2. QED
    BY <1>2, <2>1, TransitionKept, WriteKeeps
<1>3. ASSUME NEW b \in Bookings, NEW cools \in BOOLEAN, Write(b, Reopen(booking[b], cools))
      PROVE  Keeps
  <2>1. booking[b] \in Booking
    BY DEF IInv, TypeOK
  <2>2. QED
    BY <1>3, <2>1, ReopenKept, WriteKeeps
<1>4. ASSUME NEW b \in Bookings, BookingAction(b) PROVE Keeps \/ Edits
  <2>1. CASE Unassign(b)
    BY <1>3, <2>1 DEF Unassign
  <2>2. CASE \/ CompleteActiveTrip(b) \/ CancelByCustomer(b) \/ CancelManual(b)
             \/ \E to \in Status : ChangeStatusByAdmin(b, to)
    BY <1>2, <2>2 DEF CompleteActiveTrip, CancelByCustomer, CancelManual,
                      ChangeStatusByAdmin
  <2>3. CASE Approve(b) \/ ManualApprove(b)
    BY <2>3, SettleKeeps DEF Approve, ManualApprove
  <2>4. CASE Reject(b)
    BY <2>4, OtherColumnsKeep DEF Reject, Slip
  <2>5. CASE \E p \in Slots, x \in BOOLEAN : EditManual(b, p, x)
    BY <2>5 DEF EditManual, Edits
  <2>6. QED
    BY <1>4, <2>1, <2>2, <2>3, <2>4, <2>5, NoShowKeeps
       DEF BookingAction, ArchiveBooking, RestoreBooking
<1>5. ASSUME NEW d \in Drivers, NEW b \in Bookings, JobAction(d, b) PROVE Gives \/ Keeps
  <2>1. CASE Claim(d, b) \/ Assign(d, b) \/ Reassign(d, b)
    BY <2>1, GrantStep
  <2>2. CASE Release(d, b)
    BY <1>3, <2>2 DEF Release
  <2>3. CASE \/ StartOnRoute(d, b) \/ MarkArrived(d, b)
             \/ MarkPickedUp(d, b) \/ EndTrip(d, b)
             \/ \E to \in Status : ChangeStatusByDriver(d, b, to)
    BY <1>2, <2>3 DEF StartOnRoute, MarkArrived, MarkPickedUp, EndTrip, TripStep,
                      ChangeStatusByDriver
  <2>4. CASE Accept(d, b) \/ UploadReceipt(d, b)
    BY <2>4, OtherColumnsKeep DEF Accept, UploadReceipt, Slip
  <2>5. QED
    BY <1>5, <2>1, <2>2, <2>3, <2>4 DEF JobAction
<1>6. CASE UNCHANGED vars
  BY <1>6, UnchangedKeeps DEF vars
<1>7. QED
  BY <1>1, <1>4, <1>5, <1>6, PassTimeKeeps DEF Next

(* Whatever happens to its pickup, a booking is given or its driver stays  *)
(* or goes.                                                                *)
LEMMA GivesOrStays ==
  ASSUME ~Archiving
  PROVE  IInv /\ [Next]_vars => Gives \/ Stays
<1>1. Keeps => Stays
  BY DEF Keeps, Kept, Stays
<1>2. ASSUME IInv, NEW b \in ManualBookings, NEW p \in Slots, NEW x \in BOOLEAN,
             EditManual(b, p, x)
      PROVE  Stays
  <2>1. b \in Bookings /\ booking[b] \in Booking
    BY <1>2, BookingsAssumption DEF IInv, TypeOK
  <2>. DEFINE s == [booking[b] EXCEPT !.pickup = p, !.exempt = x,
                                     !.commission = "NOT_DUE_YET"]
  <2>2. s.driver = booking[b].driver /\ s.archived = booking[b].archived
    BY <2>1 DEF Booking
  <2>3. booking' = [booking EXCEPT ![b] = s]
    BY <1>2 DEF EditManual, Write
  <2>. HIDE DEF s
  <2>4. QED
    BY <1>2, <2>1, <2>2, <2>3 DEF IInv, TypeOK, Stays
<1>3. QED
  BY <1>1, <1>2, GivesOrKeeps DEF Edits

(* Nothing is archived while administrators do not archive.                *)
LEMMA VisibleInvariance ==
  ASSUME ~Archiving
  PROVE  Spec => []AllVisible
<1>1. Init => AllVisible
  <2>1. ASSUME Init, NEW b \in Bookings PROVE Visible(b)
    <3>1. PICK p \in Slots, x \in BOOLEAN : booking[b] = NewBooking(p, x)
      BY <2>1 DEF Init
    <3>2. QED
      BY <3>1 DEF NewBooking, Visible
  <2>2. QED
    BY <2>1 DEF AllVisible
<1>2. AllVisible /\ (Gives \/ Stays) => AllVisible'
  BY DEF AllVisible, Visible, Gives, Granted, Stays
<1>3. IInv /\ AllVisible /\ [Next]_vars => AllVisible'
  BY <1>2, GivesOrStays
<1>4. QED
  BY <1>1, <1>3, Invariance, PTL DEF Spec

(* Pickups that are close are close either way.                            *)
LEMMA CloseIsMutual ==
  ASSUME NEW p \in Slots, NEW q \in Slots
  PROVE  TooClose(p, q) <=> TooClose(q, p)
  BY SlotsAssumption DEF TooClose, ConflictGap

(* A grant compares the booking with every other job of its driver; the    *)
(* other steps only take drivers away.                                     *)
LEMMA NoDoubleBookingStep ==
  ASSUME IInv, HandledInv, AllVisible, NoDoubleBooking, Gives \/ Keeps
  PROVE  NoDoubleBooking'
<1>. USE DEF HasAssignment
<1>1. ASSUME Keeps PROVE NoDoubleBooking'
  BY <1>1 DEF Keeps, Kept, NoDoubleBooking
<1>2. ASSUME NEW d \in Drivers, NEW b \in Bookings, Granted(d, b) PROVE NoDoubleBooking'
  <2>1. ASSUME NEW c \in Bookings \ {b}, booking[c].driver = d
        PROVE  /\ ~TooClose(booking[c].pickup, booking[b].pickup)
               /\ ~TooClose(booking[b].pickup, booking[c].pickup)
    <3>1. IsJobOf(booking[c], d)
      BY <2>1, NoDriverAssumption
         DEF HandledInv, RowHandled, AllVisible, Visible, IsJobOf, WorksOn
    <3>2. ~TooClose(booking[c].pickup, booking[b].pickup)
      BY <1>2, <3>1 DEF Granted, PickupTimeFree
    <3>3. booking[b].pickup \in Slots /\ booking[c].pickup \in Slots
      BY DEF IInv, TypeOK, Booking
    <3>4. QED
      BY <3>2, <3>3, CloseIsMutual
  <2>2. QED
    BY <1>2, <2>1 DEF Granted, NoDoubleBooking
<1>3. QED
  BY <1>1, <1>2 DEF Gives

(* No driver is assigned two bookings whose pickups are within the hour:   *)
(* assertNoPickupTimeConflict, asked by every handler that gives work,     *)
(* suffices, as pickups of customers' bookings never change.               *)
THEOREM NobodyIsDoubleBooked ==
  ASSUME ~RawAdminStatus, ~Archiving, ManualBookings = {}
  PROVE  Spec => []NoDoubleBooking
<1>1. Init => NoDoubleBooking
  <2>1. ASSUME Init, NEW b \in Bookings PROVE ~HasAssignment(booking[b])
    <3>1. PICK p \in Slots, x \in BOOLEAN : booking[b] = NewBooking(p, x)
      BY <2>1 DEF Init
    <3>2. QED
      BY <3>1 DEF NewBooking, HasAssignment
  <2>2. QED
    BY <2>1 DEF NoDoubleBooking
<1>2. IInv /\ HandledInv /\ AllVisible /\ NoDoubleBooking /\ [Next]_vars
        => NoDoubleBooking'
  BY GivesOrKeeps, NoDoubleBookingStep DEF Edits
<1>3. QED
  BY <1>1, <1>2, Invariance, HandledInvariance, VisibleInvariance, PTL DEF Spec

(* Who awaits a settlement holds a booking whose commission is due, which  *)
(* a grant refuses.                                                        *)
LEMMA GrantIsSettled ==
  ASSUME IInv, AllVisible, NEW d \in Drivers, NEW b \in Bookings, Granted(d, b),
         NEW c \in Bookings, booking[c].driver = d
  PROVE  booking[c].status # "SETTLEMENT_PENDING"
<1>1. SUFFICES ASSUME booking[c].status = "SETTLEMENT_PENDING"
               PROVE  OwesSettlement(booking[c], d)
  BY DEF Granted, HasBlockingSettlement
<1>2. booking[c].driverColumn = d /\ booking[c].commission = "DUE"
  BY <1>1 DEF IInv, RowOK
<1>3. QED
  BY <1>1, <1>2 DEF OwesSettlement, AllVisible, Visible

(* A driver who has ended a trip is given nothing before it is settled.    *)
THEOREM DebtorsGetNoWork ==
  ASSUME ~Archiving
  PROVE  Spec => UnsettledGetsNoWork
<1>. DEFINE Settled == \A b \in Bookings, d \in Drivers :
              /\ booking[b].driver # d
              /\ booking'[b].driver = d
              => ~ \E c \in Bookings : /\ booking[c].driver = d
                                        /\ booking[c].status = "SETTLEMENT_PENDING"
<1>1. ASSUME IInv, AllVisible, Gives \/ Stays PROVE Settled
  <2>. SUFFICES ASSUME NEW b \in Bookings, NEW d \in Drivers, booking[b].driver # d,
                       booking'[b].driver = d, NEW c \in Bookings, booking[c].driver = d
                PROVE  booking[c].status # "SETTLEMENT_PENDING"
    OBVIOUS
  <2>1. ~Stays
    BY NoDriverAssumption DEF Stays
  <2>2. PICK e \in Drivers, a \in Bookings : Granted(e, a)
    BY <1>1, <2>1 DEF Gives
  <2>3. a = b /\ e = d
    BY <2>2 DEF Granted
  <2>4. QED
    BY <1>1, <2>2, <2>3, GrantIsSettled
<1>2. IInv /\ AllVisible /\ [Next]_vars => [Settled]_vars
  BY <1>1, GivesOrStays
<1>. HIDE DEF Settled
<1>3. Spec => [][Settled]_vars
  BY <1>2, Invariance, VisibleInvariance, PTL DEF Spec
<1>4. QED
  BY <1>3 DEF UnsettledGetsNoWork, Settled

(* Only a suspension suspends, and it leaves none of his trips to him.     *)
LEMMA SuspensionEndsTrips ==
  ASSUME IInv, AllVisible, [Next]_vars, NEW d \in Drivers,
         driver'[d].status = "SUSPENDED", driver[d].status # "SUSPENDED",
         NEW b \in Bookings, booking'[b].driver = d
  PROVE  booking'[b].status \notin TripStatus
<1>. USE DEF IInv, TypeOK
<1>1. Suspend(d)
  <2>1. ASSUME NEW e \in Drivers, DriverAction(e) PROVE Suspend(d)
    <3>1. CASE e = d
      BY <2>1, <3>1 DEF DriverAction, GoOnline, GoOffline, Unsuspend, ArchiveDriver,
                        RestoreDriver, WriteDriver, DriverRow
    <3>2. CASE e # d
      BY <2>1, <3>2 DEF DriverAction, GoOnline, GoOffline, Suspend, Unsuspend,
                        ArchiveDriver, RestoreDriver, WriteDriver
    <3>3. QED
      BY <3>1, <3>2
  <2>2. ASSUME NEW c \in Bookings, BookingAction(c) PROVE UNCHANGED driver
    BY <2>2 DEF BookingAction, Unassign, CompleteActiveTrip, CancelByCustomer,
                CancelManual, NoShow, Approve, ManualApprove, Reject, ArchiveBooking,
                RestoreBooking, ChangeStatusByAdmin, EditManual
  <2>3. ASSUME NEW e \in Drivers, NEW c \in Bookings, JobAction(e, c)
        PROVE  UNCHANGED driver
    BY <2>3 DEF JobAction, Claim, Accept, Release, Assign, Reassign, StartOnRoute,
                MarkArrived, MarkPickedUp, EndTrip, TripStep, UploadReceipt,
                ChangeStatusByDriver
  <2>4. QED
    BY <2>1, <2>2, <2>3 DEF Next, PassTime, vars
<1>2. CASE WorksOn(booking[b], d) /\ booking[b].status \in TripStatus
  <2>1. booking'[b] = Reopen(booking[b], TRUE)
    BY <1>1, <1>2 DEF Suspend
  <2>2. booking[b] \in Booking /\ HasAssignment(booking[b])
    BY <1>2, NoDriverAssumption DEF WorksOn, HasAssignment
  <2>3. QED
    BY <2>1, <2>2, ReopenEffect, NoDriverAssumption
<1>3. CASE ~(WorksOn(booking[b], d) /\ booking[b].status \in TripStatus)
  <2>1. booking'[b] = booking[b]
    BY <1>1, <1>3 DEF Suspend
  <2>2. QED
    BY <1>3, <2>1 DEF WorksOn, AllVisible, Visible
<1>4. QED
  BY <1>2, <1>3

(* A booking that keeps its driver is on a trip only if it was before.     *)
LEMMA TripsContinue ==
  ASSUME NEW r, NEW s, RowHandled(r), Promised(r, s), HasAssignment(r),
         s.driver = r.driver, s.status \in TripStatus
  PROVE  r.status \in TripStatus
  BY DEF RowHandled, Promised, HasAssignment, JobStatus, TripStatus, UnderwayStatus,
         WaitingStatus, HeldStatus, RideStatus

(* A suspended driver has no trip left to start or to finish: he is given  *)
(* none, and a suspension reopens those he has or is refused.              *)
THEOREM SuspendedDriversStand ==
  ASSUME ~RawAdminStatus, ~Archiving
  PROVE  Spec => []SuspendedHasNoTrip
<1>1. Init => SuspendedHasNoTrip
  BY DEF Init, SuspendedHasNoTrip
<1>2. IInv /\ HandledInv /\ AllVisible /\ SuspendedHasNoTrip /\ [Next]_vars
        => SuspendedHasNoTrip'
  <2>. SUFFICES ASSUME IInv, HandledInv, AllVisible, SuspendedHasNoTrip, [Next]_vars,
                       NEW d \in Drivers, NEW b \in Bookings,
                       driver'[d].status = "SUSPENDED", booking'[b].driver = d
                PROVE  booking'[b].status \notin TripStatus
    BY DEF SuspendedHasNoTrip
  <2>1. CASE driver[d].status # "SUSPENDED"
    BY <2>1, SuspensionEndsTrips
  <2>2. CASE driver[d].status = "SUSPENDED"
    <3>1. booking[b].driver = d
      BY <2>2, GivesOrStays, NoDriverAssumption DEF Gives, Granted, Stays
    <3>2. RowHandled(booking[b]) /\ Promised(booking[b], booking'[b])
      BY NextRowsStep DEF RowsStep, Moves, HandledStep, HandledInv
    <3>3. HasAssignment(booking[b]) /\ booking[b].status \notin TripStatus
      BY <2>2, <3>1, NoDriverAssumption DEF SuspendedHasNoTrip, HasAssignment
    <3>4. QED
      BY <3>1, <3>2, <3>3, TripsContinue
  <2>3. QED
    BY <2>1, <2>2
<1>3. QED
  BY <1>1, <1>2, Invariance, HandledInvariance, VisibleInvariance, PTL DEF Spec

-----------------------------------------------------------------------------
(* The handlers implement TripContract.                                    *)

(* The phase of a row that is in order, by its status.                     *)
LEMMA PhaseByStatus ==
  ASSUME NEW r \in Booking, RowHandled(r)
  PROVE  /\ r.status \in WaitingStatus => PhaseOf(r) = "waiting"
         /\ r.status \in HeldStatus => PhaseOf(r) = "held"
         /\ r.status = "PICKED_UP" => PhaseOf(r) = "riding"
         /\ r.status = "SETTLEMENT_PENDING" => PhaseOf(r) = "owing"
         /\ r.status = "COMPLETED" => PhaseOf(r) = "settled"
         /\ r.status \in {"CANCELLED", "NO_SHOW"} => PhaseOf(r) = "void"
<1>1. CASE r.status \in WaitingStatus
  BY <1>1 DEF PhaseOf, WaitingStatus, HeldStatus
<1>2. CASE r.status \in HeldStatus
  BY <1>2 DEF PhaseOf, WaitingStatus, HeldStatus
<1>3. CASE r.status = "PICKED_UP"
  BY <1>3 DEF PhaseOf, WaitingStatus, HeldStatus
<1>4. CASE r.status = "SETTLEMENT_PENDING"
  BY <1>4 DEF PhaseOf, WaitingStatus, HeldStatus
<1>5. CASE r.status = "COMPLETED"
  BY <1>5 DEF PhaseOf, WaitingStatus, HeldStatus, RowHandled
<1>6. CASE r.status \in {"CANCELLED", "NO_SHOW"}
  BY <1>6 DEF PhaseOf, WaitingStatus, HeldStatus
<1>7. QED
  BY <1>1, <1>2, <1>3, <1>4, <1>5, <1>6
     DEF Booking, Status, JobStatus, TripStatus, UnderwayStatus, ClosedStatus,
         HeldStatus

(* Changing one row moves phase and holder of that booking alone.          *)
LEMMA RowIsMove ==
  ASSUME NEW b \in Bookings,
         \A c \in Bookings \ {b} : booking'[c] = booking[c]
  PROVE  Promise!Move(b, PhaseOf(booking'[b]), booking'[b].driver)
  BY DEF Promise!Move

(* A promised change of one row is a step of the contract.                 *)
LEMMA RowKeepsContract ==
  ASSUME NEW b \in Bookings,
         \A c \in Bookings \ {b} : booking'[c] = booking[c],
         RowOK(booking[b]), RowHandled(booking[b]),
         RowOK(booking'[b]), RowHandled(booking'[b]),
         Promised(booking[b], booking'[b])
  PROVE  [Promise!ContractNext]_Promise!cvars
<1>. DEFINE r == booking[b]
            s == booking'[b]
            S == {b}
<1>0. r \in Booking /\ s \in Booking
  BY DEF RowOK
<1>1. /\ Promise!Move(b, PhaseOf(s), s.driver)
  BY RowIsMove
<1>2. CASE s.status = r.status /\ s.driver = r.driver
  <2>1. PhaseOf(s) = PhaseOf(r)
    BY <1>0, <1>2, PhaseByStatus
       DEF Booking, Status, JobStatus, TripStatus, UnderwayStatus, ClosedStatus,
           HeldStatus
  <2>2. \A c \in Bookings : /\ PhaseOf(booking'[c]) = PhaseOf(booking[c])
                            /\ booking'[c].driver = booking[c].driver
    BY <1>2, <2>1
  <2>3. QED
    BY <2>2 DEF Promise!cvars
<1>3. CASE /\ r.status \in WaitingStatus \union HeldStatus
           /\ s.status \in HeldStatus
           /\ s.driver \in Drivers
  <2>1. PhaseOf(r) \in {"waiting", "held"} /\ PhaseOf(s) = "held"
    BY <1>0, <1>3, PhaseByStatus
  <2>2. Promise!Take(b, s.driver) \/ Promise!HandOver(b, s.driver)
    BY <1>1, <2>1 DEF Promise!Take, Promise!HandOver
  <2>3. QED
    BY <1>3, <2>2 DEF Promise!ContractNext
<1>4. CASE r.status \in HeldStatus /\ s.status = "PICKED_UP" /\ s.driver = r.driver
  <2>1. PhaseOf(r) = "held" /\ PhaseOf(s) = "riding"
    BY <1>0, <1>4, PhaseByStatus
  <2>2. Promise!Ride(b)
    BY <1>1, <1>4, <2>1 DEF Promise!Move, Promise!Ride
  <2>3. QED
    BY <2>2 DEF Promise!ContractNext
<1>5. CASE /\ r.status \in RideStatus
           /\ s.status = "SETTLEMENT_PENDING"
           /\ s.driver = r.driver
  <2>1. PhaseOf(r) \in {"held", "riding"} /\ PhaseOf(s) = "owing"
    BY <1>0, <1>5, PhaseByStatus DEF RideStatus
  <2>2. Promise!EndRide(b)
    BY <1>1, <1>5, <2>1 DEF Promise!Move, Promise!EndRide
  <2>3. QED
    BY <2>2 DEF Promise!ContractNext
<1>6. CASE /\ r.status \in RideStatus \union {"SETTLEMENT_PENDING"}
           /\ s.status = "COMPLETED"
           /\ s.driver = NoDriver
  <2>1. PhaseOf(r) \in {"held", "riding", "owing"} /\ PhaseOf(s) = "settled"
    BY <1>0, <1>6, PhaseByStatus DEF RideStatus
  <2>2. Promise!EndFreeRide(b) \/ Promise!Settle(b)
    BY <1>1, <1>6, <2>1 DEF Promise!Move, Promise!EndFreeRide, Promise!Settle
  <2>3. QED
    BY <2>2 DEF Promise!ContractNext
<1>7. CASE /\ r.status \in WaitingStatus \union RideStatus
           /\ s.status \in {"CANCELLED", "NO_SHOW"}
           /\ s.driver = NoDriver
  <2>1. PhaseOf(r) \in {"waiting", "held", "riding"} /\ PhaseOf(s) = "void"
    BY <1>0, <1>7, PhaseByStatus DEF RideStatus
  <2>2. Promise!Void(b)
    BY <1>1, <1>7, <2>1 DEF Promise!Move, Promise!Void
  <2>3. QED
    BY <2>2 DEF Promise!ContractNext
<1>8. CASE r.status = "DRIVER_ASSIGNED" /\ s.status = "OPEN" /\ s.driver = NoDriver
  <2>1. PhaseOf(r) = "held" /\ PhaseOf(s) = "waiting"
    BY <1>0, <1>8, PhaseByStatus DEF HeldStatus, WaitingStatus
  <2>2. r.driver \in Drivers
    BY <1>0, <1>8 DEF RowHandled, HasAssignment, Booking, JobStatus, TripStatus
  <2>3. Promise!GiveBack(r.driver, {b})
    BY <1>8, <2>1 DEF Promise!GiveBack
  <2>4. QED
    BY <2>2, <2>3 DEF Promise!ContractNext
<1>9. QED
  BY <1>2, <1>3, <1>4, <1>5, <1>6, <1>7, <1>8 DEF Promised

(* A suspension gives back every booking the driver still holds, at once.  *)
LEMMA SuspensionGivesBack ==
  ASSUME IInv, HandledInv, RowsStep, NEW d \in Drivers, Suspend(d)
  PROVE  \E S \in SUBSET Bookings : Promise!GiveBack(d, S)
<1>. DEFINE listed == {b \in Bookings : WorksOn(booking[b], d)
                                        /\ booking[b].status \in TripStatus}
<1>1. /\ \A b \in listed : booking[b].status = "DRIVER_ASSIGNED"
      /\ booking' = [b \in Bookings |-> IF b \in listed THEN Reopen(booking[b], TRUE)
                                        ELSE booking[b]]
  BY DEF Suspend
<1>2. ASSUME NEW b \in listed
      PROVE  /\ PhaseOf(booking[b]) = "held" /\ booking[b].driver = d
             /\ PhaseOf(booking'[b]) = "waiting" /\ booking'[b].driver = NoDriver
  <2>1. booking[b] \in Booking /\ RowHandled(booking[b]) /\ booking[b].driver = d
    BY DEF IInv, RowOK, HandledInv, WorksOn
  <2>2. HasAssignment(booking[b]) /\ booking[b].status = "DRIVER_ASSIGNED"
    BY <1>1, <2>1, NoDriverAssumption DEF HasAssignment
  <2>3. /\ booking'[b] \in Booking /\ booking'[b].status = "OPEN"
        /\ booking'[b].driver = NoDriver
    BY <1>1, <2>1, <2>2, ReopenEffect
  <2>4. RowHandled(booking'[b])
    BY <2>3 DEF RowHandled, HasAssignment, JobStatus, TripStatus, UnderwayStatus
  <2>5. QED
    BY <2>1, <2>2, <2>3, <2>4, PhaseByStatus DEF HeldStatus, WaitingStatus
<1>3. ASSUME NEW b \in Bookings, b \notin listed
      PROVE  booking'[b] = booking[b]
  BY <1>1, <1>3
<1>. HIDE DEF listed
<1>4. listed \subseteq Bookings
  BY DEF listed
<1>5. \A b \in Bookings :
        /\ PhaseOf(booking'[b]) = IF b \in listed THEN "waiting"
                                  ELSE PhaseOf(booking[b])
        /\ booking'[b].driver = IF b \in listed THEN NoDriver ELSE booking[b].driver
  BY <1>2, <1>3
<1>6. PICK S \in SUBSET Bookings : S = listed
  BY <1>4
<1>7. Promise!GiveBack(d, S)
  BY <1>2, <1>5, <1>6 DEF Promise!GiveBack
<1>8. QED
  BY <1>7

(* Besides a suspension and the passing of time, a step writes one row.    *)
LEMMA OneRowPerStep ==
  ASSUME IInv, Next
  PROVE  \/ \E d \in Drivers : Suspend(d)
         \/ PassTime
         \/ UNCHANGED booking
         \/ \E b \in Bookings : \A c \in Bookings \ {b} : booking'[c] = booking[c]
<1>1. ASSUME NEW b \in Bookings, NEW r, Write(b, r)
      PROVE  \A c \in Bookings \ {b} : booking'[c] = booking[c]
  BY <1>1 DEF Write, IInv, TypeOK
<1>2. ASSUME NEW d \in Drivers, DriverAction(d)
      PROVE  Suspend(d) \/ UNCHANGED booking
  BY <1>2 DEF DriverAction, GoOnline, GoOffline, Unsuspend, ArchiveDriver, RestoreDriver
<1>3. ASSUME NEW b \in Bookings, BookingAction(b)
      PROVE  \E r : Write(b, r)
  BY <1>3 DEF BookingAction, Unassign, CompleteActiveTrip, CancelByCustomer,
              CancelManual, NoShow, Approve, ManualApprove, Reject, ArchiveBooking,
              RestoreBooking, ChangeStatusByAdmin, EditManual
<1>4. ASSUME NEW d \in Drivers, NEW b \in Bookings, JobAction(d, b)
      PROVE  \E r : Write(b, r)
  BY <1>4 DEF JobAction, Claim, Accept, Release, Assign, Reassign, StartOnRoute,
              MarkArrived, MarkPickedUp, EndTrip, TripStep, UploadReceipt,
              ChangeStatusByDriver
<1>5. QED
  BY <1>1, <1>2, <1>3, <1>4 DEF Next

(* The handlers keep the contract of TripContract: what the platform       *)
(* promises about a booking, its driver and its settlement.                *)
THEOREM HandlersKeepContract ==
  ASSUME ~RawAdminStatus
  PROVE  Spec => KeepsContract
<1>1. Init => Promise!ContractInit
  <2>1. ASSUME Init, NEW b \in Bookings
        PROVE  PhaseOf(booking[b]) = "waiting" /\ booking[b].driver = NoDriver
    <3>1. booking[b].status = "OPEN" /\ booking[b].driver = NoDriver
      BY <2>1 DEF Init, NewBooking
    <3>2. booking[b] \in Booking
      BY <2>1, InitIInv DEF IInv, RowOK
    <3>3. RowHandled(booking[b])
      BY <3>1 DEF RowHandled, HasAssignment, JobStatus, TripStatus, UnderwayStatus
    <3>4. QED
      BY <3>1, <3>2, <3>3, PhaseByStatus DEF WaitingStatus
  <2>2. QED
    BY <2>1 DEF Promise!ContractInit
<1>2. IInv /\ HandledInv /\ HandledInv' /\ [Next]_vars
        => [Promise!ContractNext]_Promise!cvars
  <2>. SUFFICES ASSUME IInv, HandledInv, HandledInv', [Next]_vars
                PROVE  [Promise!ContractNext]_Promise!cvars
    OBVIOUS
  <2>1. RowsStep
    BY NextRowsStep
  <2>2. CASE \E d \in Drivers : Suspend(d)
    BY <2>1, <2>2, SuspensionGivesBack DEF Promise!ContractNext
  <2>3. CASE PassTime
    <3>1. ASSUME NEW b \in Bookings
          PROVE  /\ PhaseOf(booking'[b]) = PhaseOf(booking[b])
                 /\ booking'[b].driver = booking[b].driver
      <4>1. /\ booking[b] \in Booking
            /\ booking'[b] = [booking[b] EXCEPT !.cooling = {}]
        BY <2>3 DEF PassTime, IInv, RowOK
      <4>2. /\ booking'[b].status = booking[b].status
            /\ booking'[b].commission = booking[b].commission
            /\ booking'[b].driver = booking[b].driver
        BY <4>1 DEF Booking
      <4>3. QED
        BY <4>2 DEF PhaseOf
    <3>2. QED
      BY <3>1 DEF Promise!cvars
  <2>4. CASE UNCHANGED booking
    BY <2>4 DEF Promise!cvars
  <2>5. ASSUME NEW b \in Bookings, \A c \in Bookings \ {b} : booking'[c] = booking[c]
        PROVE  [Promise!ContractNext]_Promise!cvars
    <3>1. /\ RowOK(booking[b]) /\ RowHandled(booking[b])
          /\ RowOK(booking'[b]) /\ RowHandled(booking'[b])
          /\ Promised(booking[b], booking'[b])
      BY <2>1 DEF IInv, HandledInv, RowsStep, Moves, RowStep, HandledStep
    <3>2. QED
      BY <2>5, <3>1, RowKeepsContract
  <2>6. QED
    BY <2>2, <2>3, <2>4, <2>5, OneRowPerStep DEF vars
<1>3. QED
  BY <1>1, <1>2, Invariance, HandledInvariance, PTL
     DEF Spec, KeepsContract, Promise!Contract
=============================================================================
