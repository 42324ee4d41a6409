----------------------------- MODULE DispatchTx ------------------------------
(***************************************************************************)
(* The dispatch handlers of BookingLifecycle, taken apart into the         *)
(* statements of their database transactions, as several requests run at   *)
(* once on MySQL/InnoDB at its default isolation level:                    *)
(*   - a FOR UPDATE read waits for the rows' locks, keeps them until the   *)
(*     end of the transaction, and sees the newest committed rows;         *)
(*   - the first plain read fixes the transaction's read view, and every   *)
(*     later plain read of it sees the rows as they were then;             *)
(*   - a read through the pool (the settlement check) is a transaction of  *)
(*     its own and sees the newest committed rows.                         *)
(* The handlers take their locks in different orders, so requests may wait *)
(* for one another; InnoDB then rolls one of them back.                    *)
(* A request writes in its last step, with the commit: nobody sees its     *)
(* rows before, since they are locked.                                     *)
(***************************************************************************)
EXTENDS BookingRecord, Sequences

CONSTANTS Bookings, Services,
          ServiceOf,     \* booking -> its row of table service_types
          PickupOf,      \* booking -> pickup hour
          Tx, NoTx,      \* connections that run a transaction
          NoBooking,
          MaxRequests    \* bound on the requests served

ASSUME TxAssumption == NoTx \notin Tx /\ NoBooking \notin Bookings
ASSUME MaxRequestsAssumption == MaxRequests \in Nat
ASSUME RowsAssumption ==
  ServiceOf \in [Bookings -> Services] /\ PickupOf \in [Bookings -> Slots]

VARIABLES booking, driver,   \* the committed rows, as in BookingLifecycle
          lock,              \* row -> the transaction that has locked it
          job,               \* transaction -> the request it serves
          todo,              \* transaction -> the statements left
          view,              \* transaction -> its read view of the bookings
          begun              \* requests begun so far

txVars == <<lock, job, todo, view>>
dbVars == <<booking, driver>>
vars == <<booking, driver, lock, job, todo, view, begun>>

(* The handlers as atomic steps, at a fixed hour.                          *)
Serial == INSTANCE BookingLifecycle
  WITH now <- 0, MaxHour <- 0, ManualBookings <- {}, RawAdminStatus <- FALSE,
       Archiving <- FALSE

Row == Drivers \union Bookings \union Services
Request ==
  [kind: {"claim", "assign", "reassign", "release"}, d: Drivers, b: Bookings]
  \union [kind: {"unassign", "complete"}, d: {NoDriver}, b: Bookings]
  \union [kind: {"suspend"}, d: Drivers, b: {NoBooking}]
Idle == [kind |-> "idle", d |-> NoDriver, b |-> NoBooking]

(* The reads of each handler in the order they are issued.  One read,      *)
(* findByBookingNumberForUpdate, locks the booking, the row of its service *)
(* type and the row of its driver; its subquery for the assignment is the  *)
(* first plain read.                                                       *)
ReadBooking == <<"booking", "service", "holder">>

(* Mutant of Script: an assignment checks the settlement before it has     *)
(* locked the driver's row.                                                *)
ScriptSettledFirst(kind) ==
  CASE kind = "claim" -> <<"driver", "settled">> \o ReadBooking \o <<"write">>
    [] kind \in {"assign", "reassign"} ->
         ReadBooking \o <<"settled", "driver", "write">>
    [] kind = "release" -> <<"driver">> \o ReadBooking \o <<"write">>
    [] kind \in {"unassign", "complete"} -> ReadBooking \o <<"write">>
    [] kind = "suspend" -> <<"driver", "listed", "write">>

Script(kind) ==
  CASE kind = "claim" -> <<"driver", "settled">> \o ReadBooking \o <<"write">>
    [] kind \in {"assign", "reassign"} ->
         ReadBooking \o <<"driver", "settled", "write">>
    [] kind = "release" -> <<"driver">> \o ReadBooking \o <<"write">>
    [] kind \in {"unassign", "complete"} -> ReadBooking \o <<"write">>
    [] kind = "suspend" -> <<"driver", "listed", "write">>

TypeOK ==
  /\ booking \in [Bookings -> Booking]
  /\ driver \in [Drivers -> Serial!DriverRow]
  /\ lock \in [Row -> Tx \union {NoTx}]
  /\ job \in [Tx -> Request \union {Idle}]
  /\ \A t \in Tx : Len(todo[t]) \in 0..6
  /\ \A t \in Tx : view[t] = <<>> \/ view[t] \in [Bookings -> Booking]
  /\ begun \in 0..MaxRequests

Init ==
  /\ booking = [b \in Bookings |-> NewBooking(PickupOf[b], FALSE)]
  /\ driver = [d \in Drivers |-> [status |-> "AVAILABLE", archived |-> FALSE]]
  /\ lock = [r \in Row |-> NoTx]
  /\ job = [t \in Tx |-> Idle]
  /\ todo = [t \in Tx |-> <<>>]
  /\ view = [t \in Tx |-> <<>>]
  /\ begun = 0

-----------------------------------------------------------------------------
(* The statement a transaction is at.                                      *)

At(t, statement) == todo[t] # <<>> /\ Head(todo[t]) = statement

(* listAssignmentsForSuspension, FOR UPDATE.                               *)
Listed(d) ==
  {b \in Bookings : WorksOn(booking[b], d) /\ booking[b].status \in TripStatus}

(* Mutant of Wanted: the row of the service type is read without a lock.   *)
WantedNoService(t) ==
  LET j == job[t]
  IN  CASE At(t, "driver")  -> {j.d}
        [] At(t, "booking") -> {j.b}
        [] At(t, "holder")  -> {booking[j.b].driverColumn} \ {NoDriver}
        [] At(t, "listed")  -> Listed(j.d)
        [] OTHER            -> {}

(* The rows it locks.  The rows of a suspension's list are taken together. *)
Wanted(t) ==
  LET j == job[t]
  IN  CASE At(t, "driver")  -> {j.d}
        [] At(t, "booking") -> {j.b}
        [] At(t, "service") -> {ServiceOf[j.b]}
        [] At(t, "holder")  -> {booking[j.b].driverColumn} \ {NoDriver}
        [] At(t, "listed")  -> UNION {{b, ServiceOf[b]} : b \in Listed(j.d)}
        [] OTHER            -> {}

Owners(t) == {lock[r] : r \in Wanted(t)} \ {NoTx, t}
Waiting(t) == Owners(t) # {}

(* What it checks on the rows it has just read.                            *)
DriverQualifies(j) ==
  CASE j.kind = "claim" -> driver[j.d].status = "AVAILABLE"
    [] j.kind \in {"assign", "reassign"} -> driver[j.d].status # "SUSPENDED"
    [] OTHER -> TRUE

BookingQualifies(j) ==
  LET r == booking[j.b]
  IN  CASE j.kind = "claim" -> r.status = "OPEN" /\ ~HasAssignment(r)
        [] j.kind = "assign" -> r.status \notin ClosedStatus /\ ~HasAssignment(r)
        [] j.kind = "reassign" ->
             /\ r.status \notin {"PICKED_UP", "SETTLEMENT_PENDING"} \union ClosedStatus
             /\ HasAssignment(r)
             /\ r.driver # j.d
        [] j.kind = "release" -> r.driver = j.d /\ r.status = "DRIVER_ASSIGNED"
        [] j.kind = "unassign" -> HasAssignment(r) /\ r.status = "DRIVER_ASSIGNED"
        [] j.kind = "complete" -> HasAssignment(r) /\ r.status \in TripStatus

(* hasReleasedAssignment and findActiveAssignmentPickupsForConflict are    *)
(* plain reads.                                                            *)
Cooling(t) == job[t].d \in view[t][job[t].b].cooling
PickupTimeFree(t) ==
  \A c \in Bookings \ {job[t].b} :
    IsJobOf(view[t][c], job[t].d)
      => ~TooClose(view[t][c].pickup, booking[job[t].b].pickup)

(* What is checked last, just before the writes.                           *)
MayWrite(t) ==
  CASE job[t].kind = "claim" -> ~Cooling(t) /\ PickupTimeFree(t)
    [] job[t].kind \in {"assign", "reassign"} -> PickupTimeFree(t)
    [] job[t].kind = "suspend" -> \A b \in Listed(job[t].d) :
                                    /\ booking[b].status = "DRIVER_ASSIGNED"
                                    /\ booking[b].pickup > 0
    [] OTHER -> TRUE

Qualifies(t) ==
  CASE At(t, "driver")  -> DriverQualifies(job[t])
    [] At(t, "holder")  -> BookingQualifies(job[t])
    [] At(t, "settled") -> ~Serial!HasBlockingSettlement(job[t].d)
    [] At(t, "write")   -> MayWrite(t)
    [] OTHER            -> TRUE

-----------------------------------------------------------------------------
(* Steps.                                                                  *)

Begin(t) ==
  /\ todo[t] = <<>>
  /\ begun < MaxRequests
  /\ begun' = begun + 1
  /\ \E j \in Request : /\ job' = [job EXCEPT ![t] = j]
                        /\ todo' = [todo EXCEPT ![t] = Script(j.kind)]
  /\ UNCHANGED <<dbVars, lock, view>>

(* A read: it waits for its rows, locks them and passes the check.  The    *)
(* read view is fixed once the booking and its service type are locked.    *)
Read(t) ==
  /\ todo[t] # <<>> /\ ~At(t, "write")
  /\ ~Waiting(t)
  /\ Qualifies(t)
  /\ lock' = [r \in Row |-> IF r \in Wanted(t) THEN t ELSE lock[r]]
  /\ view' = IF At(t, "service") THEN [view EXCEPT ![t] = booking] ELSE view
  /\ todo' = [todo EXCEPT ![t] = Tail(@)]
  /\ UNCHANGED <<dbVars, job, begun>>

(* The end of a transaction frees its locks.                               *)
End(t) ==
  /\ lock' = [r \in Row |-> IF lock[r] = t THEN NoTx ELSE lock[r]]
  /\ job' = [job EXCEPT ![t] = Idle]
  /\ todo' = [todo EXCEPT ![t] = <<>>]
  /\ view' = [view EXCEPT ![t] = <<>>]
  /\ UNCHANGED begun

Written(j) ==
  LET r == booking[j.b]
  IN  CASE j.kind = "claim" ->
             [InsertAssignment(r, j.d) EXCEPT !.status = "DRIVER_ASSIGNED"]
        [] j.kind = "assign" ->
             [InsertAssignment(r, j.d) EXCEPT
                !.status = IF @ \in WaitingStatus THEN "DRIVER_ASSIGNED" ELSE @]
        [] j.kind = "reassign" -> InsertAssignment(EndAssignment(r), j.d)
        [] j.kind = "release"  -> Reopen(r, TRUE)
        [] j.kind = "unassign" -> Reopen(r, FALSE)
        [] j.kind = "complete" -> ApplyTransition(r, "SETTLEMENT_PENDING")

Commit(t) ==
  LET j == job[t]
  IN  /\ At(t, "write")
      /\ Qualifies(t)
      /\ IF j.kind = "suspend"
           THEN /\ booking' = [b \in Bookings |-> IF b \in Listed(j.d)
                                                    THEN Reopen(booking[b], TRUE)
                                                    ELSE booking[b]]
                /\ driver' = [driver EXCEPT ![j.d].status = "SUSPENDED"]
           ELSE /\ booking' = [booking EXCEPT ![j.b] = Written(j)]
                /\ UNCHANGED driver
      /\ End(t)

(* A check fails: the handler throws.                                      *)
Refuse(t) ==
  /\ todo[t] # <<>>
  /\ ~Waiting(t)
  /\ ~Qualifies(t)
  /\ End(t)
  /\ UNCHANGED dbVars

(* Transactions that wait for one another in a circle: InnoDB rolls one    *)
(* back, and the handler throws.                                           *)
Deadlocked(S) == /\ S # {}
                 /\ \A t \in S : Owners(t) \intersect S # {}
                 /\ \A t \in S : \E u \in S : t \in Owners(u)

Victim(t) ==
  /\ \E S \in SUBSET Tx : t \in S /\ Deadlocked(S)
  /\ End(t)
  /\ UNCHANGED dbVars

(* The bound on requests is used up.                                       *)
Rest ==
  /\ begun = MaxRequests
  /\ \A t \in Tx : todo[t] = <<>>
  /\ UNCHANGED vars

Next ==
  \/ \E t \in Tx : Begin(t) \/ Read(t) \/ Commit(t) \/ Refuse(t) \/ Victim(t)
  \/ Rest

Spec == Init /\ [][Next]_vars

-----------------------------------------------------------------------------
(* Every commit is a step of a whole handler: what the handler checked on  *)
(* rows it read earlier is still true of the rows as it commits.  This is  *)
(* what BookingLifecycle takes for granted when it makes a handler one     *)
(* action.                                                                 *)
CommitsAreHandlers == [][Serial!Next]_dbVars

(* No two bookings within the hour are given to one driver, however the    *)
(* transactions interleave.                                                *)
NoDoubleBooking == Serial!NoDoubleBooking

(* A suspension leaves the driver without a trip, also against an          *)
(* assignment that has locked its booking and waits for the driver.        *)
SuspendedHasNoTrip == Serial!SuspendedHasNoTrip
=============================================================================
