--------------------------- MODULE DriverLocation ---------------------------
(***************************************************************************)
(* Where a driver is, and who is told: drivers on a trip report positions, *)
(* riders read the position of their booking's driver or listen for it in  *)
(* the booking's room, administrators list every driver.                   *)
(*                                                                         *)
(* A report is stored in one transaction under the driver's row lock.  The *)
(* rooms it goes to and the position that is sent are read afterwards, on  *)
(* other connections, one query at a time.  Rooms are the server's memory: *)
(* nothing takes a socket out of one.                                      *)
(*                                                                         *)
(* A position is the moment it was taken, in parts of a second: DATETIME   *)
(* columns hold whole seconds.  The service writes a report's time as UTC; *)
(* CURRENT_TIMESTAMP is the database's wall clock, Shift ahead of UTC; and *)
(* the connection reads both columns as UTC.                               *)
(***************************************************************************)
EXTENDS Integers

CONSTANTS Drivers, Bookings,
          Riders,            \* sockets of customers and guests
          Reports,           \* concurrent handlers of driver:location:update
          None,
          Second,            \* parts of a second
          Shift,             \* SERVICE_UTC_OFFSET_MS
          Fresh,             \* FRESH_LOCATION_MS
          MaxAge, MaxAhead,  \* what parseRecordedAt accepts
          MaxTime            \* bound on the clock

VARIABLES
  clock,
  driver,   \* Drivers -> online, the stored position and its two columns
  trip,     \* Bookings -> status and the driver of the active assignment
  pass,     \* Riders -> the booking that is open to him, by account or token
  checked,  \* pairs of rider and booking found available, not yet joined
  room,     \* Bookings -> sockets in booking:<id>:driver-location
  report,   \* Reports -> where the handler is
  granted,  \* history: pairs of rider and booking that were ever opened
  owed,     \* history: pairs of report and booking whose room had been listed
            \* when the driver's trip for that booking ended
  heard     \* history: what riders were sent in a room

world == <<clock, trip, pass, granted>>
vars == <<clock, driver, trip, pass, checked, room, report, granted, owed, heard>>

Time == 0..MaxTime
\* ON_ROUTE, DRIVER_ARRIVED and PICKED_UP are TRIP; the statuses after it ENDED.
Status == {"OPEN", "DRIVER_ASSIGNED", "TRIP", "ENDED"}
Pass == [booking : Bookings, by : {"account", "token", "expired"}]

TypeOK ==
  /\ clock \in Time
  /\ \A d \in Drivers :
       /\ driver[d].online \in BOOLEAN
       /\ driver[d].place = None <=> driver[d].updated = None
  /\ trip \in [Bookings -> [status : Status, driver : Drivers \cup {None}]]
  /\ pass \in [Riders -> Pass]
  /\ checked \subseteq Riders \X Bookings
  /\ room \in [Bookings -> SUBSET Riders]
  /\ owed \subseteq Reports \X Bookings
  /\ heard \subseteq [rider : Riders, booking : Bookings, onTrip : BOOLEAN]

Idle == [pc |-> "idle", driver |-> None, rooms |-> {}, place |-> None]

Init ==
  /\ clock = 0
  /\ driver = [d \in Drivers |-> [online |-> FALSE, place |-> None,
                                  recorded |-> None, updated |-> None]]
  /\ trip = [b \in Bookings |-> [status |-> "OPEN", driver |-> None]]
  /\ pass \in [Riders -> [booking : Bookings, by : {"account", "token"}]]
  /\ granted = {<<r, pass[r].booking>> : r \in Riders}
  /\ checked = {} /\ room = [b \in Bookings |-> {}]
  /\ report = [h \in Reports |-> Idle]
  /\ owed = {} /\ heard = {}

-----------------------------------------------------------------------------
(* What the rows say.                                                      *)

(* toSqlDateTime, CURRENT_TIMESTAMP: whole seconds. *)
WholeSecond(t) == t - (t % Second)

(* isStale reads the digits of location_updated_at as UTC. *)
IsStale(d) == driver[d].updated = None \/ clock - driver[d].updated > Fresh

(* lastSeenAt: formatServiceDateTimeIso reads the same digits as Bangkok's. *)
LastSeenAt(d) == driver[d].updated - Shift

(* The bookings whose trip he is on: what a message is judged by. *)
RoomsOnTrip(d) == {b \in Bookings : trip[b].driver = d /\ trip[b].status = "TRIP"}

(* Mutant of RoomsOf: also the bookings he has not set out for. *)
RoomsOfAssigned(d) == {b \in Bookings : trip[b].driver = d}

(* listActiveBookingRoomsForDriver *)
RoomsOf(d) == {b \in Bookings : trip[b].driver = d /\ trip[b].status = "TRIP"}

(* isDuplicateOrOlderLocation *)
Older(d, at) == driver[d].recorded # None /\ at <= driver[d].recorded

(* hasActiveJob *)
HasActiveJob(d) == \E b \in Bookings : trip[b].driver = d /\ trip[b].status = "TRIP"

(* assignedDriverLocationSelectSql: the position is the driver's, whatever *)
(* trip he reported it on.                                                 *)
PlaceFor(b) == IF trip[b].driver = None THEN None ELSE driver[trip[b].driver].place

(* buildDriverLocationResponse *)
Available(b) == trip[b].status = "TRIP" /\ PlaceFor(b) # None

(* parseRecordedAt *)
AcceptedTime(at) == clock - at \in -MaxAhead..MaxAge

(* The booking is his account's (getCustomerDriverLocation), or his token  *)
(* is neither revoked nor expired (getGuestDriverLocation).                *)
AccountOpens(r, b) == pass[r] = [booking |-> b, by |-> "account"]
TokenOpens(r, b) == pass[r] = [booking |-> b, by |-> "token"]

-----------------------------------------------------------------------------
(* What happens around this service.                                       *)

Tick == clock < MaxTime /\ clock' = clock + 1
        /\ UNCHANGED <<driver, trip, pass, checked, room, report, granted, owed, heard>>

(* The driver's own switch, a suspension. *)
SetOnline(d) ==
  /\ driver' = [driver EXCEPT ![d].online = ~@]
  /\ UNCHANGED <<world, checked, room, report, owed, heard>>

MoveTrip(b, s, d) ==
  /\ trip' = [trip EXCEPT ![b] = [status |-> s, driver |-> d]]
  /\ owed' = owed \cup {<<h, b>> : h \in {k \in Reports : b \in report[k].rooms}}
  /\ UNCHANGED <<clock, driver, pass, checked, room, report, granted, heard>>

Assign(b, d) == trip[b].status = "OPEN" /\ MoveTrip(b, "DRIVER_ASSIGNED", d)
SetOut(b) ==
  /\ trip[b].status = "DRIVER_ASSIGNED"
  /\ MoveTrip(b, "TRIP", trip[b].driver)
(* The status stays as it is. *)
Reassign(b, d) ==
  /\ trip[b].status \in {"DRIVER_ASSIGNED", "TRIP"} /\ trip[b].driver # d
  /\ MoveTrip(b, trip[b].status, d)
EndTrip(b) == trip[b].status = "TRIP" /\ MoveTrip(b, "ENDED", trip[b].driver)

(* guest_access_tokens.revoked_at and expires_at. *)
PassEnds(r) ==
  /\ pass[r].by = "token"
  /\ pass' = [pass EXCEPT ![r].by = "expired"]
  /\ UNCHANGED <<clock, driver, trip, checked, room, report, granted, owed, heard>>

-----------------------------------------------------------------------------
(* Reporting.                                                              *)

(* updateCurrentLocation *)
Store(d, at) ==
  driver' = IF Older(d, at) THEN driver
            ELSE [driver EXCEPT ![d] = [online |-> TRUE, place |-> at,
                    recorded |-> WholeSecond(at), updated |-> WholeSecond(clock) + Shift]]

(* updateDriverLocation up to the commit.  The REST endpoint ends here; an *)
(* older report is answered STALE_LOCATION and goes nowhere.               *)
Receive(h, d, at) ==
  /\ report[h].pc = "idle"
  /\ AcceptedTime(at)
  /\ driver[d].online
  /\ HasActiveJob(d)
  /\ Store(d, at)
  /\ \/ UNCHANGED report
     \/ ~Older(d, at) /\ report' = [report EXCEPT ![h] = [Idle EXCEPT !.pc = "stored", !.driver = d]]
  /\ UNCHANGED <<world, checked, room, owed, heard>>

(* The rooms are read after the commit, on the pool. *)
ListRooms(h) ==
  /\ report[h].pc = "stored"
  /\ report' = [report EXCEPT ![h].pc = "listed", ![h].rooms = RoomsOf(report[h].driver)]
  /\ UNCHANGED <<world, driver, checked, room, owed, heard>>

(* listAdminLocations: the position sent is the one stored by now. *)
Snapshot(h) ==
  /\ report[h].pc = "listed"
  /\ report' = [report EXCEPT ![h].pc = "read", ![h].place = driver[report[h].driver].place]
  /\ UNCHANGED <<world, driver, checked, room, owed, heard>>

Emit(h) ==
  /\ report[h].pc = "read"
  /\ heard' = heard \cup
       {[rider |-> p[1], booking |-> p[2],
         onTrip |-> p[2] \in RoomsOnTrip(report[h].driver) \/ <<h, p[2]>> \in owed] :
        p \in {q \in Riders \X report[h].rooms : q[1] \in room[q[2]]}}
  /\ report' = [report EXCEPT ![h] = Idle]
  /\ owed' = {p \in owed : p[1] # h}
  /\ UNCHANGED <<world, driver, checked, room>>

-----------------------------------------------------------------------------
(* Listening.                                                              *)

(* getDriverLocation: for the account that owns the booking, else by the   *)
(* guest token.                                                            *)
Subscribe(r, b) ==
  /\ AccountOpens(r, b) \/ TokenOpens(r, b)
  /\ Available(b)
  /\ checked' = checked \cup {<<r, b>>}
  /\ UNCHANGED <<world, driver, room, report, owed, heard>>

Join(r, b) ==
  /\ <<r, b>> \in checked
  /\ checked' = checked \ {<<r, b>>}
  /\ room' = [room EXCEPT ![b] = @ \cup {r}]
  /\ UNCHANGED <<world, driver, report, owed, heard>>

Disconnect(r) ==
  /\ room' = [b \in Bookings |-> room[b] \ {r}]
  /\ checked' = {p \in checked : p[1] # r}
  /\ UNCHANGED <<world, driver, report, owed, heard>>

Next ==
  \/ Tick
  \/ \E d \in Drivers : SetOnline(d)
  \/ \E b \in Bookings : SetOut(b) \/ EndTrip(b)
  \/ \E b \in Bookings, d \in Drivers : Assign(b, d) \/ Reassign(b, d)
  \/ \E r \in Riders : PassEnds(r) \/ Disconnect(r)
  \/ \E r \in Riders, b \in Bookings : Subscribe(r, b) \/ Join(r, b)
  \/ \E h \in Reports, d \in Drivers, at \in Time : Receive(h, d, at)
  \/ \E h \in Reports : ListRooms(h) \/ Snapshot(h) \/ Emit(h)

Spec == Init /\ [][Next]_vars

-----------------------------------------------------------------------------
(* What a rider hears in a room is sent while its driver is on the trip of *)
(* that booking, but for the reports whose rooms had been listed when the  *)
(* trip ended or was given to another driver; and the booking is one the   *)
(* rider was let in to.                                                    *)
HeardOnTrip ==
  \A m \in heard : m.onTrip /\ <<m.rider, m.booking>> \in granted

(* An answer that says the driver was last seen longer than Fresh ago says *)
(* that his position is stale.                                             *)
StaleIsMarked ==
  \A d \in Drivers : (driver[d].place # None /\ clock - LastSeenAt(d) > Fresh) => IsStale(d)
=============================================================================
