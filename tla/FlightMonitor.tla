---------------------------- MODULE FlightMonitor ----------------------------
(***************************************************************************)
(* The flight monitor: an airport pickup carries a flight number, and the  *)
(* flight's state is copied into booking_transfer_details by the automatic *)
(* worker (flightSync.worker, started by a timer or by an administrator's  *)
(* run-now) and by an administrator's sync button, both through            *)
(* AdminFlightMonitorService.syncFlight.  A sync reads the row, waits for   *)
(* the provider, and writes what it found with the row it read in mind;    *)
(* meanwhile another sync, or a correction of the flight number, may have  *)
(* changed the row.  A success that finds the flight landed, cancelled or  *)
(* late leaves an event in the outbox.                                     *)
(*                                                                         *)
(* Times are counted from 0 to MaxTime.  The provider knows each flight's  *)
(* state; an answer is that state, the one kept for CacheTTL, or a         *)
(* failure.  A sync without a configured provider writes like a failure.   *)
(***************************************************************************)
EXTENDS Integers, Sequences, Functions

CONSTANTS Bookings, Flights, None,
          Pickup,       \* the pickup time of each booking
          FlightStates, \* the records [status, delay] the provider may give
          Editors,      \* who may correct a flight number
          Cooldown,     \* FLIGHT_SYNC_MIN_INTERVAL_MS
          RetryBase, MaxRetries, BatchSize, DelayDelta, CacheTTL,
          Lookback, Lookahead,
          Offset,       \* of the wall clock of the rows from UTC
          Ranges, Gaps, \* near, mid and far: distance and interval
          MaxTime, MaxEdits

VARIABLES
  booking,  \* is the booking still to be driven, or closed
  row,      \* booking_transfer_details
  flight,   \* what the provider knows
  cache,    \* FlightService.cache
  call,     \* the request each caller waits for
  worker,   \* the cycle under way: candidates left, attempt, pause
  sched,    \* FlightSyncSchedulerService: timer set, who runs
  outbox,   \* events announced
  clock, edits

vars == <<booking, row, flight, cache, call, worker, sched, outbox, clock, edits>>

Final == {"LANDED", "CANCELLED"}
Callers == {"worker", "admin"}
Failures == {"TRANSIENT", "NOT_FOUND", "RATE_LIMITED"}
Distance(x, y) == IF x > y THEN x - y ELSE y - x

(* A flight number with nothing known of the flight.                       *)
Fresh(f) ==
  [number |-> f, of |-> None, status |-> None, delay |-> 0,
   synced |-> None, result |-> "NEVER"]

Idle == [todo |-> <<>>, at |-> None, tries |-> 0, wake |-> None, asked |-> None]

-----------------------------------------------------------------------------
(* Which rows a cycle looks at, and in which order.                        *)
ArrivalOf(b) == Pickup[b] + row[b].delay

(* The window is written in UTC, the arrival in the service's own time.    *)
InWindow(b) ==
  /\ booking[b] = "OPEN"
  /\ row[b].number # None
  /\ ArrivalOf(b) + Offset \in (clock - Lookback)..(clock + Lookahead)

RequiredInterval(b) ==
  LET d == Distance(ArrivalOf(b), clock)
  IN  IF d > Ranges[3] THEN None
      ELSE Gaps[CHOOSE i \in 1..3 : d <= Ranges[i] /\ \A j \in 1..(i - 1) : d > Ranges[j]]

IsEligibleByPolicy(b) ==
  /\ ~ (row[b].status \in Final /\ row[b].result = "SUCCESS")
  /\ RequiredInterval(b) # None
  /\ row[b].synced # None => clock - row[b].synced >= RequiredInterval(b)

Moving(b) == row[b].status \in {"DELAYED", "ACTIVE"}
Before(a, b) ==
  LET da == Distance(ArrivalOf(a), clock)
      db == Distance(ArrivalOf(b), clock)
      sa == row[a].synced
      sb == row[b].synced
  IN  \/ da < db
      \/ /\ da = db
         /\ \/ Moving(a) /\ ~ Moving(b)
            \/ /\ Moving(a) <=> Moving(b)
               /\ sb # None /\ (sa # None => sa < sb)

(* The first n of some rows in that order; rows alike come in any order.   *)
First(n, S) ==
  {s \in UNION {[1..k -> S] : k \in 0..n} :
     /\ \A i, j \in DOMAIN s : i < j => s[i] # s[j] /\ ~ Before(s[j], s[i])
     /\ Len(s) = n \/ Range(s) = S
     /\ \A b \in S \ Range(s), i \in DOMAIN s : ~ Before(b, s[i])}

Candidates ==
  UNION {First(BatchSize, {b \in Range(found) : IsEligibleByPolicy(b)}) :
           found \in First(3 * BatchSize, {b \in Bookings : InWindow(b)})}

-----------------------------------------------------------------------------
Init ==
  /\ booking = [b \in Bookings |-> "OPEN"]
  /\ \E f \in [Bookings -> Flights] : row = [b \in Bookings |-> Fresh(f[b])]
  /\ \E s \in FlightStates : flight = [f \in Flights |-> s]
  /\ cache = [f \in Flights |-> None]
  /\ call = [c \in Callers |-> None]
  /\ worker = Idle
  /\ sched = [timer |-> TRUE, running |-> "no"]
  /\ outbox = {}
  /\ clock = 0 /\ edits = 0

(* The world moves: time, flights, bookings.                               *)
Tick ==
  /\ clock < MaxTime
  /\ clock' = clock + 1
  /\ UNCHANGED <<booking, row, flight, cache, call, worker, sched, outbox, edits>>

FlightMoves(f, s) ==
  /\ flight[f].status \notin Final /\ flight[f] # s
  /\ flight' = [flight EXCEPT ![f] = s]
  /\ UNCHANGED <<booking, row, cache, call, worker, sched, outbox, clock, edits>>

Close(b) ==
  /\ booking[b] = "OPEN"
  /\ booking' = [booking EXCEPT ![b] = "CLOSED"]
  /\ UNCHANGED <<row, flight, cache, call, worker, sched, outbox, clock, edits>>

(* A customer's correction forgets what was known of the old flight; an    *)
(* administrator's replaces the number alone.                              *)
Corrected(r, f, who) ==
  IF who = "CUSTOMER" THEN Fresh(f) ELSE [r EXCEPT !.number = f]

Correct(b, f, who) ==
  /\ edits < MaxEdits
  /\ booking[b] = "OPEN" /\ row[b].number # f
  /\ row' = [row EXCEPT ![b] = Corrected(@, f, who)]
  /\ edits' = edits + 1
  /\ UNCHANGED <<booking, flight, cache, call, worker, sched, outbox, clock>>

-----------------------------------------------------------------------------
(* syncFlight, first half: the row is read, and refused when the booking   *)
(* is closed, has no flight, or was synchronised a moment ago.             *)
SyncAllowed(b) == booking[b] = "OPEN" /\ row[b].number # None
CooledDown(b) == row[b].synced # None => clock - row[b].synced >= Cooldown

(* FlightService.search: a fresh answer of the cache saves the request.    *)
Cached(f) == cache[f] # None /\ clock < cache[f].until

Ask(who, b) ==
  call' = [call EXCEPT ![who] =
             [booking |-> b, row |-> row[b], at |-> clock,
              answer |-> IF Cached(row[b].number) THEN cache[row[b].number].state
                         ELSE None]]

AdminSync(b) ==
  /\ call["admin"] = None
  /\ SyncAllowed(b) /\ CooledDown(b)
  /\ Ask("admin", b)
  /\ UNCHANGED <<booking, row, flight, cache, worker, sched, outbox, clock, edits>>

(* The provider answers with the flight's state, which is kept, or fails.  *)
ProviderAnswers(who) ==
  LET f == call[who].row.number
  IN  /\ call[who] # None /\ call[who].answer = None
      /\ \/ /\ call' = [call EXCEPT ![who].answer = flight[f]]
            /\ cache' = [cache EXCEPT ![f] = [state |-> flight[f], until |-> clock + CacheTTL]]
         \/ /\ \E why \in Failures : 
                 call' = [call EXCEPT ![who].answer = [status |-> why, delay |-> 0]]
            /\ cache' = [cache EXCEPT ![f] = IF Cached(f) THEN @ ELSE None]
      /\ UNCHANGED <<booking, row, flight, worker, sched, outbox, clock, edits>>

(* buildNotificationEvents.                                                *)
AnnouncesEnd(old, new, end) == new.status = end /\ old.status # end
AnnouncesDelay(old, new) ==
  /\ new.delay > 0
  /\ Distance(new.delay, old.delay) >= DelayDelta \/ old.status # new.status
  /\ \/ old.delay <= 0 \/ new.status = "DELAYED"
     \/ new.delay > old.delay

NotificationEvents(old, new) ==
  {end \in Final : AnnouncesEnd(old, new, end)}
    \union (IF AnnouncesDelay(old, new) THEN {"DELAYED"} ELSE {})

(* updateFlightSync writes only while the row has the number that was      *)
(* asked for; the event goes out with the write.                           *)
StillAskedOrNot(r, old) == r.number # None
StillAsked(r, old) == r.number = old.number

Persist(req, new) ==
  IF StillAsked(row[req.booking], req.row)
  THEN /\ row' = [row EXCEPT ![req.booking] = [new EXCEPT !.number = row[req.booking].number]]
       /\ outbox' = outbox \union
            (IF new.result # "SUCCESS" THEN {}
             ELSE {[booking |-> req.booking, flight |-> req.row.number, event |-> e] :
                     e \in NotificationEvents(req.row, new)})
  ELSE UNCHANGED <<row, outbox>>

(* A failure writes back what the row held when it was read.               *)
Write(req) ==
  IF req.answer.status \in Failures
  THEN Persist(req, [req.row EXCEPT
                       !.synced = req.at,
                       !.result = IF req.answer.status = "RATE_LIMITED"
                                  THEN "RATE_LIMITED" ELSE "FAILED"])
  ELSE Persist(req, [number |-> req.row.number, of |-> req.row.number,
                     status |-> req.answer.status, delay |-> req.answer.delay,
                     synced |-> req.at, result |-> "SUCCESS"])

Answered(who) == call[who] # None /\ call[who].answer # None

AdminWrites ==
  /\ Answered("admin")
  /\ Write(call["admin"])
  /\ call' = [call EXCEPT !["admin"] = None]
  /\ UNCHANGED <<booking, flight, cache, worker, sched, clock, edits>>

-----------------------------------------------------------------------------
(* The worker.  A cycle takes its candidates one after the other.          *)
Begin(who) ==
  /\ sched' = [timer |-> who = "now" /\ sched.timer, running |-> who]
  /\ \E s \in Candidates : worker' = [Idle EXCEPT !.todo = s]

TimerFires ==
  /\ sched.timer
  /\ IF sched.running = "no" THEN Begin("timer") ELSE UNCHANGED <<sched, worker>>
  /\ UNCHANGED <<booking, row, flight, cache, call, outbox, clock, edits>>

RunNow ==
  /\ sched.running = "no"
  /\ Begin("now")
  /\ UNCHANGED <<booking, row, flight, cache, call, outbox, clock, edits>>

Free == sched.running # "no" /\ call["worker"] = None /\ worker.wake = None

(* The candidate is read again: it may be refused now.  It is then skipped *)
(* or counted as failed, and the next one is taken.                        *)
NextCandidate ==
  LET b == Head(worker.todo)
  IN  /\ Free /\ worker.todo # <<>>
      /\ IF SyncAllowed(b) /\ CooledDown(b)
         THEN /\ Ask("worker", b)
              /\ worker' = [worker EXCEPT !.todo = Tail(@), !.at = b, !.tries = 0,
                                          !.asked = clock]
         ELSE /\ worker' = [worker EXCEPT !.todo = Tail(@)]
              /\ UNCHANGED call
      /\ UNCHANGED <<booking, row, flight, cache, sched, outbox, clock, edits>>

CycleEnds ==
  /\ Free /\ worker.todo = <<>>
  /\ sched' = [timer |-> TRUE, running |-> "no"]
  /\ worker' = Idle
  /\ UNCHANGED <<booking, row, flight, cache, call, outbox, clock, edits>>

Pause(tries) == RetryBase * 2 ^ (tries - 1)

(* syncWithRetry: a transient failure is tried again after a pause, a rate *)
(* limit ends the cycle's requests, any other failure ends the candidate.  *)
AfterAnswer(status) ==
  CASE status = "RATE_LIMITED" -> Idle
    [] status = "TRANSIENT" /\ worker.tries + 1 < MaxRetries ->
         [worker EXCEPT !.tries = @ + 1, !.wake = clock + Pause(worker.tries + 1)]
    [] OTHER -> [Idle EXCEPT !.todo = worker.todo]

WorkerWrites ==
  /\ Answered("worker")
  /\ Write(call["worker"])
  /\ worker' = AfterAnswer(call["worker"].answer.status)
  /\ call' = [call EXCEPT !["worker"] = None]
  /\ UNCHANGED <<booking, flight, cache, sched, clock, edits>>

(* The pause is over: syncFlight once more, its checks included.           *)
Retry ==
  /\ worker.wake # None /\ worker.wake <= clock
  /\ IF SyncAllowed(worker.at) /\ CooledDown(worker.at)
     THEN /\ Ask("worker", worker.at)
          /\ worker' = [worker EXCEPT !.wake = None, !.asked = clock]
     ELSE /\ worker' = [Idle EXCEPT !.todo = worker.todo]
          /\ UNCHANGED call
  /\ UNCHANGED <<booking, row, flight, cache, sched, outbox, clock, edits>>

Next ==
  \/ Tick
  \/ \E f \in Flights, s \in FlightStates : FlightMoves(f, s)
  \/ \E b \in Bookings :
       Close(b) \/ AdminSync(b) \/ \E f \in Flights, who \in Editors : Correct(b, f, who)
  \/ \E who \in Callers : ProviderAnswers(who)
  \/ AdminWrites
  \/ TimerFires \/ RunNow \/ NextCandidate \/ CycleEnds \/ WorkerWrites \/ Retry

Spec == Init /\ [][Next]_vars

-----------------------------------------------------------------------------
Rows ==
  [number : Flights \union {None}, of : Flights \union {None},
   status : {s.status : s \in FlightStates} \union {None},
   delay : {s.delay : s \in FlightStates} \union {0},
   synced : 0..MaxTime \union {None},
   result : {"NEVER", "SUCCESS", "FAILED", "RATE_LIMITED"}]

(* The shapes of the rows, the requests and the worker's cycle.            *)
TypeOK ==
  /\ booking \in [Bookings -> {"OPEN", "CLOSED"}]
  /\ row \in [Bookings -> Rows]
  /\ flight \in [Flights -> FlightStates]
  /\ \A f \in Flights : cache[f] # None => cache[f].state \in FlightStates
  /\ \A c \in Callers : call[c] # None => call[c].booking \in Bookings /\ call[c].row \in Rows
  /\ worker.todo \in Seq(Bookings) /\ worker.tries \in 0..MaxRetries
  /\ sched.timer \in BOOLEAN /\ sched.running \in {"no", "timer", "now"}
  /\ \A e \in outbox : e.booking \in Bookings /\ e.flight \in Flights

(* What a booking shows of its flight was learnt of that flight: an answer *)
(* that arrives after the customer corrected the number is thrown away,    *)
(* and so is the failure of a request made for the earlier number          *)
(* (updateFlightSync's expected number against the edit's reset).          *)
DataIsOfTheFlight ==
  \A b \in Bookings : row[b].of \in {None, row[b].number}

(* A flight shown as landed or cancelled was announced as such: whatever   *)
(* syncs overlap, fail and write old values back, the change is reported   *)
(* by the sync that writes it (buildNotificationEvents compares with the   *)
(* row it read, not with the row it replaces).                             *)
EndIsAnnounced ==
  \A b \in Bookings : row[b].status \in Final =>
    [booking |-> b, flight |-> row[b].of, event |-> row[b].status] \in outbox

(* A transient failure is retried (flightSyncWorker.test.js:169): when the *)
(* pause is over the provider is asked again, unless the booking has       *)
(* closed or someone else has synchronised it meanwhile.                   *)
RetryAsksProvider ==
  [][ (/\ worker.wake # None /\ worker'.wake = None
       /\ SyncAllowed(worker.at)
       /\ row[worker.at].synced \in {None, worker.asked})
      => call'["worker"] # None ]_vars
=============================================================================
