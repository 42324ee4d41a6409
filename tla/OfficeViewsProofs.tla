--------------------------- MODULE OfficeViewsProofs ----------------------------
(***************************************************************************)
(* For any drivers, vehicle types and tiers, times and edits: the list of  *)
(* open calls and the claim answer the same question, who is told of a     *)
(* call finds it, and who is recommended can be assigned.  SQL and         *)
(* JavaScript are compared on rows of the right types (TypeOK, which is    *)
(* inductive): the hierarchy of vehicles (SameVehicles), the distance of   *)
(* two pickups (SameConflict).                                             *)
(*                                                                         *)
(* The flights (FlightInv): a row shows its own flight and an end that was *)
(* announced (Truthful), and so does every row that a caller read before   *)
(* he asked; a failure writes back what he read, so this is what keeps it. *)
(* The queue (QueueInv): the filters were made before the reasons, and of  *)
(* a row that they select.  The card (CardInv): at most one assignment row *)
(* is active, exactly while a driver has the job, and an ended one bears   *)
(* the marker of what ended it (EndedAs).                                  *)
(*                                                                         *)
(* The prices: sums over items and the policies one after the other are    *)
(* recursive functions on 0..N (StepsExist, StepsAgree); a quote is a      *)
(* route's price with its policies and the surcharge of its mode           *)
(* (RouteForm), so that the closer ride costs no more; and what is charged *)
(* is taken by the trigger (Storable), so that PriceInv keeps it bookable. *)
(***************************************************************************)
EXTENDS OfficeViews, SequenceTheorems, WellFoundedInduction, TLAPS

(* The rows have their types at first.                                     *)
LEMMA Initially == Init => TypeOK
<1> SUFFICES ASSUME Init PROVE TypeOK
  OBVIOUS
<1>1. call \in Call
  BY DEF Init, Call, Waiting
<1>2. driver \in [Drivers -> Driver]
  BY DEF Init, Driver
<1> QED BY <1>1, <1>2 DEF Init, TypeOK

(* What the handlers write into a row.                                     *)
LEMMA Rows ==
  ASSUME TypeOK
  PROVE  /\ \A s \in Waiting \union Gone \union {"DRIVER_ASSIGNED"} :
              [call EXCEPT !.status = s] \in Call
         /\ \A s \in Waiting \union {"DRIVER_ASSIGNED"}, d \in Drivers \union {None} :
              [call EXCEPT !.status = s, !.driver = d] \in Call
         /\ \A v \in BOOLEAN : [call EXCEPT !.verified = v] \in Call
         /\ \A t \in Types, p \in Pickups : [call EXCEPT !.type = t, !.pickup = p] \in Call
         /\ \A d \in Drivers : \A s \in {"OFFLINE", "AVAILABLE", "SUSPENDED"} :
              [driver[d] EXCEPT !.status = s] \in Driver
         /\ \A d \in Drivers : [driver[d] EXCEPT !.archived = FALSE] \in Driver
         /\ \A d \in Drivers : other[d] # None => [other[d] EXCEPT !.ended = TRUE] \in Job
         /\ \A d \in Drivers, a \in Approval :
              extra[d] # None => [extra[d] EXCEPT !.approval = a] \in Vehicle
<1>1. \A s \in Waiting \union Gone \union {"DRIVER_ASSIGNED"} : [call EXCEPT !.status = s] \in Call
  BY DEF TypeOK, Call
<1>2. \A s \in Waiting \union {"DRIVER_ASSIGNED"}, d \in Drivers \union {None} :
        [call EXCEPT !.status = s, !.driver = d] \in Call
  BY DEF TypeOK, Call
<1>3. \A v \in BOOLEAN : [call EXCEPT !.verified = v] \in Call
  BY DEF TypeOK, Call
<1>4. \A t \in Types, p \in Pickups : [call EXCEPT !.type = t, !.pickup = p] \in Call
  BY DEF TypeOK, Call
<1>5. ASSUME NEW d \in Drivers
      PROVE  /\ \A s \in {"OFFLINE", "AVAILABLE", "SUSPENDED"} :
                  [driver[d] EXCEPT !.status = s] \in Driver
             /\ [driver[d] EXCEPT !.archived = FALSE] \in Driver
  <2>1. driver[d] \in Driver BY DEF TypeOK
  <2> QED BY <2>1 DEF Driver
<1>6. ASSUME NEW d \in Drivers, other[d] # None
      PROVE  [other[d] EXCEPT !.ended = TRUE] \in Job
  <2>1. other[d] \in Job BY <1>6 DEF TypeOK
  <2> QED BY <2>1 DEF Job
<1>7. ASSUME NEW d \in Drivers, NEW a \in Approval, extra[d] # None
      PROVE  [extra[d] EXCEPT !.approval = a] \in Vehicle
  <2>1. extra[d] \in Vehicle BY <1>7 DEF TypeOK
  <2> QED BY <2>1 DEF Vehicle
<1> QED BY <1>1, <1>2, <1>3, <1>4, <1>5, <1>6, <1>7

(* Every action keeps the types: one case per action.                      *)
LEMMA Typing == TypeOK /\ [Next]_vars => TypeOK'
<1> SUFFICES ASSUME TypeOK, [Next]_vars PROVE TypeOK'
  OBVIOUS
<1>1. CASE UNCHANGED vars
  BY <1>1 DEF TypeOK, vars
<1>2. ASSUME call' \in Call, UNCHANGED <<driver, main, extra, other>>, quit' \subseteq Drivers
      PROVE  TypeOK'
  BY <1>2 DEF TypeOK
<1>3. ASSUME NEW d \in Drivers, NEW r \in Driver, driver' = [driver EXCEPT ![d] = r]
      PROVE  driver' \in [Drivers -> Driver]
  BY <1>3 DEF TypeOK
<1>4. Reopened \in Call
  BY Rows DEF Reopened, Waiting
<1>5. ASSUME NEW d \in Drivers, GoOnline(d) \/ GoOffline(d) \/ Unsuspend(d) \/ Archive(d) \/ Restore(d)
      PROVE  TypeOK'
  <2>1. [status |-> "OFFLINE", archived |-> TRUE] \in Driver
    BY DEF Driver
  <2>2. PICK r \in Driver : driver' = [driver EXCEPT ![d] = r]
    BY <1>5, <2>1, Rows DEF GoOnline, GoOffline, Unsuspend, Archive, Restore
  <2>3. UNCHANGED <<call, main, extra, other, quit>>
    BY <1>5 DEF GoOnline, GoOffline, Unsuspend, Archive, Restore
  <2> QED BY <2>2, <2>3, <1>3 DEF TypeOK
<1>6. ASSUME NEW d \in Drivers, Suspend(d)
      PROVE  TypeOK'
  <2>1. driver' \in [Drivers -> Driver]
    BY <1>6, <1>3, Rows DEF Suspend
  <2>2. other' \in [Drivers -> Job \union {None}]
    BY <1>6 DEF Suspend, TypeOK
  <2>3. call' \in Call /\ UNCHANGED <<main, extra, quit>>
    BY <1>4, <1>6 DEF Suspend, TypeOK
  <2> QED BY <2>1, <2>2, <2>3 DEF TypeOK
<1>7. ASSUME NEW d \in Drivers, NEW t \in Types, ChangeVehicle(d, t) \/ AddVehicle(d, t)
      PROVE  TypeOK'
  <2>1. [type |-> t, approval |-> "PENDING"] \in Vehicle
    BY DEF Vehicle, Approval
  <2> QED BY <1>7, <2>1 DEF ChangeVehicle, AddVehicle, TypeOK
<1>8. ASSUME NEW d \in Drivers, NEW verdict \in {"APPROVED", "REJECTED"}, Review(d, verdict)
      PROVE  TypeOK'
  <2>1. PICK v \in Vehicle : extra' = [extra EXCEPT ![d] = v]
    BY <1>8, Rows DEF Review, Approval
  <2> QED BY <1>8, <2>1 DEF Review, TypeOK
<1>9. ASSUME NEW d \in Drivers, EndOther(d) \/ SettleOther(d) \/ \E p \in Pickups : TakeOther(d, p)
      PROVE  TypeOK'
  <2>1. \A p \in Pickups : [pickup |-> p, ended |-> FALSE] \in Job
    BY DEF Job
  <2>2. PICK j \in Job \union {None} : other' = [other EXCEPT ![d] = j]
    BY <1>9, <2>1, Rows DEF EndOther, SettleOther, TakeOther
  <2>3. UNCHANGED <<call, driver, main, extra, quit>>
    BY <1>9 DEF EndOther, SettleOther, TakeOther
  <2> QED BY <2>2, <2>3 DEF TypeOK
<1>10. ASSUME NEW d \in Drivers, Claim(d) \/ Release(d) \/ Assign(d)
       PROVE  TypeOK'
  <2>1. call' \in Call
    <3>1. [call EXCEPT !.status = "DRIVER_ASSIGNED", !.driver = d] \in Call
      BY Rows, Zenon
    <3> QED BY <1>4, <1>10, <3>1, Zenon DEF Claim, Release, Assign
  <2>2. UNCHANGED <<driver, main, extra, other>> /\ quit' \subseteq Drivers
    BY <1>10 DEF Claim, Release, Assign, TypeOK
  <2> QED BY <1>2, <2>1, <2>2
<1>11. CASE Unassign \/ Confirm \/ Leave \/ Verify \/ ResetContact
  <2>1. call' \in Call
    <3>1. \A r \in {"CONFIRMED", "ON_ROUTE", "CANCELLED"} : [call EXCEPT !.status = r] \in Call
      BY Rows DEF Waiting, Gone
    <3>2. [call EXCEPT !.verified = TRUE] \in Call /\ [call EXCEPT !.verified = FALSE] \in Call
      BY Rows
    <3>3. CASE Unassign \/ Verify \/ ResetContact
      BY <1>4, <3>2, <3>3 DEF Unassign, Verify, ResetContact
    <3>4. CASE Confirm \/ Leave
      BY <3>1, <3>4 DEF Confirm, Leave
    <3> QED BY <1>11, <3>3, <3>4
  <2>2. UNCHANGED <<driver, main, extra, other>> /\ quit' \subseteq Drivers
    BY <1>11 DEF Unassign, Confirm, Leave, Verify, ResetContact, TypeOK
  <2> QED BY <1>2, <2>1, <2>2
<1>12. ASSUME NEW t \in Types, NEW p \in Pickups, Edit(t, p)
       PROVE  TypeOK'
  <2>1. call' \in Call
    BY <1>12, Rows DEF Edit
  <2> QED BY <1>2, <1>12, <2>1 DEF Edit, TypeOK
<1>13. CASE Tick
  BY <1>13 DEF Tick, TypeOK
<1> QED
  BY <1>1, <1>5, <1>6, <1>7, <1>8, <1>9, <1>10, <1>11, <1>12, <1>13 DEF Next

-----------------------------------------------------------------------------
(* The list's SQL and the claim's JavaScript, one question at a time.      *)

(* The vehicles shown with a call are those its claim accepts.             *)
LEMMA SameVehicles ==
  ASSUME TypeOK, NEW d \in Drivers
  PROVE  Shown(d) = Accepted(d) /\ (Covered(d) <=> Accepted(d) # {})
<1>1. ApprovedVehicles(d) \subseteq Types
  BY DEF ApprovedVehicles, TypeOK, Vehicle
<1>2. ASSUME NEW v \in Types
      PROVE  Covers(v, call.type) <=>
               \/ v = call.type
               \/ Tier[v] # 0 /\ Tier[call.type] # 0 /\ ~(Tier[v] < Tier[call.type])
  <2>1. Tier[v] \in Nat /\ Tier[call.type] \in Nat
    BY CallsAssumption DEF TypeOK, Call
  <2> QED BY <2>1 DEF Covers
<1>3. Shown(d) = Accepted(d)
  BY <1>1, <1>2 DEF Shown, Accepted
<1>4. Covered(d) <=> Shown(d) # {}
  BY DEF Covered, Shown
<1> QED BY <1>3, <1>4

(* The SQL of the list and the JavaScript of the claim see the same conflict. *)
LEMMA SameConflict ==
  ASSUME TypeOK, NEW d \in Drivers
  PROVE  ListedConflict(d) <=> Conflict(d)
<1>1. CASE other[d] = None
  BY <1>1 DEF ListedConflict, Conflict
<1>2. CASE other[d] # None
  <2>1. other[d].pickup \in Int /\ call.pickup \in Int /\ Gap \in Int
    BY <1>2, CallsAssumption DEF TypeOK, Call, Job
  <2> QED BY <1>2, <2>1 DEF ListedConflict, Conflict, Far
<1> QED BY <1>1, <1>2

-----------------------------------------------------------------------------
(* The rows keep their types.                                              *)
THEOREM TypeInvariance == Spec => []TypeOK
  BY Initially, Typing, PTL DEF Spec

(* A driver's list of open calls is what he may claim.                     *)
THEOREM ListIsClaimable == Spec => []ListMatchesClaim
<1>1. TypeOK => ListMatchesClaim
  <2> SUFFICES ASSUME TypeOK, NEW d \in Drivers
               PROVE  (Listed(d) <=> Claimable(d)) /\ (Claimable(d) => Shown(d) = Accepted(d))
    BY DEF ListMatchesClaim
  <2>1. HiddenByRelease(d) <=> Cooling(d)
    BY DEF HiddenByRelease, Cooling
  <2> QED BY <2>1, SameVehicles, SameConflict DEF Listed, OpenRow, Ready, Claimable
<1> QED BY <1>1, TypeInvariance, PTL

(* Who is told of a call finds it on his list.                             *)
THEOREM InvitationsAreListed == Spec => []InvitedSeesCall
<1>1. TypeOK => InvitedSeesCall
  BY DEF InvitedSeesCall, Invited, EligibleRow, Listed, OpenRow, Ready, HiddenByRelease, Cooling
<1> QED BY <1>1, TypeInvariance, PTL

(* Who is recommended can be assigned.                                     *)
THEOREM CandidatesAreAssignable == Spec => []CandidateIsAssignable
<1>1. TypeOK => CandidateIsAssignable
  <2> SUFFICES ASSUME NEW d \in Drivers, Candidate(d) PROVE Assignable(d)
    BY DEF CandidateIsAssignable
  <2>1. other[d] = None
    BY DEF Candidate, Eligible, Jobs
  <2>2. ~Conflict(d)
    BY <2>1 DEF Conflict
  <2> QED BY <2>2 DEF Candidate, Eligible, Assignable, Waiting
<1> QED BY <1>1, TypeInvariance, PTL

-----------------------------------------------------------------------------
(* What a row shows is of its flight, and an end it shows is announced.    *)
Truthful(r, b) ==
  /\ r.of \in {None, r.number}
  /\ r.status \in Monitor!Final =>
       /\ r.of = r.number
       /\ [booking |-> b, flight |-> r.of, event |-> r.status] \in outbox

(* A caller holds the row that it read, which was truthful.                *)
AskedInv(c) ==
  flightCall[c] # None =>
    /\ flightCall[c].booking \in Bookings
    /\ flightCall[c].row \in Monitor!Rows /\ flightCall[c].row.number # None
    /\ flightCall[c].at \in 0..FlightTime
    /\ Truthful(flightCall[c].row, flightCall[c].booking)
    /\ flightCall[c].answer = None \/ flightCall[c].answer.status \in Monitor!Failures
       \/ flightCall[c].answer \in FlightStates

(* The worker's cycle: bookings to come, and the one it pauses at.         *)
CycleOK(cycle) ==
  /\ DOMAIN cycle = {"todo", "at", "tries", "wake", "asked"}
  /\ cycle.todo \in Seq(Bookings)
  /\ cycle.wake # None => cycle.at \in Bookings

FlightTypes ==
  /\ flightRow \in [Bookings -> Monitor!Rows]
  /\ flight \in [Flights -> FlightStates]
  /\ DOMAIN cache = Flights /\ \A f \in Flights : cache[f] # None => cache[f].state \in FlightStates
  /\ DOMAIN flightCall = Monitor!Callers
  /\ CycleOK(worker)
  /\ flightCall["worker"] # None => worker.at \in Bookings /\ worker.wake = None
  /\ sched.running = "no" => flightCall["worker"] = None /\ worker.wake = None
  /\ flightClock \in 0..FlightTime

FlightInv ==
  /\ FlightTypes
  /\ \A b \in Bookings : Truthful(flightRow[b], b)
  /\ \A c \in Monitor!Callers : AskedInv(c)

-----------------------------------------------------------------------------
(* A cycle's candidates are bookings.                                      *)
LEMMA CandidatesAreBookings == Monitor!Candidates \subseteq Seq(Bookings)
<1>1. ASSUME NEW S, NEW n, NEW s \in Monitor!First(n, S)
      PROVE  \E k \in 0..n : s \in [1..k -> S]
  BY DEF Monitor!First
<1>2. SUFFICES ASSUME NEW s \in Monitor!Candidates PROVE s \in Seq(Bookings)
  OBVIOUS
<1>3. PICK found \in Monitor!First(3 * BatchSize, {b \in Bookings : Monitor!InWindow(b)}) :
        s \in Monitor!First(BatchSize, {b \in Monitor!Range(found) : Monitor!IsEligibleByPolicy(b)})
  BY <1>2 DEF Monitor!Candidates
<1>4. PICK k \in 0..(3 * BatchSize) : found \in [1..k -> {b \in Bookings : Monitor!InWindow(b)}]
  BY <1>1
<1>5. Monitor!Range(found) \subseteq Bookings
  BY <1>4 DEF Monitor!Range
<1>6. PICK m \in 0..BatchSize :
        s \in [1..m -> {b \in Monitor!Range(found) : Monitor!IsEligibleByPolicy(b)}]
  BY <1>1, <1>3
<1>7. s \in [1..m -> Bookings] /\ m \in Nat
  BY <1>5, <1>6
<1> QED BY <1>7, SeqDef

(* Announcements are never taken back.                                     *)
LEMMA StaysTruthful ==
  ASSUME NEW r, NEW b, Truthful(r, b), outbox \subseteq outbox'
  PROVE  Truthful(r, b)'
  BY DEF Truthful

(* A step that writes no row, and leaves each caller without a row or with *)
(* one he held or reads.                                                   *)
LEMMA ReadingKeeps ==
  ASSUME FlightInv, FlightTypes', outbox' = outbox, flightRow' = flightRow,
         \A c \in Monitor!Callers :
           \/ flightCall'[c] = flightCall[c]
           \/ AskedInv(c)'
  PROVE  FlightInv'
<1>1. \A b \in Bookings : Truthful(flightRow[b], b)'
  BY DEF FlightInv, Truthful
<1>2. ASSUME NEW c \in Monitor!Callers PROVE AskedInv(c)'
  BY DEF FlightInv, AskedInv, Truthful
<1> QED BY <1>1, <1>2 DEF FlightInv

(* A row is read with what it shows, and a kept answer is the provider's.  *)
LEMMA AskKeeps ==
  ASSUME FlightInv, NEW who \in Monitor!Callers, NEW b \in Bookings, flightRow[b].number # None,
         Monitor!Ask(who, b), UNCHANGED <<flightRow, flight, cache, outbox, flightClock>>,
         CycleOK(worker'), UNCHANGED sched,
         \/ /\ who = "worker" /\ sched.running # "no"
            /\ worker'.at \in Bookings /\ worker'.wake = None
         \/ who # "worker" /\ UNCHANGED worker
  PROVE  FlightInv'
<1> DEFINE req == [booking |-> b, row |-> flightRow[b], at |-> flightClock,
                   answer |-> IF Monitor!Cached(flightRow[b].number)
                              THEN cache[flightRow[b].number].state ELSE None]
<1>1. flightCall' = [flightCall EXCEPT ![who] = req]
  BY DEF Monitor!Ask
<1>2. FlightTypes /\ flightRow[b] \in Monitor!Rows /\ Truthful(flightRow[b], b)
  BY DEF FlightInv, FlightTypes
<1>3. FlightTypes'
  BY <1>1, <1>2 DEF FlightTypes
<1>4. flightRow[b].number \in Flights
  BY <1>2 DEF Monitor!Rows
<1>5. req.answer = None \/ req.answer \in FlightStates
  BY <1>2, <1>4 DEF FlightTypes, Monitor!Cached
<1>6. /\ req.booking = b /\ req.row = flightRow[b] /\ req.at = flightClock
  OBVIOUS
<1> HIDE DEF req
<1>7. flightCall'[who] = req /\ \A c \in Monitor!Callers : c # who => flightCall'[c] = flightCall[c]
  BY <1>1, <1>2 DEF FlightTypes
<1>8. AskedInv(who)'
  <2>1. Truthful(flightRow[b], b)'
    BY <1>2 DEF Truthful
  <2>2. Truthful(flightCall[who].row, flightCall[who].booking)'
    BY <2>1, <1>6, <1>7 DEF Truthful
  <2> QED BY <2>2, <1>2, <1>5, <1>6, <1>7 DEF AskedInv, FlightTypes
<1> QED BY <1>3, <1>7, <1>8, ReadingKeeps

(* A row of the same flight is written over, with the events it needs.     *)
LEMMA WrittenKeeps ==
  ASSUME FlightInv, NEW b \in Bookings, NEW r \in Monitor!Rows,
         flightRow' = [flightRow EXCEPT ![b] = r], outbox \subseteq outbox', Truthful(r, b)',
         FlightTypes', \A c \in Monitor!Callers : flightCall'[c] \in {None, flightCall[c]}
  PROVE  FlightInv'
<1>1. ASSUME NEW k \in Bookings PROVE Truthful(flightRow[k], k)'
  <2>1. CASE k = b
    <3>1. flightRow'[k] = r
      BY <2>1 DEF FlightInv, FlightTypes
    <3> QED BY <2>1, <3>1 DEF Truthful
  <2>2. CASE k # b
    <3>1. flightRow'[k] = flightRow[k] /\ Truthful(flightRow[k], k)
      BY <2>2 DEF FlightInv, FlightTypes
    <3> QED BY <3>1 DEF Truthful
  <2> QED BY <2>1, <2>2
<1>2. ASSUME NEW c \in Monitor!Callers PROVE AskedInv(c)'
  <2>1. AskedInv(c) /\ flightCall'[c] \in {None, flightCall[c]}
    BY DEF FlightInv
  <2> QED BY <2>1 DEF AskedInv, Truthful
<1> QED BY <1>1, <1>2 DEF FlightInv

(* What a sync writes: the provider's state of the flight asked for, or    *)
(* the row it read, over a row that still has that flight.                 *)
LEMMA WriteKeeps ==
  ASSUME FlightInv, NEW who \in Monitor!Callers, Monitor!Answered(who),
         NEW req, req = flightCall[who], Monitor!Write(req),
         flightCall' = [flightCall EXCEPT ![who] = None],
         UNCHANGED <<flight, cache, sched, flightClock>>, CycleOK(worker'),
         who = "worker" \/ UNCHANGED worker, sched.running # "no" \/ UNCHANGED worker
  PROVE  FlightInv'
<1>1. /\ FlightTypes /\ req.booking \in Bookings /\ req.row \in Monitor!Rows
      /\ req.row.number \in Flights
      /\ req.at \in 0..FlightTime /\ Truthful(req.row, req.booking)
      /\ req.answer.status \in Monitor!Failures \/ req.answer \in FlightStates
      /\ flightRow[req.booking] \in Monitor!Rows
      /\ \A c \in Monitor!Callers : flightCall'[c] \in {None, flightCall[c]}
      /\ DOMAIN flightCall' = Monitor!Callers
  BY DEF FlightInv, FlightTypes, AskedInv, Monitor!Answered, Monitor!Rows
<1>w. /\ flightCall'["worker"] # None => worker'.at \in Bookings /\ worker'.wake = None
      /\ sched'.running = "no" => flightCall'["worker"] = None /\ worker'.wake = None
  <2>1. /\ "worker" \in Monitor!Callers /\ DOMAIN flightCall = Monitor!Callers
        /\ flightCall["worker"] # None => worker.at \in Bookings /\ worker.wake = None
        /\ sched' = sched
        /\ sched.running = "no" => flightCall["worker"] = None /\ worker.wake = None
    BY DEF FlightInv, FlightTypes, Monitor!Callers
  <2>2. CASE who = "worker"
    <3>1. flightCall'["worker"] = None
      BY <2>1, <2>2
    <3> QED BY <2>1, <3>1
  <2>3. CASE who # "worker" /\ UNCHANGED worker
    <3>1. flightCall'["worker"] = flightCall["worker"]
      BY <2>1, <2>3
    <3> QED BY <2>1, <2>3, <3>1
  <2> QED BY <2>2, <2>3
<1> DEFINE had == flightRow[req.booking].number
<1>b. PICK b : b = req.booking
  OBVIOUS
<1>2. ASSUME UNCHANGED <<flightRow, outbox>> PROVE FlightInv'
  <2>1. FlightTypes'
    BY <1>1, <1>w, <1>2 DEF FlightTypes
  <2>2. ASSUME NEW c \in Monitor!Callers, flightCall'[c] = None PROVE AskedInv(c)'
    BY <2>2 DEF AskedInv
  <2> QED BY <1>1, <1>2, <2>1, <2>2, ReadingKeeps
<1>3. ASSUME NEW new \in Monitor!Rows, Monitor!Persist(req, new), new.number = req.row.number,
             Monitor!StillAsked(flightRow[b], req.row) => Truthful(new, b)'
      PROVE  FlightInv'
  <2>1. CASE ~ Monitor!StillAsked(flightRow[b], req.row)
    BY <1>b, <1>2, <1>3, <2>1 DEF Monitor!Persist
  <2>2. CASE Monitor!StillAsked(flightRow[b], req.row)
    <3>0. PICK r : r = [new EXCEPT !.number = had]
      OBVIOUS
    <3>1. had = req.row.number
      BY <1>b, <2>2 DEF Monitor!StillAsked
    <3>2. /\ flightRow' = [flightRow EXCEPT ![b] = r]
          /\ \E more : outbox' = outbox \union more
      BY <1>b, <1>3, <2>2, <3>0 DEF Monitor!Persist
    <3>3. r \in Monitor!Rows /\ r.number = new.number /\ r.of = new.of /\ r.status = new.status
      BY <1>3, <3>0, <3>1 DEF Monitor!Rows
    <3>4. outbox \subseteq outbox' /\ Truthful(new, b)'
      BY <1>3, <2>2, <3>2
    <3>5. Truthful(r, b)'
      BY <3>3, <3>4 DEF Truthful
    <3>6. FlightTypes'
      <4>1. flightRow' \in [Bookings -> Monitor!Rows]
        BY <1>1, <3>2, <3>3 DEF FlightTypes
      <4> QED BY <1>1, <1>w, <4>1 DEF FlightTypes
    <3> QED BY <1>b, <1>1, <3>2, <3>3, <3>4, <3>5, <3>6, WrittenKeeps
  <2> QED BY <2>1, <2>2
<1>4. CASE req.answer.status \in Monitor!Failures
  <2> DEFINE new == [req.row EXCEPT !.synced = req.at,
                                    !.result = IF req.answer.status = "RATE_LIMITED"
                                               THEN "RATE_LIMITED" ELSE "FAILED"]
  <2>1. Monitor!Persist(req, new)
    BY <1>4 DEF Monitor!Write
  <2>2. /\ new \in Monitor!Rows /\ new.number = req.row.number
        /\ new.of = req.row.of /\ new.status = req.row.status
    <3>1. /\ new.number = req.row.number /\ new.of = req.row.of
          /\ new.status = req.row.status /\ new.delay = req.row.delay
          /\ new.synced = req.at /\ new.result \in {"RATE_LIMITED", "FAILED"}
      BY <1>1 DEF Monitor!Rows
    <3> QED BY <1>1, <3>1 DEF Monitor!Rows
  <2> HIDE DEF new
  <2>3. Monitor!StillAsked(flightRow[b], req.row) => outbox \subseteq outbox'
    BY <1>b, <2>1 DEF Monitor!Persist
  <2>4. Monitor!StillAsked(flightRow[b], req.row) => Truthful(new, b)'
    BY <1>b, <1>1, <2>2, <2>3 DEF Truthful
  <2> QED BY <1>3, <2>1, <2>2, <2>4
<1>5. CASE req.answer.status \notin Monitor!Failures
  <2> DEFINE new == [number |-> req.row.number, of |-> req.row.number,
                     status |-> req.answer.status, delay |-> req.answer.delay,
                     synced |-> req.at, result |-> "SUCCESS"]
  <2>1. Monitor!Persist(req, new)
    BY <1>5 DEF Monitor!Write
  <2>2. /\ new \in Monitor!Rows /\ new.number = req.row.number /\ new.result = "SUCCESS"
        /\ new.of = req.row.number /\ new.status = req.answer.status
    BY <1>1, <1>5 DEF Monitor!Rows
  <2> HIDE DEF new
  <2>3. ASSUME Monitor!StillAsked(flightRow[b], req.row)
        PROVE  Truthful(new, b)'
    <3>1. outbox' = outbox \union
            {[booking |-> b, flight |-> req.row.number, event |-> e] :
               e \in Monitor!NotificationEvents(req.row, new)}
      BY <1>b, <2>1, <2>2, <2>3 DEF Monitor!Persist
    <3>2. ASSUME new.status \in Monitor!Final
          PROVE  [booking |-> b, flight |-> new.of, event |-> new.status] \in outbox'
      <4>1. CASE req.row.status = new.status
        BY <1>b, <1>1, <2>2, <3>1, <3>2, <4>1 DEF Truthful
      <4>2. CASE req.row.status # new.status
        <5>1. new.status \in Monitor!NotificationEvents(req.row, new)
          BY <3>2, <4>2 DEF Monitor!NotificationEvents, Monitor!AnnouncesEnd
        <5> QED BY <2>2, <3>1, <5>1
      <4> QED BY <4>1, <4>2
    <3> QED BY <2>2, <3>2 DEF Truthful
  <2> QED BY <1>3, <2>1, <2>2, <2>3
<1> QED BY <1>4, <1>5

(* Nothing is known of the flights at first.                               *)
LEMMA FlightInitially == Monitor!Init => FlightInv
<1> SUFFICES ASSUME Monitor!Init PROVE FlightInv
  OBVIOUS
<1>1. PICK f \in [Bookings -> Flights] : flightRow = [b \in Bookings |-> Monitor!Fresh(f[b])]
  BY DEF Monitor!Init
<1>2. PICK s \in FlightStates : flight = [g \in Flights |-> s]
  BY DEF Monitor!Init
<1>3. \A g \in Flights : Monitor!Fresh(g) \in Monitor!Rows
  BY DEF Monitor!Fresh, Monitor!Rows
<1>4. FlightTypes
  <2>1. flightRow \in [Bookings -> Monitor!Rows]
    BY <1>1, <1>3
  <2>2. CycleOK(worker)
    BY DEF Monitor!Init, Monitor!Idle, CycleOK
  <2> QED BY <1>2, <2>1, <2>2, FlightAssumption
             DEF Monitor!Init, Monitor!Idle, Monitor!Callers, FlightTypes
<1>5. \A b \in Bookings : Truthful(flightRow[b], b)
  BY <1>1, FlightAssumption DEF Truthful, Monitor!Fresh
<1> QED BY <1>4, <1>5 DEF FlightInv, AskedInv, Monitor!Init

(* The provider answers with the flight's state, or fails.                 *)
LEMMA AnswerKeeps ==
  ASSUME FlightInv, NEW who \in Monitor!Callers, Monitor!ProviderAnswers(who)
  PROVE  FlightInv'
<1> DEFINE f == flightCall[who].row.number
<1>1. /\ FlightTypes /\ AskedInv(who) /\ flightCall[who] # None
      /\ UNCHANGED <<booking, flightRow, flight, worker, sched, outbox, flightClock>>
  BY DEF FlightInv, Monitor!ProviderAnswers
<1>2. f \in Flights
  BY <1>1 DEF AskedInv, Monitor!Rows
<1>3. PICK a : /\ a.status \in Monitor!Failures \/ a \in FlightStates
               /\ flightCall' = [flightCall EXCEPT ![who].answer = a]
               /\ DOMAIN cache' = Flights
               /\ \A g \in Flights : cache'[g] # None => cache'[g].state \in FlightStates
  <2>1. CASE /\ flightCall' = [flightCall EXCEPT ![who].answer = flight[f]]
             /\ cache' = [cache EXCEPT ![f] = [state |-> flight[f], until |-> flightClock + CacheTTL]]
    BY <1>1, <1>2, <2>1 DEF FlightTypes
  <2>2. ASSUME NEW why \in Monitor!Failures,
               flightCall' = [flightCall EXCEPT ![who].answer = [status |-> why, delay |-> 0]],
               cache' = [cache EXCEPT ![f] = IF Monitor!Cached(f) THEN @ ELSE None]
        PROVE  \E a : /\ a.status \in Monitor!Failures \/ a \in FlightStates
                      /\ flightCall' = [flightCall EXCEPT ![who].answer = a]
                      /\ DOMAIN cache' = Flights
                      /\ \A g \in Flights : cache'[g] # None => cache'[g].state \in FlightStates
    <3>1. [status |-> why, delay |-> 0].status \in Monitor!Failures
      OBVIOUS
    <3>2. /\ DOMAIN cache' = Flights
          /\ \A g \in Flights : cache'[g] # None => cache'[g].state \in FlightStates
      BY <1>1, <1>2, <2>2 DEF FlightTypes
    <3> QED BY <2>2, <3>1, <3>2
  <2> QED BY <2>1, <2>2 DEF Monitor!ProviderAnswers
<1>4. FlightTypes'
  BY <1>1, <1>3 DEF FlightTypes
<1>5. AskedInv(who)'
  <2> DEFINE req == [flightCall[who] EXCEPT !.answer = a]
  <2>1. flightCall'[who] = req
    BY <1>1, <1>3 DEF FlightTypes
  <2>2. /\ req.booking = flightCall[who].booking /\ req.row = flightCall[who].row
        /\ req.at = flightCall[who].at /\ req.answer = a
    OBVIOUS
  <2> HIDE DEF req
  <2> QED BY <1>1, <1>3, <2>1, <2>2 DEF AskedInv, Truthful
<1>6. \A c \in Monitor!Callers : c # who => flightCall'[c] = flightCall[c]
  BY <1>1, <1>3 DEF FlightTypes
<1> QED BY <1>1, <1>4, <1>5, <1>6, ReadingKeeps

(* A customer's correction forgets what the row showed.                    *)
LEMMA CorrectKeeps ==
  ASSUME Editors \subseteq {"CUSTOMER"}, FlightInv, NEW b \in Bookings, NEW f \in Flights,
         NEW who \in Editors, Monitor!Correct(b, f, who)
  PROVE  FlightInv'
<1>1. /\ flightRow' = [flightRow EXCEPT ![b] = Monitor!Fresh(f)]
      /\ UNCHANGED <<flight, cache, flightCall, worker, sched, outbox, flightClock>>
  BY DEF Monitor!Correct, Monitor!Corrected
<1>2. Monitor!Fresh(f) \in Monitor!Rows /\ Truthful(Monitor!Fresh(f), b)'
  BY FlightAssumption DEF Monitor!Fresh, Monitor!Rows, Truthful
<1>3. FlightTypes'
  BY <1>1, <1>2 DEF FlightInv, FlightTypes
<1> QED BY <1>1, <1>2, <1>3, WrittenKeeps

(* The worker's cycle: it begins, reads, pauses and ends.                  *)
LEMMA CycleKeeps ==
  ASSUME FlightInv,
         \/ Monitor!TimerFires \/ Monitor!RunNow \/ Monitor!NextCandidate
         \/ Monitor!CycleEnds \/ Monitor!Retry
  PROVE  FlightInv'
<1>0. FlightTypes
  BY DEF FlightInv
<1>1. ASSUME UNCHANGED <<flightRow, flight, cache, flightCall, outbox, flightClock>>,
             CycleOK(worker'), flightCall["worker"] = None,
             sched'.running = "no" => worker'.wake = None
      PROVE  FlightInv'
  <2>1. FlightTypes'
    BY <1>0, <1>1 DEF FlightTypes
  <2> QED BY <1>1, <2>1, ReadingKeeps
<1>2. CycleOK(Monitor!Idle)
  BY DEF CycleOK, Monitor!Idle
<1>3. ASSUME NEW who, Monitor!Begin(who)
      PROVE  CycleOK(worker')
  <2>1. PICK s \in Monitor!Candidates : worker' = [Monitor!Idle EXCEPT !.todo = s]
    BY <1>3 DEF Monitor!Begin
  <2> QED BY <2>1, CandidatesAreBookings DEF CycleOK, Monitor!Idle
<1>4. CASE Monitor!TimerFires \/ Monitor!RunNow
  <2>1. UNCHANGED <<flightRow, flight, cache, flightCall, outbox, flightClock>>
    BY <1>4 DEF Monitor!TimerFires, Monitor!RunNow
  <2>2. ASSUME NEW who, Monitor!Begin(who), who # "no", sched.running = "no"
        PROVE  FlightInv'
    BY <1>0, <1>1, <1>3, <2>1, <2>2 DEF Monitor!Begin, FlightTypes
  <2>3. CASE UNCHANGED <<sched, worker>>
    BY <1>0, <2>1, <2>3, ReadingKeeps DEF FlightTypes
  <2> QED BY <1>4, <2>2, <2>3 DEF Monitor!TimerFires, Monitor!RunNow
<1>5. CASE Monitor!CycleEnds
  BY <1>0, <1>1, <1>2, <1>5 DEF Monitor!CycleEnds, Monitor!Free, Monitor!Idle
<1>6. CASE Monitor!NextCandidate
  <2> DEFINE b == Head(worker.todo)
  <2>1. /\ worker.todo # <<>> /\ worker.wake = None /\ flightCall["worker"] = None
        /\ UNCHANGED <<flightRow, flight, cache, sched, outbox, flightClock>> /\ sched.running # "no"
    BY <1>6 DEF Monitor!NextCandidate, Monitor!Free
  <2>2. b \in Bookings /\ Tail(worker.todo) \in Seq(Bookings)
    BY <1>0, <2>1 DEF FlightTypes, CycleOK
  <2>3. CASE /\ Monitor!SyncAllowed(b) /\ Monitor!Ask("worker", b)
             /\ worker' = [worker EXCEPT !.todo = Tail(@), !.at = b, !.tries = 0,
                                         !.asked = flightClock]
    <3>1. CycleOK(worker') /\ worker'.at = b /\ worker'.wake = None
      BY <1>0, <2>1, <2>2, <2>3 DEF FlightTypes, CycleOK
    <3>2. PICK k \in Bookings : k = b
      BY <2>2
    <3>3. flightRow[k].number # None /\ Monitor!Ask("worker", k)
      BY <2>3, <3>2 DEF Monitor!SyncAllowed
    <3> QED BY <2>1, <3>1, <3>2, <3>3, AskKeeps DEF Monitor!Callers
  <2>4. CASE UNCHANGED flightCall /\ worker' = [worker EXCEPT !.todo = Tail(@)]
    <3>1. CycleOK(worker') /\ worker'.wake = None
      BY <1>0, <2>1, <2>2, <2>4 DEF FlightTypes, CycleOK
    <3> QED BY <1>1, <2>1, <2>4, <3>1
  <2> QED BY <1>6, <2>3, <2>4 DEF Monitor!NextCandidate
<1>7. CASE Monitor!Retry
  <2>1. PICK b \in Bookings : b = worker.at
    BY <1>0, <1>7 DEF Monitor!Retry, FlightTypes, CycleOK
  <2>2. /\ UNCHANGED <<flightRow, flight, cache, sched, outbox, flightClock>>
        /\ worker.wake # None /\ sched.running # "no"
    BY <1>0, <1>7 DEF Monitor!Retry, FlightTypes
  <2>3. CASE /\ Monitor!SyncAllowed(b) /\ Monitor!Ask("worker", b)
             /\ worker' = [worker EXCEPT !.wake = None, !.asked = flightClock]
    <3>1. CycleOK(worker') /\ worker'.at = b /\ worker'.wake = None
      BY <1>0, <2>1, <2>3 DEF FlightTypes, CycleOK
    <3>2. flightRow[b].number # None
      BY <2>3 DEF Monitor!SyncAllowed
    <3> QED BY <2>2, <2>3, <3>1, <3>2, AskKeeps DEF Monitor!Callers
  <2>4. CASE UNCHANGED flightCall /\ worker' = [Monitor!Idle EXCEPT !.todo = worker.todo]
    <3>1. CycleOK(worker') /\ worker'.wake = None
      BY <1>0, <2>4 DEF FlightTypes, CycleOK, Monitor!Idle
    <3>2. FlightTypes'
      BY <1>0, <2>1, <2>2, <2>4, <3>1 DEF FlightTypes
    <3> QED BY <2>2, <2>4, <3>2, ReadingKeeps
  <2> QED BY <1>7, <2>1, <2>3, <2>4 DEF Monitor!Retry
<1> QED BY <1>4, <1>5, <1>6, <1>7

(* The two writes, and what the worker does after its own.                 *)
LEMMA WritesKeep ==
  ASSUME FlightInv, Monitor!AdminWrites \/ Monitor!WorkerWrites
  PROVE  FlightInv'
<1>0. FlightTypes
  BY DEF FlightInv
<1>1. CASE Monitor!AdminWrites
  BY <1>0, <1>1, WriteKeeps DEF Monitor!AdminWrites, Monitor!Callers, FlightTypes
<1>2. CASE Monitor!WorkerWrites
  <2>1. /\ Monitor!Answered("worker") /\ Monitor!Write(flightCall["worker"])
        /\ flightCall' = [flightCall EXCEPT !["worker"] = None]
        /\ UNCHANGED <<flight, cache, sched, flightClock>>
    BY <1>2 DEF Monitor!WorkerWrites
  <2>2. CycleOK(worker')
    <3>1. worker' = Monitor!AfterAnswer(flightCall["worker"].answer.status)
      BY <1>2 DEF Monitor!WorkerWrites
    <3>2. CycleOK(worker) /\ worker.at \in Bookings
      BY <1>0, <2>1 DEF FlightTypes, Monitor!Answered
    <3>3. CASE worker' = [worker EXCEPT !.tries = @ + 1,
                            !.wake = flightClock + Monitor!Pause(worker.tries + 1)]
      BY <3>2, <3>3 DEF CycleOK
    <3>4. CASE worker' = Monitor!Idle
      BY <3>4 DEF CycleOK, Monitor!Idle
    <3>5. CASE worker' = [Monitor!Idle EXCEPT !.todo = worker.todo]
      BY <3>2, <3>5 DEF CycleOK, Monitor!Idle
    <3> QED BY <3>1, <3>3, <3>4, <3>5 DEF Monitor!AfterAnswer
  <2>3. sched.running # "no"
    BY <1>0, <2>1 DEF FlightTypes, Monitor!Answered
  <2> QED BY <2>1, <2>2, <2>3, WriteKeeps DEF Monitor!Callers
<1> QED BY <1>1, <1>2

(* Every step keeps the invariant: one case per action.                    *)
LEMMA FlightKeeps ==
  ASSUME Editors \subseteq {"CUSTOMER"}, FlightInv, [Monitor!Next]_flightState
  PROVE  FlightInv'
<1>0. FlightTypes
  BY DEF FlightInv
<1>1. ASSUME UNCHANGED <<flightRow, cache, flightCall, outbox, worker, sched>>,
             flight' \in [Flights -> FlightStates], flightClock' \in 0..FlightTime
      PROVE  FlightInv'
  <2>1. FlightTypes'
    BY <1>0, <1>1 DEF FlightTypes
  <2> QED BY <1>1, <2>1, ReadingKeeps
<1>2. CASE UNCHANGED flightState
  BY <1>0, <1>1, <1>2 DEF FlightTypes, flightState
<1>3. CASE Monitor!Tick
  <2>1. flightClock' \in 0..FlightTime
    BY <1>0, <1>3, FlightAssumption DEF Monitor!Tick, FlightTypes
  <2> QED BY <1>0, <1>1, <1>3, <2>1 DEF Monitor!Tick, FlightTypes
<1>4. ASSUME NEW f \in Flights, NEW s \in FlightStates, Monitor!FlightMoves(f, s)
      PROVE  FlightInv'
  BY <1>0, <1>1, <1>4 DEF Monitor!FlightMoves, FlightTypes
<1>5. ASSUME NEW b \in Bookings, Monitor!Close(b) PROVE FlightInv'
  BY <1>0, <1>1, <1>5 DEF Monitor!Close, FlightTypes
<1>6. ASSUME NEW b \in Bookings, Monitor!AdminSync(b) PROVE FlightInv'
  <2>1. CycleOK(worker')
    BY <1>0, <1>6 DEF Monitor!AdminSync, FlightTypes
  <2> QED
    BY <1>6, <2>1, AskKeeps DEF Monitor!AdminSync, Monitor!SyncAllowed, Monitor!Callers
<1> QED
  BY <1>2, <1>3, <1>4, <1>5, <1>6, CorrectKeeps, AnswerKeeps, CycleKeeps, WritesKeep
     DEF Monitor!Next

-----------------------------------------------------------------------------
(* The inductive invariant of the flights, if only customers correct them. *)
THEOREM FlightInvariance ==
  ASSUME Editors \subseteq {"CUSTOMER"}
  PROVE  OfficeSpec => []FlightInv
<1>1. OfficeInit => FlightInv
  BY FlightInitially DEF OfficeInit
<1>2. FlightInv /\ [OfficeNext]_officeVars => FlightInv'
  <2>1. FlightInv /\ UNCHANGED flightState => FlightInv'
    BY FlightKeeps
  <2> QED
    BY <2>1, FlightKeeps DEF OfficeNext, CallStep, QueueStep, FlightStep, PriceStep, JobStep, officeVars
<1> QED BY <1>1, <1>2, PTL DEF OfficeSpec

(* Whatever syncs overlap, fail and write old values back: a booking shows *)
(* its own flight, and an end that it shows was announced.                 *)
THEOREM FlightsAreOfTheBookings ==
  ASSUME Editors \subseteq {"CUSTOMER"}
  PROVE  OfficeSpec => []FlightIsTheBookings
<1>1. FlightInv => FlightIsTheBookings
  BY DEF FlightInv, Truthful, FlightIsTheBookings, Monitor!DataIsOfTheFlight,
         Monitor!EndIsAnnounced
<1> QED BY <1>1, FlightInvariance, PTL

-----------------------------------------------------------------------------
(* The request's filters were made at some moment before now; what it      *)
(* shows of the booking was worked out after that, of a selected row.      *)
QueueInv ==
  /\ queueRow \in Queue!Row
  /\ queueClock \in Int
  /\ filters = Queue!Idle
     \/ \E q \in Queue!Query, s \in Int : s <= queueClock /\ filters = Queue!Filters(q, s)
  /\ item = Queue!NoItem
     \/ \E q \in Queue!Query, s, t \in Int :
          /\ s <= t /\ filters = Queue!Filters(q, s)
          /\ Queue!Selects(filters, queueRow) /\ item = Queue!Operations(queueRow, t)

-----------------------------------------------------------------------------
(* The selection of a view, one set of fields per view.                    *)
ViewOf(q, g, s) ==
  IF q.archived THEN
    g.statuses = Queue!Statuses /\ ~g.needsAction /\ ~g.issues
  ELSE
    /\ q.view = "needs_action" =>
         /\ g.statuses = Queue!Statuses \ Queue!Closed
         /\ g.needsAction /\ ~g.issues /\ g.from = -1 /\ g.to = -1
    /\ q.view # "needs_action" => ~g.needsAction
    /\ q.view = "settlement" => g.statuses = {"SETTLEMENT_PENDING"}

(* What a view chooses, before "unassigned" overrides it.                  *)
LEMMA Defaults ==
  ASSUME NEW q \in Queue!Query, NEW s \in Int
  PROVE  LET g == Queue!ViewDefaults(Queue!Parsed(q, s), s)
         IN  /\ g.view = q.view /\ g.now = Queue!Seconds(s) /\ g.exact = q.exact
             /\ g.archivedOnly = q.archived /\ g.badge = q.badge /\ g.unassigned = q.unassigned
             /\ DOMAIN g = {"view", "now", "exact", "archivedOnly", "statuses", "needsAction",
                            "issues", "unassigned", "from", "to", "badge"}
             /\ ViewOf(q, g, s)
<1>1. PICK f : f = Queue!Parsed(q, s)
  OBVIOUS
<1>2. /\ f.view = q.view /\ f.now = Queue!Seconds(s) /\ f.exact = q.exact
      /\ f.archivedOnly = q.archived /\ f.badge = q.badge /\ f.unassigned = q.unassigned
      /\ f.statuses = Queue!Statuses /\ f.needsAction = FALSE /\ f.issues = FALSE
      /\ f.from = -1 /\ f.to = -1
      /\ DOMAIN f = {"view", "now", "exact", "archivedOnly", "statuses", "needsAction",
                     "issues", "unassigned", "from", "to", "badge"}
  BY <1>1 DEF Queue!Parsed, Queue!Never
<1>3. CASE q.archived
  <2>1. Queue!ViewDefaults(f, s) = f
    BY <1>2, <1>3 DEF Queue!ViewDefaults
  <2> QED BY <1>1, <1>2, <1>3, <2>1 DEF ViewOf
<1>4. CASE q.view = "needs_action" /\ ~ q.archived
  <2>1. Queue!ViewDefaults(f, s) =
          [f EXCEPT !.statuses = Queue!Statuses \ Queue!Closed, !.needsAction = TRUE]
    BY <1>2, <1>4 DEF Queue!ViewDefaults
  <2> QED BY <1>1, <1>2, <1>4, <2>1 DEF ViewOf
<1>5. CASE q.view = "settlement" /\ ~ q.archived
  <2>1. Queue!ViewDefaults(f, s) = [f EXCEPT !.statuses = {"SETTLEMENT_PENDING"}]
    BY <1>2, <1>5 DEF Queue!ViewDefaults
  <2> QED BY <1>1, <1>2, <1>5, <2>1 DEF ViewOf
<1>6. CASE q.view \notin {"needs_action", "settlement"} /\ ~ q.archived
  <2>1. q.view \in {"issues", "today", "upcoming", "in_progress", "completed", "cancelled", "all"}
    BY <1>6 DEF Queue!Query, Queue!Views
  <2>2. PICK g : g = Queue!ViewDefaults(f, s)
    OBVIOUS
  <2>3. \/ g = f
        \/ g = [f EXCEPT !.issues = TRUE]
        \/ \E a, b, c : \/ g = [f EXCEPT !.statuses = a, !.from = b, !.to = c]
                        \/ g = [f EXCEPT !.statuses = a, !.from = b]
                        \/ g = [f EXCEPT !.statuses = a]
                        \/ g = [f EXCEPT !.from = a, !.to = b]
    BY <1>2, <1>6, <2>1, <2>2 DEF Queue!ViewDefaults
  <2>4. /\ g.view = q.view /\ g.now = Queue!Seconds(s) /\ g.exact = q.exact
        /\ g.archivedOnly = q.archived /\ g.badge = q.badge /\ g.unassigned = q.unassigned
        /\ DOMAIN g = DOMAIN f /\ g.needsAction = FALSE
    BY <1>2, <2>3
  <2> QED BY <1>1, <1>2, <1>6, <2>2, <2>4 DEF ViewOf
<1> QED BY <1>3, <1>4, <1>5, <1>6

(* The filters of a request.                                               *)
LEMMA RequestFilters ==
  ASSUME NEW q \in Queue!Query, NEW s \in Int, NEW f, f = Queue!Filters(q, s)
  PROVE  /\ f.view = q.view /\ f.now = Queue!Seconds(s) /\ f.exact = q.exact
         /\ f.archivedOnly = q.archived /\ f.badge = q.badge
         /\ f.needsAction => q.view = "needs_action" /\ ~ q.exact /\ ~ q.archived
                             /\ ~ q.unassigned /\ f.statuses = Queue!Statuses \ Queue!Closed
         /\ (q.view = "settlement" /\ ~ q.exact /\ ~ q.archived) =>
               f.statuses \subseteq {"SETTLEMENT_PENDING"}
         /\ (q.view = "needs_action" /\ ~ q.exact /\ ~ q.archived /\ ~ q.unassigned) =>
               /\ f.needsAction /\ ~ f.issues /\ f.from = -1 /\ f.to = -1
               /\ f.statuses = Queue!Statuses \ Queue!Closed /\ ~ f.unassigned
<1>1. CASE q.exact
  BY <1>1 DEF Queue!Filters, Queue!Parsed
<1>2. CASE ~ q.exact
  <2>1. PICK g : g = Queue!ViewDefaults(Queue!Parsed(q, s), s)
    OBVIOUS
  <2>2. /\ g.view = q.view /\ g.now = Queue!Seconds(s) /\ g.exact = q.exact
        /\ g.archivedOnly = q.archived /\ g.badge = q.badge /\ g.unassigned = q.unassigned
        /\ DOMAIN g = {"view", "now", "exact", "archivedOnly", "statuses", "needsAction",
                       "issues", "unassigned", "from", "to", "badge"}
        /\ ViewOf(q, g, s)
    BY <2>1, Defaults
  <2>3. f = IF g.unassigned
            THEN [g EXCEPT !.statuses = @ \intersect Queue!Waiting, !.needsAction = FALSE] ELSE g
    BY <1>2, <2>1 DEF Queue!Filters, Queue!UnassignedOnly
  <2>4. CASE q.unassigned
    BY <1>2, <2>2, <2>3, <2>4 DEF ViewOf
  <2>5. CASE ~ q.unassigned
    BY <1>2, <2>2, <2>3, <2>5 DEF ViewOf
  <2> QED BY <2>4, <2>5
<1> QED BY <1>1, <1>2

-----------------------------------------------------------------------------
LEMMA QueueInitially == Queue!Init => QueueInv
  BY QueueAssumption DEF Queue!Init, QueueInv

(* The rows and the clocks are kept; a request is not asked twice.         *)
LEMMA QueueKeeps ==
  ASSUME QueueInv, [Queue!Next]_queueState
  PROVE  QueueInv'
<1>1. CASE UNCHANGED queueState
  BY <1>1 DEF QueueInv, queueState
<1>2. CASE Queue!Ask
  <2>1. PICK q \in Queue!Query : filters' = Queue!Filters(q, queueClock)
    BY <1>2 DEF Queue!Ask
  <2>2. filters = Queue!Idle /\ UNCHANGED <<queueRow, queueClock, item>>
    BY <1>2 DEF Queue!Ask
  <2>3. ASSUME NEW p \in Queue!Query, NEW s \in Int, filters = Queue!Filters(p, s) PROVE FALSE
    <3>1. filters.view = p.view
      BY <2>3, RequestFilters
    <3> QED BY <2>2, <3>1 DEF Queue!Query, Queue!Views, Queue!Idle
  <2> QED BY <2>1, <2>2, <2>3 DEF QueueInv
<1>3. CASE Queue!Show
  <2>1. PICK q \in Queue!Query, s \in Int : s <= queueClock /\ filters = Queue!Filters(q, s)
    BY <1>3 DEF QueueInv, Queue!Show
  <2>2. /\ Queue!Selects(filters, queueRow) /\ item' = Queue!Operations(queueRow, queueClock)
        /\ UNCHANGED <<queueRow, queueClock, filters>>
    BY <1>3 DEF Queue!Show
  <2> QED BY <2>1, <2>2 DEF QueueInv
<1>4. CASE Queue!Tick
  <2>1. queueClock' = queueClock + 1 /\ UNCHANGED <<queueRow, filters, item>>
    BY <1>4 DEF Queue!Tick
  <2>2. ASSUME filters # Queue!Idle
        PROVE  \E q \in Queue!Query, s \in Int : s <= queueClock' /\ filters' = Queue!Filters(q, s)
    <3>1. PICK q \in Queue!Query, s \in Int : s <= queueClock /\ filters = Queue!Filters(q, s)
      BY <2>2 DEF QueueInv
    <3>2. s <= queueClock' /\ filters' = Queue!Filters(q, s)
      BY <2>1, <3>1 DEF QueueInv
    <3> QED BY <3>2
  <2>3. queueRow' \in Queue!Row /\ queueClock' \in Int
    BY <2>1 DEF QueueInv
  <2> QED BY <2>1, <2>2, <2>3 DEF QueueInv
<1> QED BY <1>1, <1>2, <1>3, <1>4 DEF Queue!Next

-----------------------------------------------------------------------------
(* The SQL's question and the reasons, of one row of a live booking.       *)
LEMMA SelectedHasReason ==
  ASSUME NEW r \in Queue!Row, NEW s \in Int, NEW t \in Int, s <= t,
         Queue!SelectsNeedsAction(r, s)
  PROVE  Queue!Reasons(r, t) # {}
<1>1. /\ r.pickup \in Int /\ r.updated \in Int
      /\ {HalfHour, TwoHours, SixHours, Day} \subseteq Int
  BY QueueAssumption DEF Queue!Row
<1>2. CASE r.lowRated
  BY <1>2 DEF Queue!Reasons, Queue!AlarmReasons
<1>3. CASE Queue!Owing(r)
  BY <1>3 DEF Queue!Reasons, Queue!AlarmReasons, Queue!ReceiptReasons, Queue!Owing,
              Queue!ReceiptRejected, Queue!ReceiptSubmitted, Queue!ReceiptMissing
<1>4. CASE r.pickup < s /\ r.status \in Queue!PrePickup \ {"OPEN"}
  <2>1. r.pickup < t /\ r.status \in Queue!PrePickup
    BY <1>1, <1>4
  <2>2. Queue!AlarmReasons(r, t) # {}
    BY <2>1 DEF Queue!AlarmReasons
  <2> QED BY <2>2 DEF Queue!Reasons
<1>5. CASE \/ r.status = "DRIVER_ARRIVED" /\ r.updated < s - HalfHour
           \/ r.status = "PICKED_UP" /\ r.updated < s - SixHours
           \/ r.status \in Queue!Waiting /\ r.updated < s - TwoHours
  <2>1. \/ r.status = "DRIVER_ARRIVED" /\ t - r.updated >= HalfHour
        \/ r.status = "PICKED_UP" /\ t - r.updated >= SixHours
        \/ r.status \in Queue!Waiting /\ t - r.updated >= TwoHours
    BY <1>1, <1>5
  <2>2. Queue!DelayReasons(r, t) # {}
    BY <2>1 DEF Queue!DelayReasons
  <2> QED BY <2>2 DEF Queue!Reasons
<1>6. CASE Queue!UnassignedBooking(r)
  BY <1>6 DEF Queue!Reasons, Queue!UnassignedBooking
<1> QED
  BY <1>2, <1>3, <1>4, <1>5, <1>6 DEF Queue!SelectsNeedsAction, Queue!SelectsTrouble, Queue!Owing

LEMMA ReasonIsSelected ==
  ASSUME NEW r \in Queue!Row, r.status \notin Queue!Closed, NEW t \in Int, NEW n \in Int, t < n,
         Queue!Reasons(r, t) # {}
  PROVE  Queue!SelectsNeedsAction(r, n)
<1>1. /\ r.pickup \in Int /\ r.updated \in Int
      /\ {HalfHour, TwoHours, SixHours, Day} \subseteq Int
  BY QueueAssumption DEF Queue!Row
<1>2. Queue!Unassigned(r) => Queue!UnassignedBooking(r)
  BY DEF Queue!Row, Queue!Unassigned, Queue!UnassignedBooking, Queue!Statuses, Queue!Closed
<1>3. CASE Queue!Unassigned(r)
  BY <1>2, <1>3 DEF Queue!SelectsNeedsAction
<1>4. CASE ~ Queue!Unassigned(r)
  <2>1. \/ r.lowRated
        \/ Queue!Owing(r)
        \/ r.pickup < t /\ r.status \in Queue!PrePickup
        \/ Queue!DelayReasons(r, t) # {}
    BY <1>4 DEF Queue!Reasons, Queue!AlarmReasons, Queue!AssignmentReasons, Queue!ReceiptReasons,
                Queue!ReceiptRejected, Queue!ReceiptSubmitted, Queue!ReceiptMissing
  <2>2. r.status \notin Queue!Waiting
    BY <1>4 DEF Queue!Row, Queue!Unassigned, Queue!Waiting, Queue!Operating
  <2>3. CASE Queue!DelayReasons(r, t) # {}
    <3>1. \/ r.status = "DRIVER_ARRIVED" /\ t - r.updated >= HalfHour
          \/ r.status = "PICKED_UP" /\ t - r.updated >= SixHours
      BY <2>2, <2>3 DEF Queue!DelayReasons
    <3>2. \/ r.status = "DRIVER_ARRIVED" /\ r.updated < n - HalfHour
          \/ r.status = "PICKED_UP" /\ r.updated < n - SixHours
      BY <1>1, <3>1
    <3> QED BY <3>2 DEF Queue!SelectsNeedsAction, Queue!SelectsTrouble
  <2>4. CASE r.pickup < t /\ r.status \in Queue!PrePickup
    <3>1. r.pickup < n /\ r.status # "OPEN"
      BY <1>1, <2>2, <2>4 DEF Queue!Waiting
    <3> QED BY <2>4, <3>1 DEF Queue!SelectsNeedsAction, Queue!SelectsTrouble
  <2> QED BY <2>1, <2>3, <2>4 DEF Queue!SelectsNeedsAction, Queue!SelectsTrouble
<1> QED BY <1>3, <1>4

LEMMA WholeSeconds == \A s \in Int : Queue!Seconds(s) \in Int /\ Queue!Seconds(s) <= s /\ s - 1 <= Queue!Seconds(s)
  BY DEF Queue!Seconds

(* The list and the reasons, whatever time passes between them.            *)
LEMMA ListHasReasons == QueueInv => Queue!ListMatchesReasons
<1> SUFFICES ASSUME QueueInv PROVE Queue!ListMatchesReasons
  OBVIOUS
<1>1. ASSUME item # Queue!NoItem, filters.needsAction PROVE item.codes # {}
  <2>1. PICK q \in Queue!Query, s \in Int, t \in Int :
          /\ s <= t /\ filters = Queue!Filters(q, s)
          /\ Queue!Selects(filters, queueRow) /\ item = Queue!Operations(queueRow, t)
    BY <1>1 DEF QueueInv
  <2>2. filters.now = Queue!Seconds(s) /\ ~ filters.exact
    BY <1>1, <2>1, RequestFilters
  <2>3. Queue!SelectsNeedsAction(queueRow, Queue!Seconds(s))
    BY <1>1, <2>1, <2>2 DEF Queue!Selects
  <2>4. Queue!Seconds(s) \in Int /\ Queue!Seconds(s) <= t
    BY <2>1, WholeSeconds
  <2>5. Queue!Reasons(queueRow, t) # {}
    BY <2>3, <2>4, SelectedHasReason DEF QueueInv
  <2>6. item.codes = {x.code : x \in Queue!Reasons(queueRow, t)}
    BY <2>1 DEF Queue!Operations
  <2> QED BY <2>5, <2>6
<1>2. ASSUME ~ queueRow.archived, queueRow.status \notin Queue!Closed,
             Queue!Reasons(queueRow, queueClock) # {}
      PROVE  Queue!Selects(Queue!Filters(Queue!NeedsAction, queueClock + 2), queueRow)
  <2>1. PICK q : q = Queue!NeedsAction
    OBVIOUS
  <2>2. /\ q \in Queue!Query /\ q.view = "needs_action" /\ q.exact = FALSE /\ q.archived = FALSE
        /\ q.unassigned = FALSE /\ q.badge = "any"
    BY <2>1 DEF Queue!NeedsAction, Queue!Query, Queue!Views, Queue!Badge
  <2>3. queueClock + 2 \in Int /\ queueClock \in Int /\ queueRow \in Queue!Row
    BY DEF QueueInv
  <2>4. PICK f : f = Queue!Filters(q, queueClock + 2)
    OBVIOUS
  <2>5. /\ f.view = q.view /\ f.now = Queue!Seconds(queueClock + 2) /\ f.exact = q.exact
        /\ f.archivedOnly = q.archived /\ f.badge = q.badge
        /\ f.needsAction /\ ~ f.issues /\ f.from = -1 /\ f.to = -1
        /\ f.statuses = Queue!Statuses \ Queue!Closed /\ ~ f.unassigned
    BY <2>2, <2>3, <2>4, RequestFilters
  <2>6. Queue!SelectsNeedsAction(queueRow, f.now)
    <3>1. Queue!Seconds(queueClock + 2) \in Int /\ queueClock < Queue!Seconds(queueClock + 2)
      BY <2>3, WholeSeconds
    <3> QED BY <1>2, <2>3, <2>5, <3>1, ReasonIsSelected
  <2>7. queueRow.archived = FALSE /\ queueRow.status \in Queue!Statuses
    BY <1>2, <2>3 DEF Queue!Row
  <2>8. Queue!Selects(f, queueRow)
    BY <1>2, <2>2, <2>5, <2>6, <2>7 DEF Queue!Selects, Queue!SelectsBadge, Queue!Never
  <2> QED BY <2>1, <2>4, <2>8
<1> QED BY <1>1, <1>2 DEF Queue!ListMatchesReasons

-----------------------------------------------------------------------------
(* The first reason is one of them: a live booking that has a driver has   *)
(* a low rating, a slip to look at, an overdue pickup or a delay.          *)
LEMMA FirstReason ==
  ASSUME NEW r \in Queue!Row, r.assigned, NEW t, NEW found, found = Queue!Reasons(r, t), found # {}
  PROVE  /\ Queue!Primary(found) \in found
         /\ \A x \in found : Queue!Primary(found).priority <= x.priority
         /\ \A x \in found :
              \/ x.code = "LOW_RATING" /\ x.priority = 10 /\ r.lowRated
              \/ x.code = "RECEIPT_REJECTED" /\ x.priority = 20 /\ Queue!ReceiptRejected(r)
              \/ x.code = "PICKUP_OVERDUE_STALLED" /\ x.priority = 40 /\ r.status \in Queue!PrePickup
              \/ x.code = "RECEIPT_REVIEW" /\ x.priority = 120 /\ Queue!ReceiptSubmitted(r)
              \/ x.code = "RECEIPT_MISSING" /\ x.priority = 130 /\ Queue!ReceiptMissing(r)
              \/ x.code = "BOARDING_DELAY" /\ x.priority = 210 /\ r.status = "DRIVER_ARRIVED"
              \/ x.code = "LONG_TRIP" /\ x.priority = 220 /\ r.status = "PICKED_UP"
<1>1. r.status \notin Queue!Waiting /\ ~ Queue!Unassigned(r)
  BY DEF Queue!Row, Queue!Unassigned, Queue!Waiting, Queue!Operating
<1>2. ASSUME NEW x \in found
      PROVE  \/ x.code = "LOW_RATING" /\ x.priority = 10 /\ r.lowRated
             \/ x.code = "RECEIPT_REJECTED" /\ x.priority = 20 /\ Queue!ReceiptRejected(r)
             \/ x.code = "PICKUP_OVERDUE_STALLED" /\ x.priority = 40 /\ r.status \in Queue!PrePickup
             \/ x.code = "RECEIPT_REVIEW" /\ x.priority = 120 /\ Queue!ReceiptSubmitted(r)
             \/ x.code = "RECEIPT_MISSING" /\ x.priority = 130 /\ Queue!ReceiptMissing(r)
             \/ x.code = "BOARDING_DELAY" /\ x.priority = 210 /\ r.status = "DRIVER_ARRIVED"
             \/ x.code = "LONG_TRIP" /\ x.priority = 220 /\ r.status = "PICKED_UP"
  <2>1. x \in Queue!AlarmReasons(r, t) \/ x \in Queue!ReceiptReasons(r) \/ x \in Queue!DelayReasons(r, t)
    BY <1>1, <1>2 DEF Queue!Reasons, Queue!AssignmentReasons
  <2>2. CASE x \in Queue!AlarmReasons(r, t)
    BY <1>1, <2>2 DEF Queue!AlarmReasons, Queue!Reason
  <2>3. CASE x \in Queue!ReceiptReasons(r)
    BY <2>3 DEF Queue!ReceiptReasons, Queue!Reason
  <2>4. CASE x \in Queue!DelayReasons(r, t)
    BY <1>1, <2>4 DEF Queue!DelayReasons, Queue!Reason
  <2> QED BY <2>1, <2>2, <2>3, <2>4
<1>3. \E m \in found : \A x \in found : m.priority <= x.priority
  <2> DEFINE Has(p) == \E x \in found : x.priority = p
  <2>1. \A x \in found : x.priority \in {10, 20, 40, 120, 130, 210, 220}
    BY <1>2
  <2>2. Has(10) \/ Has(20) \/ Has(40) \/ Has(120) \/ Has(130) \/ Has(210) \/ Has(220)
    BY <2>1
  <2>3. CASE Has(10)
    BY <2>1, <2>3
  <2>4. CASE ~ Has(10) /\ Has(20)
    BY <2>1, <2>4
  <2>5. CASE ~ Has(10) /\ ~ Has(20) /\ Has(40)
    BY <2>1, <2>5
  <2>6. CASE ~ Has(10) /\ ~ Has(20) /\ ~ Has(40) /\ Has(120)
    BY <2>1, <2>6
  <2>7. CASE ~ Has(10) /\ ~ Has(20) /\ ~ Has(40) /\ ~ Has(120) /\ Has(130)
    BY <2>1, <2>7
  <2>8. CASE ~ Has(10) /\ ~ Has(20) /\ ~ Has(40) /\ ~ Has(120) /\ ~ Has(130)
    BY <2>1, <2>2, <2>8
  <2> QED BY <2>2, <2>3, <2>4, <2>5, <2>6, <2>7, <2>8
<1>4. Queue!Primary(found) \in found /\ \A x \in found : Queue!Primary(found).priority <= x.priority
  BY <1>3 DEF Queue!Primary
<1> QED BY <1>2, <1>4

(* The button of a live booking is one that its handler accepts.           *)
LEMMA ButtonsWork == QueueInv => Queue!ButtonIsPossible
<1> SUFFICES ASSUME QueueInv, item # Queue!NoItem, queueRow.status \notin Queue!Closed
             PROVE  /\ item.cta = "ASSIGN_DRIVER" <=> queueRow.status \in Queue!Waiting
                    /\ (~queueRow.lowRated) =>
                         (item.cta = "CONFIRM_SETTLEMENT" <=> Queue!ReceiptSubmitted(queueRow))
                    /\ item.cta = "SETTLEMENT_DETAIL" => Queue!Owing(queueRow) /\ queueRow.slip # "attached"
  BY DEF Queue!ButtonIsPossible
<1>1. PICK r \in Queue!Row : r = queueRow
  BY DEF QueueInv
<1>2. PICK t \in Int : item = Queue!Operations(r, t)
  BY <1>1 DEF QueueInv
<1>3. PICK found : found = Queue!Reasons(r, t)
  OBVIOUS
<1>4. item.cta = Queue!PrimaryCta(r, found)
  BY <1>2, <1>3 DEF Queue!Operations
<1>5. /\ r.status \in Queue!Statuses \ Queue!Closed
      /\ r.assigned \in BOOLEAN /\ r.assigned <=> r.status \in Queue!Operating \union {"SETTLEMENT_PENDING"}
      /\ r.status = "SETTLEMENT_PENDING" => r.commission = "DUE"
      /\ r.status \in Queue!Waiting \union Queue!Operating => ~ r.lowRated
      /\ r.slip \in {"none", "attached", "rejected"}
  BY <1>1 DEF Queue!Row, Queue!Operating, Queue!Waiting
<1>6. CASE r.status \in Queue!Waiting
  <2>1. item.cta = "ASSIGN_DRIVER"
    BY <1>4, <1>5, <1>6 DEF Queue!PrimaryCta, Queue!Unassigned, Queue!Waiting, Queue!Operating
  <2>2. ~ Queue!ReceiptSubmitted(r)
    BY <1>6 DEF Queue!ReceiptSubmitted, Queue!Owing, Queue!Waiting
  <2> QED BY <1>1, <1>6, <2>1, <2>2
<1>7. CASE r.status \in Queue!Operating
  <2>1. r.status \notin Queue!Waiting /\ r.assigned /\ ~ r.lowRated
        /\ ~ Queue!Owing(r) /\ r.status # "SETTLEMENT_PENDING"
    BY <1>5, <1>7 DEF Queue!Waiting, Queue!Operating, Queue!Owing
  <2>2. CASE found = {}
    BY <1>1, <1>4, <1>7, <2>1, <2>2 DEF Queue!PrimaryCta, Queue!ReceiptSubmitted
  <2>3. CASE found # {}
    <3>1. PICK x \in found : x = Queue!Primary(found)
      BY <1>3, <2>1, <2>3, FirstReason
    <3>2. x.code \in {"PICKUP_OVERDUE_STALLED", "BOARDING_DELAY", "LONG_TRIP"}
      BY <1>3, <2>1, <2>3, FirstReason
         DEF Queue!ReceiptRejected, Queue!ReceiptSubmitted, Queue!ReceiptMissing
    <3>3. item.cta = "CHECK_STATUS"
      BY <1>4, <2>1, <2>3, <3>1, <3>2 DEF Queue!PrimaryCta, Queue!CtaOf
    <3> QED BY <1>1, <2>1, <3>3 DEF Queue!ReceiptSubmitted
  <2> QED BY <2>2, <2>3
<1>8. CASE r.status = "SETTLEMENT_PENDING"
  <2>1. r.status \notin Queue!Waiting /\ r.assigned /\ Queue!Owing(r)
    BY <1>5, <1>8 DEF Queue!Waiting, Queue!Owing
  <2>2. found # {}
    BY <1>3, <2>1 DEF Queue!Reasons, Queue!AlarmReasons, Queue!ReceiptReasons,
         Queue!ReceiptRejected, Queue!ReceiptSubmitted, Queue!ReceiptMissing
  <2>3. PICK x \in found : x = Queue!Primary(found)
    BY <1>3, <2>1, <2>2, FirstReason
  <2>4. item.cta = Queue!CtaOf(r, x.code)
    BY <1>4, <2>1, <2>2, <2>3 DEF Queue!PrimaryCta
  <2>5. \/ x.code = "LOW_RATING" /\ r.lowRated
        \/ x.code = "RECEIPT_REJECTED" /\ Queue!ReceiptRejected(r)
        \/ x.code = "RECEIPT_REVIEW" /\ Queue!ReceiptSubmitted(r)
        \/ x.code = "RECEIPT_MISSING" /\ Queue!ReceiptMissing(r)
    BY <1>3, <1>8, <2>1, <2>2, FirstReason DEF Queue!PrePickup, Queue!Waiting, Queue!Operating
  <2>6. CASE x.code = "LOW_RATING" /\ r.lowRated
    BY <1>1, <2>1, <2>4, <2>6 DEF Queue!CtaOf
  <2>7. CASE x.code = "RECEIPT_REJECTED" /\ Queue!ReceiptRejected(r)
    BY <1>1, <2>1, <2>4, <2>7 DEF Queue!CtaOf, Queue!ReceiptRejected, Queue!ReceiptSubmitted
  <2>8. CASE x.code = "RECEIPT_REVIEW" /\ Queue!ReceiptSubmitted(r)
    BY <1>1, <2>1, <2>4, <2>8 DEF Queue!CtaOf
  <2>9. CASE x.code = "RECEIPT_MISSING" /\ Queue!ReceiptMissing(r)
    BY <1>1, <2>1, <2>4, <2>9 DEF Queue!CtaOf, Queue!ReceiptMissing, Queue!ReceiptSubmitted
  <2> QED BY <2>5, <2>6, <2>7, <2>8, <2>9
<1> QED BY <1>5, <1>6, <1>7, <1>8 DEF Queue!Statuses

(* A badge's filter shows the bookings that carry the badge.               *)
LEMMA BadgesMatch == QueueInv => Queue!BadgeMatchesFilter
<1> SUFFICES ASSUME QueueInv, item # Queue!NoItem, filters.view = "settlement", ~filters.exact,
                    ~filters.archivedOnly, filters.badge # "any"
             PROVE  item.settlement = filters.badge
  BY DEF Queue!BadgeMatchesFilter
<1>1. PICK q \in Queue!Query, s \in Int, t \in Int :
        /\ s <= t /\ filters = Queue!Filters(q, s)
        /\ Queue!Selects(filters, queueRow) /\ item = Queue!Operations(queueRow, t)
  BY DEF QueueInv
<1>2. filters.statuses \subseteq {"SETTLEMENT_PENDING"} /\ filters.badge \in Queue!Badge
  <2>1. q.view = "settlement" /\ ~ q.exact /\ ~ q.archived /\ filters.badge = q.badge
    BY <1>1, RequestFilters
  <2> QED BY <1>1, <2>1, RequestFilters DEF Queue!Query
<1>3. queueRow.status = "SETTLEMENT_PENDING" /\ Queue!SelectsBadge(queueRow, filters.badge)
  BY <1>1, <1>2 DEF Queue!Selects
<1>4. queueRow.commission = "DUE"
  BY <1>3 DEF QueueInv, Queue!Row
<1>5. item.settlement = Queue!SettlementState(queueRow)
  BY <1>1 DEF Queue!Operations
<1> QED
  BY <1>2, <1>3, <1>4, <1>5
     DEF Queue!SettlementState, Queue!SelectsBadge, Queue!Badge, Queue!ReceiptRejected,
         Queue!ReceiptSubmitted, Queue!Owing

-----------------------------------------------------------------------------
(* The statuses of a job that a driver has.                                *)
Held == {"DRIVER_ASSIGNED"} \union Cards!Underway \union {"SETTLEMENT_PENDING"}

(* The marker that goes with each end of a job, and where it leaves it.    *)
EndedAs(why, reason, status) ==
  \/ why = "RELEASED" /\ reason = "DRIVER_RELEASED_ASSIGNMENT"
  \/ why = "UNASSIGNED" /\ reason = "ADMIN_RELEASED_ASSIGNMENT"
  \/ why = "SUSPENDED" /\ reason = "ADMIN_SUSPENDED_DRIVER_RELEASE"
  \/ why = "REASSIGNED" /\ reason = None
  \/ why = "DONE" /\ reason = None /\ status = "COMPLETED"
  \/ why = "CUSTOMER" /\ reason = "CUSTOMER_CANCELLED" /\ status = "CANCELLED"
  \/ why = "OFFICE" /\ reason = "ADMIN_CANCELLED" /\ status = "CANCELLED"
  \/ why = "NO_SHOW" /\ reason = "ADMIN_NO_SHOW" /\ status = "NO_SHOW"

Ended(d) == link[d].state \in {"CANCELLED", "COMPLETED"}

CardTypes ==
  /\ job \in Cards!Jobs
  /\ link \in [Drivers -> Cards!Links]
  /\ DOMAIN cause = Drivers
  /\ jobClock \in Int

CardInv ==
  /\ CardTypes
  /\ \A d, e \in Drivers : Cards!Active(d) /\ Cards!Active(e) => d = e
  /\ (\E d \in Drivers : Cards!Active(d)) <=> job.status \in Held
  /\ \A d \in Drivers : Cards!Active(d) => link[d].reason = None
  /\ \A d \in Drivers : Ended(d) => EndedAs(cause[d], link[d].reason, job.status)

-----------------------------------------------------------------------------
(* The job is written: its status stays, or moves while a driver has it.   *)
LEMMA JobKeeps ==
  ASSUME CardInv, job' \in Cards!Jobs, UNCHANGED <<link, cause>>, jobClock' \in Int,
         job'.status = job.status \/ (job.status \in Held /\ job'.status \in Held)
  PROVE  CardInv'
<1>1. CardTypes'
  BY DEF CardInv, CardTypes
<1>2. ASSUME NEW d \in Drivers
      PROVE  /\ Cards!Active(d)' <=> Cards!Active(d)
             /\ Ended(d)' <=> Ended(d)
             /\ link'[d] = link[d] /\ cause'[d] = cause[d]
  BY DEF Cards!Active, Ended
<1>3. ASSUME NEW d \in Drivers, Ended(d)
      PROVE  EndedAs(cause[d], link[d].reason, job'.status)
  BY <1>3 DEF CardInv, EndedAs, Held, Cards!Underway
<1> QED BY <1>1, <1>2, <1>3 DEF CardInv

(* A driver gets the job that waits, or another's.                         *)
LEMMA TakenKeeps ==
  ASSUME CardInv, NEW d \in Drivers, link' \in [Drivers -> Cards!Links],
         link'[d].state \in {"ASSIGNED", "ACCEPTED"}, link'[d].reason = None,
         \A e \in Drivers \ {d} :
           /\ ~ Cards!Active(e)'
           /\ \/ link'[e] = link[e] /\ cause'[e] = cause[e]
              \/ cause'[e] = "REASSIGNED" /\ link'[e].reason = None,
         job' \in Cards!Jobs, job'.status \in Held, job.status \in Cards!Waiting \union Held,
         DOMAIN cause' = Drivers, UNCHANGED jobClock
  PROVE  CardInv'
<1>1. CardTypes'
  BY DEF CardInv, CardTypes
<1>2. ASSUME NEW e \in Drivers, Ended(e)'
      PROVE  EndedAs(cause'[e], link'[e].reason, job'.status)
  <2>1. e # d
    BY <1>2 DEF Ended
  <2>2. CASE link'[e] = link[e] /\ cause'[e] = cause[e]
    <3>1. EndedAs(cause[e], link[e].reason, job.status)
      BY <1>2, <2>2 DEF Ended, CardInv
    <3> QED BY <2>2, <3>1 DEF EndedAs, Held, Cards!Underway, Cards!Waiting
  <2>3. CASE cause'[e] = "REASSIGNED" /\ link'[e].reason = None
    BY <2>3 DEF EndedAs
  <2> QED BY <2>1, <2>2, <2>3
<1>3. Cards!Active(d)' /\ \A e \in Drivers : Cards!Active(e)' => e = d
  BY DEF Cards!Active
<1> QED BY <1>1, <1>2, <1>3 DEF CardInv

(* Whoever has the job loses it, and the row says why.                     *)
LEMMA LostKeeps ==
  ASSUME CardInv, link' \in [Drivers -> Cards!Links], NEW why,
         job' \in Cards!Jobs, job'.status \notin Held, job.status \notin Cards!Closed,
         \A e \in Drivers :
           /\ ~ Cards!Active(e)'
           /\ IF Cards!Active(e)
              THEN cause'[e] = why /\ EndedAs(why, link'[e].reason, job'.status)
              ELSE cause'[e] = cause[e] /\ link'[e] = link[e],
         DOMAIN cause' = Drivers, UNCHANGED jobClock
  PROVE  CardInv'
<1>1. CardTypes'
  BY DEF CardInv, CardTypes
<1>2. ASSUME NEW e \in Drivers, Ended(e)'
      PROVE  EndedAs(cause'[e], link'[e].reason, job'.status)
  <2>1. CASE Cards!Active(e)
    BY <2>1
  <2>2. CASE ~ Cards!Active(e)
    <3>1. EndedAs(cause[e], link[e].reason, job.status)
      BY <1>2, <2>2 DEF Ended, CardInv
    <3> QED BY <2>2, <3>1 DEF EndedAs, Cards!Closed
  <2> QED BY <2>1, <2>2
<1> QED BY <1>1, <1>2 DEF CardInv

-----------------------------------------------------------------------------
(* The values that the handlers write.                                     *)
LEMMA CardValues ==
  ASSUME CardInv
  PROVE  /\ \A s \in Cards!Status :
              /\ [job EXCEPT !.status = s] \in Cards!Jobs
              /\ [job EXCEPT !.status = s].status = s
         /\ \A d \in Drivers, s \in {"ASSIGNED", "ACCEPTED", "CANCELLED", "COMPLETED"},
               m \in Cards!Markers \union {None} :
              /\ [state |-> s, reason |-> m] \in Cards!Links
              /\ [link[d] EXCEPT !.state = s] \in Cards!Links
  BY DEF CardInv, CardTypes, Cards!Jobs, Cards!Links

(* Ended(d, ...): the active row of d is ended.                            *)
LEMMA EndKeeps ==
  ASSUME CardInv, NEW d \in Drivers, Cards!Active(d),
         NEW state \in {"CANCELLED", "COMPLETED"}, NEW marker \in Cards!Markers \union {None},
         NEW why, Cards!Ended(d, state, marker, why),
         NEW status \in Cards!Status \ Held, job' = [job EXCEPT !.status = status],
         EndedAs(why, marker, status), UNCHANGED jobClock
  PROVE  CardInv'
<1>0. link[d] \in Cards!Links /\ link[d].reason = None /\ DOMAIN link = Drivers
  BY DEF CardInv, CardTypes
<1>1. PICK r : r = [link[d] EXCEPT !.state = state, !.reason = IF marker = None THEN @ ELSE marker]
  OBVIOUS
<1>2. link' = [link EXCEPT ![d] = r]
  BY <1>0, <1>1 DEF Cards!Ended
<1>3. r \in Cards!Links /\ r.state = state /\ r.reason = marker
  BY <1>0, <1>1 DEF Cards!Links
<1>4. link' \in [Drivers -> Cards!Links] /\ link'[d] = r
      /\ \A e \in Drivers \ {d} : link'[e] = link[e]
  BY <1>2, <1>3 DEF CardInv, CardTypes
<1>5. cause'[d] = why /\ DOMAIN cause' = Drivers /\ \A e \in Drivers \ {d} : cause'[e] = cause[e]
  BY DEF CardInv, CardTypes, Cards!Ended
<1>6. \A e \in Drivers : Cards!Active(e) => e = d
  BY DEF CardInv
<1>7. job.status \in Held
  BY DEF CardInv
<1>8. \A e \in Drivers : ~ Cards!Active(e)'
  BY <1>3, <1>4, <1>6 DEF Cards!Active
<1> QED
  BY <1>3, <1>4, <1>5, <1>6, <1>7, <1>8, CardValues, LostKeeps
     DEF Held, Cards!Underway, Cards!Closed

-----------------------------------------------------------------------------
(* The actions of one driver, one case each.                               *)
LEMMA DriverKeeps ==
  ASSUME CardInv, NEW d \in Drivers, Cards!DriverAction(d)
  PROVE  CardInv'
<1>0. CardTypes
  BY DEF CardInv
<1>1. CASE Cards!Take(d)
  <2>1. PICK r : r = [state |-> "ASSIGNED", reason |-> None]
    OBVIOUS
  <2>2. link' = [link EXCEPT ![d] = r] /\ r \in Cards!Links /\ r.state = "ASSIGNED" /\ r.reason = None
    BY <1>1, <2>1, CardValues DEF Cards!Take
  <2>3. link' \in [Drivers -> Cards!Links] /\ link'[d] = r
        /\ \A e \in Drivers \ {d} : link'[e] = link[e]
    BY <1>0, <2>2 DEF CardTypes
  <2>4. /\ job' \in Cards!Jobs /\ job'.status = "DRIVER_ASSIGNED"
        /\ job.status \in Cards!Waiting /\ UNCHANGED <<cause, jobClock>>
        /\ \A e \in Drivers : ~ Cards!Active(e)
    BY <1>1, CardValues DEF Cards!Take, Cards!Status
  <2>5. \A e \in Drivers \ {d} : ~ Cards!Active(e)'
    BY <2>3, <2>4 DEF Cards!Active
  <2> QED BY <1>0, <2>2, <2>3, <2>4, <2>5, TakenKeeps DEF Held, CardTypes
<1>2. CASE Cards!Accept(d)
  <2>1. PICK r : r = [link[d] EXCEPT !.state = "ACCEPTED"]
    OBVIOUS
  <2>2. Cards!Active(d) /\ job.status = "DRIVER_ASSIGNED" /\ UNCHANGED <<job, cause, jobClock>>
    BY <1>2 DEF Cards!Accept, Cards!CanAccept, Cards!ActiveJob
  <2>3. r \in Cards!Links /\ r.state = "ACCEPTED" /\ r.reason = None
    BY <1>0, <2>1, <2>2, CardValues DEF CardInv, CardTypes, Cards!Links
  <2>4. link' = [link EXCEPT ![d] = r]
    BY <1>2, <2>1 DEF Cards!Accept
  <2>5. link' \in [Drivers -> Cards!Links] /\ link'[d] = r
        /\ \A e \in Drivers \ {d} : link'[e] = link[e]
    BY <1>0, <2>3, <2>4 DEF CardTypes
  <2>6. \A e \in Drivers \ {d} : ~ Cards!Active(e)'
    <3>1. \A e \in Drivers \ {d} : ~ Cards!Active(e)
      BY <2>2 DEF CardInv
    <3> QED BY <2>5, <3>1 DEF Cards!Active
  <2> QED BY <1>0, <2>2, <2>3, <2>5, <2>6, TakenKeeps DEF Held, CardTypes
<1>3. ASSUME NEW r, Cards!Release(d, r) PROVE CardInv'
  <2>1. Cards!Active(d) /\ Cards!Reopen(d, "DRIVER_RELEASED_ASSIGNMENT", "RELEASED")
        /\ UNCHANGED jobClock
    BY <1>3 DEF Cards!Release, Cards!CanRelease, Cards!ActiveJob
  <2> QED BY <2>1, EndKeeps
      DEF Cards!Reopen, Held, EndedAs, Cards!Status, Cards!Waiting, Cards!Underway, Cards!Markers
<1>4. CASE Cards!Unassign(d)
  <2>1. Cards!Active(d) /\ Cards!Reopen(d, "ADMIN_RELEASED_ASSIGNMENT", "UNASSIGNED")
        /\ UNCHANGED jobClock
    BY <1>4 DEF Cards!Unassign, Cards!ActiveJob
  <2> QED BY <2>1, EndKeeps
      DEF Cards!Reopen, Held, EndedAs, Cards!Status, Cards!Waiting, Cards!Underway, Cards!Markers
<1>5. CASE Cards!Suspend(d)
  <2>1. CASE /\ Cards!Active(d) /\ Cards!Reopen(d, "ADMIN_SUSPENDED_DRIVER_RELEASE", "SUSPENDED")
             /\ UNCHANGED jobClock
    BY <2>1, EndKeeps
       DEF Cards!Reopen, Held, EndedAs, Cards!Status, Cards!Waiting, Cards!Underway, Cards!Markers
  <2>2. CASE UNCHANGED <<job, link, cause, jobClock>>
    BY <1>0, <2>2, JobKeeps DEF CardTypes
  <2> QED BY <1>5, <2>1, <2>2 DEF Cards!Suspend, Cards!ActiveJob
<1>6. CASE Cards!Unsuspend(d)
  BY <1>0, <1>6, JobKeeps DEF CardTypes, Cards!Unsuspend
<1>7. ASSUME NEW from \in Held, NEW to \in Held, Cards!TripStep(d, from, to) PROVE CardInv'
  <2>1. job.status \in Held /\ job' = [job EXCEPT !.status = to] /\ to \in Cards!Status
    BY <1>7 DEF Cards!TripStep, Cards!CanStep, Held, Cards!Status
  <2>2. job' \in Cards!Jobs /\ job'.status = to
    BY <2>1, CardValues
  <2> QED BY <1>0, <1>7, <2>1, <2>2, JobKeeps DEF CardTypes, Cards!TripStep
<1>8. CASE Cards!StartOnRoute(d) \/ Cards!MarkArrived(d) \/ Cards!MarkPickedUp(d)
  BY <1>7, <1>8 DEF Cards!StartOnRoute, Cards!MarkArrived, Cards!MarkPickedUp, Held, Cards!Underway
<1>9. ASSUME Cards!Active(d), Cards!Completed(d), UNCHANGED jobClock PROVE CardInv'
  BY <1>9, EndKeeps
     DEF Cards!Completed, Held, EndedAs, Cards!Status, Cards!Closed, Cards!Underway, Cards!Markers
<1>10. ASSUME Cards!Active(d), Cards!TripEnds(d) PROVE CardInv'
  <2>1. CASE Cards!Completed(d)
    BY <1>9, <1>10, <2>1 DEF Cards!TripEnds
  <2>2. CASE job' = [job EXCEPT !.status = "SETTLEMENT_PENDING"] /\ UNCHANGED <<link, cause, jobClock>>
    <3>1. job.status \in Held
      BY <1>10 DEF CardInv
    <3>2. job' \in Cards!Jobs /\ job'.status = "SETTLEMENT_PENDING"
      BY <2>2, CardValues DEF Cards!Status
    <3> QED BY <1>0, <2>2, <3>1, <3>2, JobKeeps DEF CardTypes, Held
  <2> QED BY <1>10, <2>1, <2>2 DEF Cards!TripEnds
<1>11. CASE Cards!EndTrip(d) \/ Cards!CompleteActiveTrip(d)
  BY <1>10, <1>11 DEF Cards!EndTrip, Cards!CompleteActiveTrip, Cards!CanStep, Cards!ActiveJob
<1>12. CASE Cards!Settle(d)
  BY <1>9, <1>12 DEF Cards!Settle, Cards!ActiveJob
<1>13. ASSUME NEW e \in Drivers, Cards!Reassign(d, e) PROVE CardInv'
  <2>1. PICK r : r = [state |-> "ASSIGNED", reason |-> None]
    OBVIOUS
  <2>2. PICK q : q = [link[d] EXCEPT !.state = "CANCELLED"]
    OBVIOUS
  <2>3. /\ Cards!Active(d) /\ e # d /\ UNCHANGED <<job, jobClock>>
        /\ cause' = [cause EXCEPT ![d] = "REASSIGNED"]
    BY <1>13 DEF Cards!Reassign, Cards!ActiveJob
  <2>4. r \in Cards!Links /\ r.state = "ASSIGNED" /\ r.reason = None
    BY <2>1, CardValues
  <2>5. q \in Cards!Links /\ q.state = "CANCELLED" /\ q.reason = None
    BY <1>0, <2>2, <2>3, CardValues DEF CardInv, CardTypes, Cards!Links
  <2>6. link' = [link EXCEPT ![d] = q, ![e] = r]
    BY <1>13, <2>1, <2>2, <2>3 DEF Cards!Reassign
  <2>7. link' \in [Drivers -> Cards!Links] /\ link'[d] = q /\ link'[e] = r
        /\ \A k \in Drivers \ {d, e} : link'[k] = link[k]
    BY <1>0, <2>3, <2>4, <2>5, <2>6 DEF CardTypes
  <2>8. cause'[d] = "REASSIGNED" /\ DOMAIN cause' = Drivers
        /\ \A k \in Drivers \ {d} : cause'[k] = cause[k]
    BY <1>0, <2>3 DEF CardTypes
  <2>9. job.status \in Held /\ \A k \in Drivers : Cards!Active(k) => k = d
    BY <2>3 DEF CardInv
  <2>10. \A k \in Drivers \ {e} : ~ Cards!Active(k)'
    BY <2>5, <2>7, <2>9 DEF Cards!Active
  <2> QED BY <1>0, <2>3, <2>4, <2>5, <2>7, <2>8, <2>9, <2>10, TakenKeeps DEF CardTypes
<1> QED
  BY <1>1, <1>2, <1>3, <1>4, <1>5, <1>6, <1>8, <1>11, <1>12, <1>13 DEF Cards!DriverAction

(* The booking is closed by the customer or by the office.                 *)
LEMMA CloseKeeps ==
  ASSUME CardInv, NEW status \in Cards!Closed, NEW marker \in Cards!Markers, NEW why,
         Cards!CloseWith(status, marker, why), job.status \notin Cards!Closed,
         EndedAs(why, marker, status)
  PROVE  CardInv'
<1>0. CardTypes
  BY DEF CardInv
<1>1. PICK r : r = [state |-> "CANCELLED", reason |-> marker]
  OBVIOUS
<1>2. /\ link' = [d \in Drivers |-> IF Cards!Active(d) THEN r ELSE link[d]]
      /\ cause' = [d \in Drivers |-> IF Cards!Active(d) THEN why ELSE cause[d]]
      /\ job' = [job EXCEPT !.status = status] /\ UNCHANGED jobClock
  BY <1>1 DEF Cards!CloseWith
<1>3. r \in Cards!Links /\ r.state = "CANCELLED" /\ r.reason = marker
  BY <1>1 DEF Cards!Links
<1>4. /\ link' \in [Drivers -> Cards!Links] /\ DOMAIN cause' = Drivers
      /\ \A d \in Drivers : IF Cards!Active(d) THEN link'[d] = r /\ cause'[d] = why
                           ELSE link'[d] = link[d] /\ cause'[d] = cause[d]
  BY <1>0, <1>2, <1>3 DEF CardTypes
<1>5. \A d \in Drivers : ~ Cards!Active(d)'
  BY <1>3, <1>4 DEF Cards!Active
<1>6. job' \in Cards!Jobs /\ job'.status = status
  BY <1>2, CardValues DEF Cards!Status
<1> QED
  BY <1>2, <1>3, <1>4, <1>5, <1>6, LostKeeps DEF Held, Cards!Underway, Cards!Closed

LEMMA CardInitially == Cards!Init => CardInv
<1> SUFFICES ASSUME Cards!Init PROVE CardInv
  OBVIOUS
<1>1. job \in Cards!Jobs /\ job.status = "OPEN" /\ link \in [Drivers -> Cards!Links]
      /\ \A d \in Drivers : link[d].state = "NONE"
  BY DEF Cards!Init, Cards!Jobs, Cards!Status, Cards!Waiting, Cards!Links, Cards!NoLink
<1> QED
  BY <1>1 DEF Cards!Init, CardInv, CardTypes, Cards!Active, Ended, Held, Cards!Underway

(* Every step keeps the invariant of the cards: one case per action.       *)
LEMMA CardKeeps ==
  ASSUME CardInv, [Cards!Next]_jobState
  PROVE  CardInv'
<1>0. CardTypes
  BY DEF CardInv
<1>1. ASSUME job' \in Cards!Jobs, job'.status = job.status, UNCHANGED <<link, suspended, cause>>,
             jobClock' \in Int
      PROVE  CardInv'
  BY <1>1, JobKeeps
<1>2. CASE UNCHANGED jobState
  BY <1>0, <1>1, <1>2 DEF CardTypes, jobState
<1>3. CASE Cards!CancelByCustomer
  BY <1>3, CloseKeeps
     DEF Cards!CancelByCustomer, Cards!Closed, Cards!Waiting, Cards!Markers, EndedAs
<1>4. CASE Cards!CancelByOffice
  BY <1>4, CloseKeeps DEF Cards!CancelByOffice, Cards!Closed, Cards!Markers, EndedAs
<1>5. CASE Cards!NoShow
  BY <1>5, CloseKeeps DEF Cards!NoShow, Cards!Closed, Cards!Markers, EndedAs
<1>6. ASSUME NEW a \in BOOLEAN, Cards!Archive(a) PROVE CardInv'
  <2>1. [job EXCEPT !.archived = a] \in Cards!Jobs
    BY <1>0 DEF CardTypes, Cards!Jobs
  <2> QED BY <1>0, <1>1, <1>6, <2>1 DEF CardTypes, Cards!Archive, Cards!Jobs
<1>7. ASSUME NEW p \in JobPickups, Cards!EditPickup(p) PROVE CardInv'
  <2>1. [job EXCEPT !.pickup = p] \in Cards!Jobs
    BY <1>0 DEF CardTypes, Cards!Jobs
  <2> QED BY <1>0, <1>1, <1>7, <2>1 DEF CardTypes, Cards!EditPickup, Cards!Jobs
<1>8. ASSUME NEW s \in Arrivals \union {None}, NEW e \in Arrivals \union {None},
             Cards!SyncFlight(s, e)
      PROVE  CardInv'
  <2>1. [job EXCEPT !.scheduled = s, !.estimated = e] \in Cards!Jobs
    BY <1>0 DEF CardTypes, Cards!Jobs
  <2> QED BY <1>0, <1>1, <1>8, <2>1 DEF CardTypes, Cards!SyncFlight, Cards!Jobs
<1>9. CASE Cards!Tick
  BY <1>0, <1>1, <1>9 DEF CardTypes, Cards!Tick
<1> QED
  BY <1>2, <1>3, <1>4, <1>5, <1>6, <1>7, <1>8, <1>9, DriverKeeps DEF Cards!Next

-----------------------------------------------------------------------------
(* What a card offers is accepted.                                         *)
LEMMA CardsOffer == CardInv => Cards!OfferedActionsWork
<1> SUFFICES ASSUME CardInv, NEW d \in Drivers \ suspended, Cards!ActiveJob(d)
             PROVE  LET offered == Cards!AllowedActions(d)
                        card == Cards!Evaluate(d, None)
                    IN  /\ "ACCEPT_BOOKING" \in offered <=> Cards!CanAccept(d)
                        /\ "RELEASE_ASSIGNMENT" \in offered
                              <=> \E r \in Cards!Emergencies : Cards!CanRelease(d, r)
                        /\ "START_ON_ROUTE" \in offered => Cards!CanStep(d, "DRIVER_ASSIGNED")
                        /\ "MARK_ARRIVED" \in offered <=> Cards!CanStep(d, "ON_ROUTE")
                        /\ "MARK_PICKED_UP" \in offered <=> Cards!CanStep(d, "DRIVER_ARRIVED")
                        /\ "END_TRIP" \in offered <=> Cards!CanStep(d, "PICKED_UP")
                        /\ \A r \in Cards!OtherReasons : Cards!CanRelease(d, r) <=> card.available
                        /\ \A r \in Cards!Emergencies :
                             Cards!CanRelease(d, r) <=> card.available \/ card.emergencyOnly
                        /\ card.emergencyOnly => card.priority = "CRITICAL"
                        /\ card.available => card.priority # "CRITICAL"
                        /\ Cards!Listed(d)
  BY DEF Cards!OfferedActionsWork
<1>1. Cards!Active(d) /\ job.status \in Held /\ job.pickup \in Int /\ jobClock \in Int
  BY CardAssumption DEF CardInv, CardTypes, Cards!ActiveJob, Cards!Jobs
<1>2. /\ "ACCEPT_BOOKING" \in Cards!AllowedActions(d) <=> Cards!CanAccept(d)
      /\ "RELEASE_ASSIGNMENT" \in Cards!AllowedActions(d) <=> job.status = "DRIVER_ASSIGNED"
      /\ "START_ON_ROUTE" \in Cards!AllowedActions(d) => Cards!CanStep(d, "DRIVER_ASSIGNED")
      /\ "MARK_ARRIVED" \in Cards!AllowedActions(d) <=> Cards!CanStep(d, "ON_ROUTE")
      /\ "MARK_PICKED_UP" \in Cards!AllowedActions(d) <=> Cards!CanStep(d, "DRIVER_ARRIVED")
      /\ "END_TRIP" \in Cards!AllowedActions(d) <=> Cards!CanStep(d, "PICKED_UP")
  BY <1>1 DEF Cards!AllowedActions, Cards!CanConfirmStandby, Cards!CanAccept, Cards!CanStep
<1>3. /\ \A r : Cards!CanRelease(d, r) <=>
            /\ job.status = "DRIVER_ASSIGNED"
            /\ r \in IF Cards!WithinTwoHours THEN Cards!Emergencies
                     ELSE Cards!Emergencies \union Cards!OtherReasons \union {None}
      /\ Cards!Evaluate(d, None).available <=> job.status = "DRIVER_ASSIGNED" /\ ~ Cards!WithinTwoHours
      /\ Cards!Evaluate(d, None).emergencyOnly <=> job.status = "DRIVER_ASSIGNED" /\ Cards!WithinTwoHours
      /\ Cards!Evaluate(d, None).priority = Cards!Priority
  BY <1>1, CardAssumption DEF Cards!CanRelease, Cards!Evaluate
<1>4. Cards!Priority = "CRITICAL" <=> Cards!WithinTwoHours
  BY <1>1 DEF Cards!Priority, Cards!WithinTwoHours, Cards!Remaining, Cards!ReleaseWindow
<1>5. Cards!Listed(d)
  BY <1>1 DEF Cards!Listed, Held, Cards!Underway, Cards!Closed
<1>6. "ACCIDENT" \in Cards!Emergencies /\ Cards!OtherReasons \intersect Cards!Emergencies = {}
  BY DEF Cards!Emergencies, Cards!OtherReasons
<1> QED BY <1>2, <1>3, <1>4, <1>5, <1>6

(* Who lost a job is told how.                                             *)
LEMMA CardsTell == CardInv => Cards!ToldWhy
<1> SUFFICES ASSUME CardInv, NEW d \in Drivers, ~ Cards!HasCard(d), link[d].state # "NONE",
                    ~ Cards!Active(d)
             PROVE  LET told == Cards!Answer(d)
                    IN  /\ told = "REASSIGNED_TO_ANOTHER_DRIVER" <=> Cards!OtherHolds(d)
                        /\ told = "CUSTOMER_CANCELLED" <=> cause[d] = "CUSTOMER"
                        /\ told = "ADMIN_RELEASED" <=> cause[d] = "UNASSIGNED" /\ ~ Cards!OtherHolds(d)
                        /\ cause[d] = "OFFICE" => told = "ADMIN_CANCELLED"
                        /\ told = "ADMIN_CANCELLED" => job.status = "CANCELLED"
                        /\ told = "TRIP_COMPLETED" => job.status \in {"COMPLETED", "NO_SHOW"}
                        /\ told = "DRIVER_RELEASED" =>
                             \/ cause[d] = "RELEASED"
                             \/ cause[d] \in {"SUSPENDED", "REASSIGNED"} /\ job.status \in Cards!Waiting
                        /\ told # "NO_ACTIVE_ASSIGNMENT"
  BY DEF Cards!ToldWhy
<1>1. /\ job.status \in Cards!Status /\ link[d] \in Cards!Links
      /\ Cards!OtherHolds(d) <=> job.status \in Held
  BY DEF CardInv, CardTypes, Cards!Jobs, Cards!OtherHolds
<1>2. EndedAs(cause[d], link[d].reason, job.status)
  BY <1>1 DEF CardInv, Ended, Cards!Active, Cards!Links
<1>3. Cards!Answer(d) = Cards!AssignmentEnded(d)
  BY DEF Cards!Answer
<1>4. CASE job.status \in Held
  BY <1>1, <1>2, <1>3, <1>4 DEF Cards!AssignmentEnded, EndedAs, Held, Cards!Underway
<1>5. CASE job.status \notin Held
  <2> DEFINE marked == Cards!ReasonOfMarker(link[d].reason)
  <2>1. Cards!Answer(d) = IF marked # None THEN marked ELSE Cards!ReasonOfStatus
    BY <1>1, <1>3, <1>5 DEF Cards!AssignmentEnded
  <2>2. job.status \in Cards!Waiting \union Cards!Closed
    BY <1>1, <1>5 DEF Cards!Status, Held
  <2> QED
    BY <1>1, <1>2, <1>5, <2>1, <2>2, CardAssumption
       DEF EndedAs, Cards!ReasonOfMarker, Cards!ReasonOfStatus, Cards!Markers,
           Cards!Waiting, Cards!Closed
<1> QED BY <1>4, <1>5

-----------------------------------------------------------------------------
(* The inductive invariants of the queue and of the card.                  *)
THEOREM ScreenInvariance == OfficeSpec => [](QueueInv /\ CardInv)
<1>1. OfficeInit => QueueInv /\ CardInv
  BY QueueInitially, CardInitially DEF OfficeInit
<1>2. QueueInv /\ [OfficeNext]_officeVars => QueueInv'
  <2>1. QueueInv /\ UNCHANGED queueState => QueueInv'
    BY QueueKeeps
  <2> QED
    BY <2>1, QueueKeeps DEF OfficeNext, CallStep, QueueStep, FlightStep, PriceStep, JobStep, officeVars
<1>3. CardInv /\ [OfficeNext]_officeVars => CardInv'
  <2>1. CardInv /\ UNCHANGED jobState => CardInv'
    BY CardKeeps
  <2> QED
    BY <2>1, CardKeeps DEF OfficeNext, CallStep, QueueStep, FlightStep, PriceStep, JobStep, officeVars
<1> QED BY <1>1, <1>2, <1>3, PTL DEF OfficeSpec

(* What the office and a driver are shown is what the handlers accept: the *)
(* queue's lists have reasons and its buttons work, a card's offers are    *)
(* taken, and who lost a job is told how.                                  *)
THEOREM ScreensAlwaysAgree == OfficeSpec => []ScreensAgree
<1>1. QueueInv /\ CardInv => ScreensAgree
  BY ListHasReasons, ButtonsWork, BadgesMatch, CardsOffer, CardsTell DEF ScreensAgree
<1> QED BY <1>1, ScreenInvariance, PTL

-----------------------------------------------------------------------------
(* Prices.  What is computed one policy or one item after the other is the *)
(* last value of a function on 0..N; that there is one, of the right type, *)
(* and only one, is by counting up.                                        *)
LEMMA LeastNumber ==
  ASSUME NEW T \in SUBSET Nat, T # {}
  PROVE  \E n \in T : \A m \in T : n <= m
<1> DEFINE R == OpToRel(<, Nat)
<1>1. \A m, n \in Nat : m < n => <<m, n>> \in R
  BY Z3 DEF OpToRel
<1>2. IsWellFoundedOn(R, Nat)
  BY NatLessThanWellFounded, Zenon
<1> HIDE DEF R
<1>3. PICK n \in T : \A m \in T : <<m, n>> \notin R
  BY <1>2, WFMin, Zenon
<1>4. \A m \in T : m \in Nat /\ n \in Nat /\ ~(m < n)
  BY <1>1, <1>3
<1> QED BY <1>4

(* Natural induction, of a set.                                            *)
LEMMA CountUp ==
  ASSUME NEW T \in SUBSET Nat, 0 \in T, \A n \in T : n + 1 \in T
  PROVE  T = Nat
<1> SUFFICES ASSUME Nat \ T # {}
             PROVE  FALSE
  OBVIOUS
<1>1. PICK n \in Nat \ T : \A m \in Nat \ T : n <= m
  BY LeastNumber, Zenon
<1>2. n # 0 /\ n - 1 \in Nat
  BY <1>1
<1>3. n - 1 \in T
  BY <1>1, <1>2
<1> QED BY <1>1, <1>2, <1>3

(* Step by step from b, by G.                                              *)
Steps(g, N, b, G) == g[0] = b /\ \A n \in 1..N : g[n] = G[<<n, g[n - 1]>>]

LEMMA StepsExist ==
  ASSUME NEW V, NEW N \in Nat, NEW b \in V, NEW G \in [(1..N) \X V -> V]
  PROVE  \E g \in [0..N -> V] : Steps(g, N, b, G)
<1> DEFINE T == {n \in Nat : n <= N => \E g \in [0..n -> V] : Steps(g, n, b, G)}
<1>1. 0 \in T
  <2>1. [i \in 0..0 |-> b] \in [0..0 -> V] /\ Steps([i \in 0..0 |-> b], 0, b, G)
    BY DEF Steps
  <2> QED BY <2>1
<1>2. ASSUME NEW n \in T
      PROVE  n + 1 \in T
  <2> SUFFICES ASSUME n + 1 <= N
               PROVE  \E g \in [0..n + 1 -> V] : Steps(g, n + 1, b, G)
    OBVIOUS
  <2>1. PICK g \in [0..n -> V] : Steps(g, n, b, G)
    OBVIOUS
  <2> DEFINE h == [i \in 0..n + 1 |-> IF i = n + 1 THEN G[<<n + 1, g[n]>>] ELSE g[i]]
  <2>2. g[n] \in V /\ <<n + 1, g[n]>> \in (1..N) \X V
    OBVIOUS
  <2>3. h \in [0..n + 1 -> V]
    <3>1. \A i \in 0..n + 1 : i # n + 1 => i \in 0..n
      OBVIOUS
    <3> QED BY <2>2, <3>1
  <2>4. \A i \in 1..n + 1 : h[i] = G[<<i, h[i - 1]>>]
    <3> SUFFICES ASSUME NEW i \in 1..n + 1
                 PROVE  h[i] = G[<<i, h[i - 1]>>]
      OBVIOUS
    <3>1. i - 1 \in 0..n /\ h[i - 1] = g[i - 1]
      OBVIOUS
    <3>2. CASE i = n + 1
      <4>1. h[i] = G[<<n + 1, g[n]>>] /\ i - 1 = n
        BY <3>2
      <4> HIDE DEF h
      <4> QED BY <3>1, <3>2, <4>1
    <3>3. CASE i # n + 1
      <4>1. i \in 1..n /\ h[i] = g[i]
        BY <3>3
      <4> QED BY <4>1, <3>1, <2>1 DEF Steps
    <3> QED BY <3>2, <3>3
  <2>5. h[0] = b
    BY <2>1 DEF Steps
  <2> HIDE DEF h
  <2> QED BY <2>3, <2>4, <2>5 DEF Steps
<1>3. T = Nat
  <2> HIDE DEF T
  <2>1. T \in SUBSET Nat
    BY DEF T
  <2> QED BY <2>1, <1>1, <1>2, CountUp
<1> QED BY <1>3

(* Two functions that take the same steps are the same.                    *)
SameSteps(N, f, g) ==
  f[0] = g[0] /\ \A n \in 1..N : f[n - 1] = g[n - 1] => f[n] = g[n]

LEMMA StepsAgree ==
  ASSUME NEW N \in Nat, NEW f, NEW g, SameSteps(N, f, g)
  PROVE  \A n \in 0..N : f[n] = g[n]
<1> DEFINE T == {n \in Nat : n <= N => f[n] = g[n]}
<1>1. 0 \in T
  BY DEF SameSteps
<1>2. \A n \in T : n + 1 \in T
  <2> SUFFICES ASSUME NEW n \in T, n + 1 <= N
               PROVE  f[n + 1] = g[n + 1]
    OBVIOUS
  <2>1. n + 1 \in 1..N /\ (n + 1) - 1 = n /\ f[n] = g[n]
    OBVIOUS
  <2> QED BY <2>1 DEF SameSteps
<1>3. T = Nat
  <2> HIDE DEF T
  <2>1. T \in SUBSET Nat
    BY DEF T
  <2> QED BY <2>1, <1>1, <1>2, CountUp
<1> QED BY <1>3

-----------------------------------------------------------------------------
(* What items cost together.                                               *)
Sums(s, items) ==
  /\ s \in [0..Len(items) -> Nat] /\ s[0] = 0
  /\ \A n \in 1..Len(items) : s[n] = s[n - 1] + items[n].amount

(* Total is the last of the sums.                                          *)
LEMMA TotalIs ==
  ASSUME NEW items \in Seq(Prices!Items)
  PROVE  \E s : Sums(s, items) /\ Prices!Total(items) = s[Len(items)]
<1> DEFINE N == Len(items)
           Def(s) == s = [n \in 0..N |-> IF n = 0 THEN 0 ELSE s[n - 1] + items[n].amount]
           sum == CHOOSE s : Def(s)
           G == [p \in (1..N) \X Nat |-> p[2] + items[p[1]].amount]
<1>1. N \in Nat /\ \A n \in 1..N : items[n].amount \in Nat
  <2>1. N \in Nat /\ \A n \in 1..N : items[n] \in Prices!Items
    OBVIOUS
  <2>2. \A i \in Prices!Items : i.amount \in Nat
    BY DEF Prices!Items
  <2> QED BY <2>1, <2>2
<1>2. G \in [(1..N) \X Nat -> Nat]
  BY <1>1
<1>3. PICK g \in [0..N -> Nat] : Steps(g, N, 0, G)
  <2> HIDE DEF G, N
  <2> QED BY <1>1, <1>2, StepsExist
<1>4. \A n \in 1..N : g[n] = g[n - 1] + items[n].amount
  <2> SUFFICES ASSUME NEW n \in 1..N
               PROVE  g[n] = g[n - 1] + items[n].amount
    OBVIOUS
  <2>1. n - 1 \in 0..N
    BY <1>1
  <2>2. <<n, g[n - 1]>> \in (1..N) \X Nat
    BY <2>1
  <2> QED BY <1>3, <2>2 DEF Steps
<1>5. Def(g)
  BY <1>1, <1>3, <1>4 DEF Steps
<1>6. Def(sum)
  <2> HIDE DEF Def
  <2> QED BY <1>5, Zenon
<1>7. /\ sum[0] = 0 /\ \A n \in 1..N : sum[n] = sum[n - 1] + items[n].amount
      /\ DOMAIN sum = 0..N
  <2>1. PICK t : t = sum
    OBVIOUS
  <2>2. t = [n \in 0..N |-> IF n = 0 THEN 0 ELSE t[n - 1] + items[n].amount]
    BY <1>6, <2>1
  <2> HIDE DEF sum
  <2>3. t[0] = 0 /\ (\A n \in 1..N : t[n] = t[n - 1] + items[n].amount) /\ DOMAIN t = 0..N
    BY <1>1, <2>2
  <2> QED BY <2>1, <2>3
<1>8. \A n \in 0..N : sum[n] = g[n]
  <2> HIDE DEF sum, Def
  <2>1. sum[0] = g[0]
    BY <1>3, <1>7 DEF Steps
  <2>2. \A n \in 1..N : sum[n - 1] = g[n - 1] => sum[n] = g[n]
    BY <1>4, <1>7
  <2> HIDE DEF N
  <2>3. SameSteps(N, sum, g)
    BY <2>1, <2>2 DEF SameSteps
  <2> QED BY <1>1, <2>3, StepsAgree
<1>9. Prices!Total(items) = sum[N]
  BY DEF Prices!Total
<1> HIDE DEF sum
<1>10. Sums(g, items) /\ Prices!Total(items) = g[N]
  BY <1>1, <1>3, <1>4, <1>8, <1>9 DEF Sums, Steps
<1> QED BY <1>10

LEMMA TotalType ==
  ASSUME NEW items \in Seq(Prices!Items)
  PROVE  Prices!Total(items) \in Nat
<1>1. PICK s : Sums(s, items) /\ Prices!Total(items) = s[Len(items)]
  BY TotalIs
<1> QED BY <1>1 DEF Sums

(* One item more costs its amount more.                                    *)
LEMMA TotalAppend ==
  ASSUME NEW items \in Seq(Prices!Items), NEW x \in Prices!Items
  PROVE  /\ Append(items, x) \in Seq(Prices!Items)
         /\ Prices!Total(Append(items, x)) = Prices!Total(items) + x.amount
<1> DEFINE more == Append(items, x)
           N == Len(items)
<1>1. /\ more \in Seq(Prices!Items) /\ N \in Nat /\ Len(more) = N + 1
      /\ more[N + 1] = x /\ \A n \in 1..N : more[n] = items[n]
  OBVIOUS
<1>2. PICK s : Sums(s, items) /\ Prices!Total(items) = s[N]
  BY TotalIs
<1>3. PICK t : Sums(t, more) /\ Prices!Total(more) = t[N + 1]
  <2> HIDE DEF more
  <2> QED BY <1>1, TotalIs
<1>4. \A n \in 0..N : t[n] = s[n]
  <2> HIDE DEF more
  <2>1. t[0] = s[0]
    BY <1>2, <1>3 DEF Sums
  <2>2. N \in Nat /\ \A n \in 1..N : t[n - 1] = s[n - 1] => t[n] = s[n]
    BY <1>1, <1>2, <1>3 DEF Sums
  <2> HIDE DEF N
  <2>3. SameSteps(N, t, s)
    BY <2>1, <2>2 DEF SameSteps
  <2> QED BY <2>2, <2>3, StepsAgree
<1>5. t[N + 1] = t[N] + x.amount
  <2> HIDE DEF more
  <2>1. N + 1 \in 1..Len(more) /\ (N + 1) - 1 = N
    BY <1>1
  <2> QED BY <1>1, <1>3, <2>1 DEF Sums
<1> QED BY <1>1, <1>2, <1>3, <1>4, <1>5

-----------------------------------------------------------------------------
(* What a quote is made of.                                                *)

(* Rounding: to a natural number, and a multiple to its factor.            *)
LEMMA RoundedType ==
  ASSUME NEW a \in Nat, NEW n \in Nat \ {0}
  PROVE  Prices!Rounded(a, n) \in Nat
<1> DEFINE m == 2 * n
           b == 2 * a + n
<1>1. b \in Nat /\ m \in Nat /\ m > 0
  OBVIOUS
<1>2. b \div m \in Nat
  <2> HIDE DEF b, m
  <2> QED BY <1>1
<1> QED BY <1>2 DEF Prices!Rounded

LEMMA RoundedExact ==
  ASSUME NEW d \in Nat, NEW n \in Nat \ {0}
  PROVE  Prices!Rounded(d * n, n) = d
<1>1. 2 * (d * n) + n = (2 * n) * d + n
  OBVIOUS
<1> DEFINE m == 2 * n
<1>2. m \in Nat /\ 0 <= n /\ n < m
  OBVIOUS
<1>3. (m * d + n) \div m = d
  <2> HIDE DEF m
  <2> QED BY <1>2
<1> QED BY <1>1, <1>3 DEF Prices!Rounded

LEMMA Product ==
  ASSUME NEW a \in Nat, NEW b \in Nat
  PROVE  a * b \in Nat /\ a * b = b * a
  OBVIOUS

(* The catalogue's rows have their types.                                  *)
PriceTypes ==
  /\ DOMAIN routes \subseteq RouteKeys \cup NewKeys
  /\ DOMAIN prices \subseteq DOMAIN routes
  /\ \A k \in DOMAIN prices : prices[k] \in Prices!Price
  /\ policies \in Seq(Prices!Policy)

(* Items that the trigger takes, at least one.                             *)
Storable == {s \in Seq(Prices!Items) :
               s # <<>> /\ \A i \in DOMAIN s : Prices!TriggerAccepts(s[i])}

LEMMA AppendStorable ==
  ASSUME NEW s \in Storable, NEW x \in Prices!Items, Prices!TriggerAccepts(x)
  PROVE  Append(s, x) \in Storable
<1>1. s \in Seq(Prices!Items) /\ \A i \in DOMAIN s : Prices!TriggerAccepts(s[i])
  BY DEF Storable
<1>2. /\ Append(s, x) \in Seq(Prices!Items) /\ Append(s, x) # <<>>
      /\ \A i \in DOMAIN Append(s, x) : \/ i \in DOMAIN s /\ Append(s, x)[i] = s[i]
                                        \/ Append(s, x)[i] = x
  BY <1>1
<1> QED BY <1>1, <1>2 DEF Storable

(* The base price of a priced route, an added fare or a band.              *)
LEMMA BaseStorable ==
  ASSUME NEW c \in Nat, NEW p \in Nat, NEW ref \in Prices!Refs,
         ref = None \/ /\ ref[1] = "VEHICLE_PRICE"
                       /\ prices[ref[2]].state = "active"
  PROVE  Prices!Base(c, p, ref) \in Storable
<1> DEFINE x == Prices!Item("VEHICLE_BASE", c, p, p * c, ref)
<1>1. p * c \in Nat /\ p * c = c * p
  BY Product
<1>2. x \in Prices!Items
  BY <1>1 DEF Prices!Item, Prices!Items, Prices!ItemTypes
<1>3. Prices!TriggerAccepts(x)
  BY <1>1 DEF Prices!Item, Prices!TriggerAccepts
<1> HIDE DEF x
<1>4. <<x>> \in Seq(Prices!Items) /\ <<x>> # <<>> /\ \A i \in DOMAIN <<x>> : <<x>>[i] = x
  BY <1>2
<1>5. <<x>> \in Storable
  BY <1>3, <1>4 DEF Storable
<1> QED BY <1>5 DEF x, Prices!Base

(* A policy adds an item that refers to it, if it adds any.                *)
LEMMA ChargedStorable ==
  ASSUME PriceTypes, NEW s \in Storable, NEW i \in 1..Len(policies), NEW base \in Nat,
         NEW nameSign, NEW time
  PROVE  Prices!Charged(s, i, base, nameSign, time) \in Storable
<1> DEFINE p == policies[i]
           sub == Prices!Total(s)
           amount == Prices!PolicyAmount(p, base, sub)
           x == Prices!Item(p.type, 1, amount, amount, <<"CHARGE_POLICY", i>>)
<1>1. p \in Prices!Policy /\ i \in Nat
  BY DEF PriceTypes
<1>2. sub \in Nat
  BY TotalType DEF Storable
<1>3. /\ p.type \in Prices!PolicyTypes /\ p.amount \in Nat
      /\ p.calculation \in {"FIXED", "PERCENT_OF_BASE", "PERCENT_OF_SUBTOTAL"}
  BY <1>1 DEF Prices!Policy
<1>4. amount \in Nat
  <2>1. base * p.amount \in Nat /\ sub * p.amount \in Nat
    BY <1>2, <1>3, Product
  <2>2. \A a \in Nat : Prices!Rounded(a, 100) \in Nat
    BY RoundedType
  <2> HIDE DEF p, sub
  <2> QED BY <1>3, <2>1, <2>2 DEF Prices!PolicyAmount
<1>5. x \in Prices!Items
  <2>1. <<"CHARGE_POLICY", i>> \in Prices!Refs
    BY <1>1 DEF Prices!Refs
  <2> HIDE DEF p, amount
  <2> QED BY <1>3, <1>4, <2>1 DEF Prices!Item, Prices!Items, Prices!ItemTypes
<1>6. CASE Prices!ShouldApply(p, nameSign, time) /\ amount # 0
  <2>1. x.ref = <<"CHARGE_POLICY", i>> /\ x.amount = x.quantity * x.unit
    <3> HIDE DEF amount
    <3> QED BY <1>4 DEF Prices!Item
  <2>2. policies[x.ref[2]].state = "active" /\ x.ref[1] = "CHARGE_POLICY"
    <3> HIDE DEF amount
    <3> QED BY <1>6, <2>1 DEF Prices!ShouldApply
  <2>3. Prices!TriggerAccepts(x)
    <3> HIDE DEF x
    <3> QED BY <2>1, <2>2 DEF Prices!TriggerAccepts
  <2>4. Append(s, x) \in Storable
    <3> HIDE DEF x
    <3> QED BY <1>5, <2>3, AppendStorable
  <2> QED BY <1>6, <2>4 DEF Prices!Charged
<1>7. CASE ~(Prices!ShouldApply(p, nameSign, time) /\ amount # 0)
  BY <1>7 DEF Prices!Charged
<1> QED BY <1>6, <1>7

(* With the policies' items a quote is as storable as without.             *)
LEMMA PoliciesStorable ==
  ASSUME PriceTypes, NEW items \in Storable, NEW nameSign, NEW time
  PROVE  Prices!WithPolicies(items, nameSign, time) \in Storable
<1> DEFINE N == Len(policies)
           base == Prices!Total(items)
           Def(s) == s = [n \in 0..N |-> IF n = 0 THEN items
                                         ELSE Prices!Charged(s[n - 1], n, base, nameSign, time)]
           charged == CHOOSE s : Def(s)
           G == [p \in (1..N) \X Storable |-> Prices!Charged(p[2], p[1], base, nameSign, time)]
<1>1. N \in Nat /\ base \in Nat
  BY TotalType DEF PriceTypes, Storable
<1>2. G \in [(1..N) \X Storable -> Storable]
  <2> HIDE DEF base
  <2>1. \A p \in (1..N) \X Storable :
          Prices!Charged(p[2], p[1], base, nameSign, time) \in Storable
    BY <1>1, ChargedStorable
  <2> QED BY <2>1
<1>3. PICK g \in [0..N -> Storable] : Steps(g, N, items, G)
  <2> HIDE DEF G, N
  <2> QED BY <1>1, <1>2, StepsExist
<1>4. \A n \in 1..N : g[n] = Prices!Charged(g[n - 1], n, base, nameSign, time)
  <2> SUFFICES ASSUME NEW n \in 1..N
               PROVE  g[n] = Prices!Charged(g[n - 1], n, base, nameSign, time)
    OBVIOUS
  <2> HIDE DEF base
  <2>1. n - 1 \in 0..N
    BY <1>1
  <2>2. <<n, g[n - 1]>> \in (1..N) \X Storable
    BY <2>1
  <2>3. G[<<n, g[n - 1]>>] = Prices!Charged(g[n - 1], n, base, nameSign, time)
    BY <2>2
  <2> HIDE DEF G
  <2> QED BY <1>3, <2>3 DEF Steps
<1>5. Def(g)
  <2> HIDE DEF base, N
  <2>1. g[0] = items /\ g = [n \in 0..N |-> g[n]]
    BY <1>3 DEF Steps
  <2>2. \A n \in 0..N : g[n] = IF n = 0 THEN items
                               ELSE Prices!Charged(g[n - 1], n, base, nameSign, time)
    BY <1>1, <1>4, <2>1
  <2> QED BY <2>1, <2>2
<1>6. Def(charged)
  <2> HIDE DEF Def
  <2> QED BY <1>5, Zenon
<1>7. /\ charged[0] = items
      /\ \A n \in 1..N : charged[n] = Prices!Charged(charged[n - 1], n, base, nameSign, time)
  <2>1. PICK t : t = charged
    OBVIOUS
  <2>2. t = [n \in 0..N |-> IF n = 0 THEN items
                            ELSE Prices!Charged(t[n - 1], n, base, nameSign, time)]
    BY <1>6, <2>1
  <2> HIDE DEF charged, base, N
  <2>3. t[0] = items /\ (\A n \in 1..N : t[n] = Prices!Charged(t[n - 1], n, base, nameSign, time))
    BY <1>1, <2>2
  <2> QED BY <2>1, <2>3
<1>8. charged[N] = g[N]
  <2> HIDE DEF charged, Def, base
  <2>1. charged[0] = g[0]
    BY <1>3, <1>7 DEF Steps
  <2>2. N \in Nat /\ \A n \in 1..N : charged[n - 1] = g[n - 1] => charged[n] = g[n]
    BY <1>1, <1>4, <1>7
  <2> HIDE DEF N
  <2>3. SameSteps(N, charged, g)
    BY <2>1, <2>2 DEF SameSteps
  <2>4. \A n \in 0..N : charged[n] = g[n]
    BY <2>2, <2>3, StepsAgree
  <2> QED BY <2>2, <2>4
<1>9. Prices!WithPolicies(items, nameSign, time) = charged[N]
  BY DEF Prices!WithPolicies
<1> HIDE DEF charged
<1> QED BY <1>1, <1>3, <1>8, <1>9

(* A quote of one route's price: the base with the policies' items, which  *)
(* the place does not change, and perhaps a surcharge for the distance.    *)
RouteItems(k, r) ==
  Prices!WithPolicies(Prices!Base(r.count, prices[k].amount, <<"VEHICLE_PRICE", k>>),
                      r.nameSign, r.time)

(* The surcharge of the route k's quote that was reached by the mode.      *)
Surcharge(mode, k, r) ==
  CASE mode = "route" -> Prices!DistanceAdjustment(k, r.fromAt, r.toAt, r.count)
    [] mode = "reference" -> Prices!DistanceAdjustment(k, r.fromAt, r.toAt, 1)
    [] OTHER -> 0

(* The request's own route.                                                *)
OwnKey(r) == [service |-> r.service, from |-> r.from, to |-> r.to]
Own(r) == Prices!Active(OwnKey(r)) /\ Prices!Priced(OwnKey(r), r)

LEMMA RouteItemsStorable ==
  ASSUME PriceTypes, NEW r \in Prices!Request, NEW k, Prices!Priced(k, r)
  PROVE  RouteItems(k, r) \in Storable /\ k \in DOMAIN routes
<1>1. /\ k \in DOMAIN prices /\ k \in DOMAIN routes /\ k \in RouteKeys \cup NewKeys
      /\ prices[k] \in Prices!Price /\ prices[k].state = "active"
  BY DEF Prices!Priced, PriceTypes
<1>2. prices[k].amount \in Nat
  BY <1>1 DEF Prices!Price
<1>3. r.count \in Nat
  BY PriceAssumption DEF Prices!Request
<1> DEFINE ref == <<"VEHICLE_PRICE", k>>
<1>4. ref \in Prices!Refs /\ ref[1] = "VEHICLE_PRICE" /\ prices[ref[2]].state = "active"
  BY <1>1 DEF Prices!Refs
<1>5. Prices!Base(r.count, prices[k].amount, ref) \in Storable
  <2> HIDE DEF ref
  <2> QED BY <1>2, <1>3, <1>4, BaseStorable
<1> QED BY <1>1, <1>5, PoliciesStorable DEF RouteItems

(* computeQuote finds a price or none.                                     *)
LEMMA Computed ==
  ASSUME PriceTypes, NEW r \in Prices!Request, NEW k
  PROVE  /\ Prices!Priced(k, r) =>
              /\ Prices!ComputeQuote(k, r) = Prices!Quote("route", k, RouteItems(k, r))
              /\ ~Prices!Refused(Prices!ComputeQuote(k, r))
         /\ ~Prices!Priced(k, r) => Prices!Refused(Prices!ComputeQuote(k, r))
<1>1. ASSUME Prices!Priced(k, r)
      PROVE  /\ Prices!ComputeQuote(k, r) = Prices!Quote("route", k, RouteItems(k, r))
             /\ ~Prices!Refused(Prices!ComputeQuote(k, r))
  <2>1. Prices!ComputeQuote(k, r) = Prices!Quote("route", k, RouteItems(k, r))
    BY <1>1 DEF Prices!ComputeQuote, RouteItems
  <2>2. RouteItems(k, r) # <<>>
    BY <1>1, RouteItemsStorable DEF Storable
  <2> QED BY <2>1, <2>2 DEF Prices!Quote, Prices!Refused
<1>2. ASSUME ~Prices!Priced(k, r)
      PROVE  Prices!Refused(Prices!ComputeQuote(k, r))
  BY <1>2 DEF Prices!ComputeQuote, Prices!NotFound, Prices!Quote, Prices!Refused
<1> QED BY <1>1, <1>2

(* The kilometres between two places, and what those beyond the route's    *)
(* are charged.                                                            *)
LEMMA Adjustment ==
  ASSUME NEW k \in RouteKeys \cup NewKeys, NEW f \in Places, NEW t \in Places,
         NEW c \in Nat
  PROVE  /\ Prices!Km(f, t) \in Nat
         /\ Prices!DistanceSteps(Prices!Excess(k, f, t)) \in Nat
         /\ Prices!DistanceAdjustment(k, f, t, c) \in Nat
<1>1. f \in Int /\ t \in Int /\ Locations[k.from] \in Int /\ Locations[k.to] \in Int
  BY PriceAssumption
<1>2. \A a, b \in Int : Prices!Km(a, b) \in Nat
  BY DEF Prices!Km
<1>3. Prices!Excess(k, f, t) \in Nat
  <2> DEFINE a == Prices!Km(f, t)
             b == Prices!Km(Locations[k.from], Locations[k.to])
  <2>1. a \in Nat /\ b \in Nat
    BY <1>1, <1>2
  <2>2. Prices!Excess(k, f, t) = IF a - b > 0 THEN a - b ELSE 0
    BY DEF Prices!Excess
  <2> HIDE DEF a, b
  <2> QED BY <2>1, <2>2
<1>4. \A e \in Nat : Prices!DistanceSteps(e) \in Nat
  BY DEF Prices!DistanceSteps, Prices!IncludedKm, Prices!StepKm
<1>5. \A n \in Nat : n * 10000 \in Nat
  OBVIOUS
<1>6. \A n \in Nat : n * c \in Nat
  BY Product
<1> QED BY <1>1, <1>2, <1>3, <1>4, <1>5, <1>6 DEF Prices!DistanceAdjustment, Prices!StepPrice

(* What applyDistanceAdjustment adds.                                      *)
LEMMA Adjusted ==
  ASSUME NEW mode, NEW route, NEW items \in Storable, NEW amount \in Nat, NEW c \in Nat \ {0}
  PROVE  LET with == Prices!WithDistance(Prices!Quote(mode, route, items), amount, c)
         IN  /\ with.mode = mode /\ with.route = route
             /\ with.items \in Seq(Prices!Items) /\ with.items # <<>>
             /\ Prices!Total(with.items) = Prices!Total(items) + amount
             /\ (\E n \in Nat : amount = n * c) => with.items \in Storable
<1> DEFINE q == [mode |-> mode, route |-> route, items |-> items]
           with == Prices!WithDistance(Prices!Quote(mode, route, items), amount, c)
           x == Prices!Item("DISTANCE_SURCHARGE", c, Prices!Rounded(amount, c), amount, None)
<1>1. items \in Seq(Prices!Items) /\ items # <<>> /\ Prices!Total(items) \in Nat
  BY TotalType DEF Storable
<1>2. Prices!Rounded(amount, c) \in Nat
  BY RoundedType
<1>3. x \in Prices!Items /\ x.amount = amount
  BY <1>2 DEF Prices!Item, Prices!Items, Prices!ItemTypes, Prices!Refs
<1>4. ASSUME NEW n \in Nat, amount = n * c
      PROVE  Prices!TriggerAccepts(x)
  <2>1. Prices!Rounded(amount, c) = n /\ amount = c * n
    BY <1>4, RoundedExact, Product
  <2> QED BY <2>1 DEF Prices!Item, Prices!TriggerAccepts
<1> HIDE DEF x
<1>5. CASE amount = 0
  <2>1. with = q
    BY <1>5 DEF Prices!WithDistance, Prices!Quote
  <2> HIDE DEF with
  <2> QED BY <1>1, <1>5, <2>1 DEF with
<1>6. CASE amount # 0
  <2>1. with = [q EXCEPT !.items = Append(@, x)]
    BY <1>6 DEF Prices!WithDistance, Prices!Quote, x
  <2>3. with.mode = mode /\ with.route = route /\ with.items = Append(items, x)
    <3> HIDE DEF with
    <3> QED BY <2>1
  <2>4. /\ Append(items, x) \in Seq(Prices!Items) /\ Append(items, x) # <<>>
        /\ Prices!Total(Append(items, x)) = Prices!Total(items) + amount
    BY <1>1, <1>3, TotalAppend
  <2>5. (\E n \in Nat : amount = n * c) => Append(items, x) \in Storable
    BY <1>3, <1>4, AppendStorable
  <2> HIDE DEF with
  <2> QED BY <2>3, <2>4, <2>5 DEF with
<1> QED BY <1>5, <1>6

(* A quote of a route, with the surcharge that its mode asks for.          *)
RouteForm(q, r) ==
  /\ q.items \in Seq(Prices!Items) /\ q.items # <<>>
  /\ q.items \in Storable \/ (q.mode = "reference" /\ r.count > 1)
  /\ Prices!Priced(q.route, r)
  /\ Prices!HasPlaces(r) =>
       Prices!Total(q.items) = Prices!Total(RouteItems(q.route, r)) + Surcharge(q.mode, q.route, r)

(* A quote of no route: a band or a fare added for two regions.            *)
FareForm(q) == q.route = None /\ q.items \in Storable

LEMMA RequestFields ==
  ASSUME NEW r \in Prices!Request
  PROVE  /\ r.count \in Nat \ {0}
         /\ Prices!HasPlaces(r) => r.fromAt \in Places /\ r.toAt \in Places
BY PriceAssumption DEF Prices!Request, Prices!HasPlaces

(* The route between the two places, when it is active and priced.         *)
LEMMA RouteQuoted ==
  ASSUME PriceTypes, NEW r \in Prices!Request
  PROVE  LET q == Prices!RouteQuote(r)
         IN  /\ Own(r) => /\ ~Prices!Refused(q) /\ RouteForm(q, r)
                          /\ q.mode = "route" /\ q.route = OwnKey(r)
             /\ ~Own(r) => Prices!Refused(q)
<1> DEFINE q == Prices!RouteQuote(r)
           k == OwnKey(r)
           base == Prices!ComputeQuote(k, r)
           amount == IF Prices!HasPlaces(r)
                     THEN Prices!DistanceAdjustment(k, r.fromAt, r.toAt, r.count) ELSE 0
<1>1. CASE Own(r)
  <2>1. /\ base = Prices!Quote("route", k, RouteItems(k, r)) /\ ~Prices!Refused(base)
        /\ RouteItems(k, r) \in Storable /\ k \in DOMAIN routes
    BY <1>1, Computed, RouteItemsStorable DEF Own
  <2>2. base.mode = "route" /\ base.route = k /\ base.items = RouteItems(k, r)
    <3> HIDE DEF k
    <3> QED BY <2>1 DEF Prices!Quote
  <2>3. q = Prices!WithDistance(base, amount, r.count)
    BY <1>1, <2>1 DEF Prices!RouteQuote, Own, OwnKey
  <2>4. amount \in Nat /\ \E n \in Nat : amount = n * r.count
    <3>1. CASE Prices!HasPlaces(r)
      <4> DEFINE n == Prices!DistanceSteps(Prices!Excess(k, r.fromAt, r.toAt))
      <4>1. k \in RouteKeys \cup NewKeys /\ r.count \in Nat
        BY <2>1, RequestFields DEF PriceTypes
      <4>2. n \in Nat /\ amount \in Nat
        <5> HIDE DEF k
        <5> QED BY <3>1, <4>1, RequestFields, Adjustment
      <4>3. n * 10000 \in Nat
        <5> HIDE DEF n
        <5> QED BY <4>2
      <4>4. amount = (n * 10000) * r.count
        BY <3>1 DEF Prices!DistanceAdjustment, Prices!StepPrice
      <4> HIDE DEF n, k, amount
      <4> QED BY <4>2, <4>3, <4>4
    <3>2. CASE ~Prices!HasPlaces(r)
      <4>1. amount = 0 /\ r.count \in Nat
        BY <3>2, RequestFields
      <4>2. 0 = 0 * r.count
        BY <4>1
      <4> QED BY <4>1, <4>2
    <3> QED BY <3>1, <3>2
  <2>5. /\ q.mode = "route" /\ q.route = k
        /\ q.items \in Seq(Prices!Items) /\ q.items # <<>> /\ q.items \in Storable
        /\ Prices!Total(q.items) = Prices!Total(RouteItems(k, r)) + amount
    <3> HIDE DEF base, amount, k, q
    <3> DEFINE c == r.count
               items == RouteItems(k, r)
               mode == "route"
    <3>1. q = Prices!WithDistance(Prices!Quote(mode, k, items), amount, c)
      BY <2>1, <2>3
    <3>2. c \in Nat \ {0} /\ items \in Storable
      BY <2>1, RequestFields
    <3>3. amount \in Nat /\ \E n \in Nat : amount = n * c
      BY <2>4
    <3> DEFINE with == Prices!WithDistance(Prices!Quote(mode, k, items), amount, c)
    <3> HIDE DEF c, items, mode
    <3>4. /\ with.mode = mode /\ with.route = k
          /\ with.items \in Seq(Prices!Items) /\ with.items # <<>>
          /\ Prices!Total(with.items) = Prices!Total(items) + amount
          /\ (\E n \in Nat : amount = n * c) => with.items \in Storable
      BY <3>2, <3>3, Adjusted, Zenon
    <3>5. /\ q.mode = mode /\ q.route = k
          /\ q.items \in Seq(Prices!Items) /\ q.items # <<>> /\ q.items \in Storable
          /\ Prices!Total(q.items) = Prices!Total(items) + amount
      BY <3>1, <3>3, <3>4
    <3> QED BY <3>5 DEF c, items, mode
  <2>6. Prices!HasPlaces(r) => amount = Surcharge("route", k, r)
    BY DEF Surcharge
  <2> HIDE DEF q, k, amount
  <2>7. RouteForm(q, r)
    BY <1>1, <2>5, <2>6 DEF RouteForm, Own, k
  <2> QED BY <1>1, <2>5, <2>7 DEF q, k, Prices!Refused
<1>2. CASE ~Own(r)
  <2>1. q = Prices!NotFound
    BY <1>2, Computed DEF Own, OwnKey, Prices!RouteQuote
  <2> HIDE DEF q
  <2>2. Prices!Refused(q)
    BY <2>1 DEF Prices!NotFound, Prices!Quote, Prices!Refused
  <2> QED BY <1>2, <2>2 DEF q
<1> QED BY <1>1, <1>2

(* The usable routes have a nearest one.                                   *)
LEMMA NearestExists ==
  ASSUME NEW S, S # {}, S \subseteq RouteKeys \cup NewKeys, NEW f \in Places, NEW t \in Places
  PROVE  \E k \in S : \A l \in S : Prices!Deviation(k, f, t) <= Prices!Deviation(l, f, t)
<1> DEFINE T == {Prices!Deviation(k, f, t) : k \in S}
<1>1. T \in SUBSET Nat
  <2>1. \A k \in S : Locations[k.from] \in Int /\ Locations[k.to] \in Int
    BY PriceAssumption
  <2>2. \A a, b \in Int : Prices!Km(a, b) \in Nat
    BY DEF Prices!Km
  <2>3. \A k \in S : Prices!Deviation(k, f, t) \in Nat
    BY <2>1, <2>2, PriceAssumption DEF Prices!Deviation
  <2> QED BY <2>3
<1>2. PICK n \in T : \A m \in T : n <= m
  <2>1. T # {}
    OBVIOUS
  <2> HIDE DEF T
  <2> QED BY <1>1, <2>1, LeastNumber
<1> QED BY <1>2

(* The nearest route, with the surcharge of one vehicle.                   *)
LEMMA ReferenceQuoted ==
  ASSUME PriceTypes, NEW r \in Prices!Request, ~Prices!Refused(Prices!ReferenceQuote(r))
  PROVE  LET q == Prices!ReferenceQuote(r)
         IN  RouteForm(q, r) /\ q.mode = "reference" /\ q.route.service = r.service
<1> DEFINE q == Prices!ReferenceQuote(r)
           usable == {k \in DOMAIN routes :
                        /\ k.service = r.service /\ Prices!Active(k)
                        /\ Prices!EffectiveAt(routes[k], r.time) /\ Prices!Priced(k, r)}
           Nearest(k) == \A l \in usable :
                           Prices!Deviation(k, r.fromAt, r.toAt) <= Prices!Deviation(l, r.fromAt, r.toAt)
           k == CHOOSE k \in usable : Nearest(k)
           base == [Prices!ComputeQuote(k, r) EXCEPT !.mode = "reference"]
           amount == Prices!DistanceAdjustment(k, r.fromAt, r.toAt, 1)
<1>1. Prices!HasPlaces(r) /\ usable # {} /\ q = Prices!WithDistance(base, amount, r.count)
  <2>1. Prices!Refused(Prices!NotFound)
    BY DEF Prices!NotFound, Prices!Quote, Prices!Refused
  <2> QED BY <2>1 DEF Prices!ReferenceQuote
<1>2. k \in usable
  <2>1. usable \subseteq RouteKeys \cup NewKeys
    BY DEF PriceTypes
  <2>2. \E l \in usable : Nearest(l)
    <3> HIDE DEF usable
    <3> QED BY <1>1, <2>1, RequestFields, NearestExists
  <2> HIDE DEF usable, Nearest
  <2> QED BY <2>2
<1>3. k \in RouteKeys \cup NewKeys /\ k.service = r.service /\ Prices!Priced(k, r)
  <2> HIDE DEF k
  <2> QED BY <1>2 DEF PriceTypes
<1> HIDE DEF k
<1>4. base = Prices!Quote("reference", k, RouteItems(k, r)) /\ RouteItems(k, r) \in Storable
  <2>1. Prices!ComputeQuote(k, r) = [mode |-> "route", route |-> k, items |-> RouteItems(k, r)]
    BY <1>3, Computed DEF Prices!Quote
  <2>2. base = [mode |-> "reference", route |-> k, items |-> RouteItems(k, r)]
    BY <2>1
  <2>3. RouteItems(k, r) \in Storable
    BY <1>3, RouteItemsStorable
  <2> HIDE DEF base
  <2> QED BY <2>2, <2>3 DEF Prices!Quote
<1>5. amount \in Nat
  BY <1>1, <1>3, RequestFields, Adjustment
<1>6. r.count = 1 => \E n \in Nat : amount = n * r.count
  <2> HIDE DEF amount
  <2>1. amount = amount * 1
    BY <1>5
  <2> QED BY <1>5, <2>1
<1>7. /\ q.mode = "reference" /\ q.route = k
      /\ q.items \in Seq(Prices!Items) /\ q.items # <<>>
      /\ Prices!Total(q.items) = Prices!Total(RouteItems(k, r)) + amount
      /\ r.count = 1 => q.items \in Storable
  <2> HIDE DEF base, amount, q, usable
  <2>1. q = Prices!WithDistance(Prices!Quote("reference", k, RouteItems(k, r)), amount, r.count)
    BY <1>1, <1>4
  <2> DEFINE c == r.count
             items == RouteItems(k, r)
  <2>2. c \in Nat \ {0} /\ items \in Storable
    BY <1>4, RequestFields
  <2>3. q = Prices!WithDistance(Prices!Quote("reference", k, items), amount, c)
    BY <2>1
  <2> HIDE DEF c, items
  <2>4. /\ q.mode = "reference" /\ q.route = k
        /\ q.items \in Seq(Prices!Items) /\ q.items # <<>>
        /\ Prices!Total(q.items) = Prices!Total(items) + amount
        /\ (\E n \in Nat : amount = n * c) => q.items \in Storable
    BY <1>5, <2>2, <2>3, Adjusted
  <2> QED BY <1>6, <2>4 DEF c, items
<1>8. r.count = 1 \/ r.count > 1
  BY RequestFields
<1>9. amount = Surcharge("reference", k, r)
  BY DEF Surcharge
<1> HIDE DEF q, amount
<1>10. RouteForm(q, r)
  BY <1>3, <1>7, <1>8, <1>9 DEF RouteForm
<1> QED BY <1>3, <1>7, <1>10 DEF q

(* The distance bands, and legacyCalculate over all of these.              *)
LEMMA BandQuoted ==
  ASSUME PriceTypes, NEW r \in Prices!Request, ~Prices!Refused(Prices!BandQuote(r))
  PROVE  FareForm(Prices!BandQuote(r))
<1> DEFINE matching == {b \in Prices!Bands :
                          /\ Prices!HasPlaces(r) /\ b.min <= Prices!Km(r.fromAt, r.toAt)
                          /\ Prices!Km(r.fromAt, r.toAt) <= b.max}
           band == CHOOSE b \in matching : TRUE
           items == Prices!WithPolicies(Prices!Base(r.count, band.amount, None), r.nameSign, r.time)
<1>1. matching # {} /\ Prices!BandQuote(r) = Prices!Quote("band", None, items)
  <2>1. Prices!Refused(Prices!Inquiry)
    BY DEF Prices!Inquiry, Prices!Quote, Prices!Refused
  <2> QED BY <2>1 DEF Prices!BandQuote
<1>2. band \in Prices!Bands
  BY <1>1
<1>3. band.amount \in Nat /\ r.count \in Nat
  <2> HIDE DEF band
  <2> QED BY <1>2, RequestFields DEF Prices!Bands
<1>4. items \in Storable
  <2> HIDE DEF band
  <2>1. Prices!Base(r.count, band.amount, None) \in Storable
    BY <1>3, BaseStorable DEF Prices!Refs
  <2> QED BY <2>1, PoliciesStorable
<1> HIDE DEF items, matching, band
<1> QED BY <1>1, <1>4 DEF FareForm, Prices!Quote

LEMMA LegacyQuoted ==
  ASSUME PriceTypes, NEW r \in Prices!Request, ~Prices!Refused(Prices!LegacyQuote(r))
  PROVE  LET q == Prices!LegacyQuote(r)
         IN  \/ FareForm(q)
             \/ /\ RouteForm(q, r) /\ q.route.service = r.service
                /\ q.mode = IF Own(r) THEN "route" ELSE "reference"
<1> DEFINE q == Prices!LegacyQuote(r)
<1>1. Prices!Refused(Prices!NotFound)
  BY DEF Prices!NotFound, Prices!Quote, Prices!Refused
<1>2. CASE q = Prices!RouteQuote(r) /\ ~Prices!Refused(Prices!RouteQuote(r))
  <2>1. /\ Own(r) /\ RouteForm(Prices!RouteQuote(r), r)
        /\ Prices!RouteQuote(r).mode = "route" /\ Prices!RouteQuote(r).route = OwnKey(r)
    BY <1>2, RouteQuoted
  <2>2. OwnKey(r).service = r.service
    BY DEF OwnKey
  <2> HIDE DEF q
  <2> QED BY <1>2, <2>1, <2>2 DEF q
<1>3. CASE /\ q = Prices!ReferenceQuote(r) /\ ~Prices!Refused(Prices!ReferenceQuote(r))
           /\ Prices!Refused(Prices!RouteQuote(r))
  <2>1. ~Own(r)
    BY <1>3, RouteQuoted
  <2>2. /\ RouteForm(Prices!ReferenceQuote(r), r) /\ Prices!ReferenceQuote(r).mode = "reference"
        /\ Prices!ReferenceQuote(r).route.service = r.service
    BY <1>3, ReferenceQuoted
  <2> HIDE DEF q
  <2> QED BY <1>3, <2>1, <2>2 DEF q
<1>4. CASE q = Prices!BandQuote(r) /\ ~Prices!Refused(q)
  BY <1>4, BandQuoted
<1>5. CASE q = Prices!NotFound
  BY <1>1, <1>5
<1> QED BY <1>2, <1>3, <1>4, <1>5 DEF Prices!LegacyQuote

(* The fare of a pair of regions: added, or that of a route.               *)
LEMMA RegionQuoted ==
  ASSUME PriceTypes, NEW r \in Prices!Request, ~Prices!Refused(Prices!RegionQuote(r))
  PROVE  LET q == Prices!RegionQuote(r)
             from == Prices!RegionOf(r.from, r.fromAt)
             to == Prices!RegionOf(r.to, r.toAt)
         IN  \/ FareForm(q)
             \/ /\ RouteForm(q, r) /\ q.mode = "region"
                /\ q.route = Prices!FareKey(from, to, r)
                /\ from # Prices!Unmatched /\ to # Prices!Unmatched
<1> DEFINE q == Prices!RegionQuote(r)
           from == Prices!RegionOf(r.from, r.fromAt)
           to == Prices!RegionOf(r.to, r.toAt)
           added == {f \in RegionFares : f.from = from.fare /\ f.to = to.fare}
           fare == CHOOSE f \in added : TRUE
           key == Prices!FareKey(from, to, r)
           items == Prices!WithPolicies(Prices!Base(r.count, fare.amount, None), r.nameSign, r.time)
<1>1. Prices!Refused(Prices!Inquiry)
  BY DEF Prices!Inquiry, Prices!Quote, Prices!Refused
<1>2. CASE added # {} /\ q = Prices!Quote("region", None, items)
  <2>1. fare \in RegionFares
    BY <1>2
  <2>2. fare.amount \in Nat /\ r.count \in Nat
    <3> HIDE DEF fare
    <3> QED BY <2>1, PriceAssumption, RequestFields
  <2>3. items \in Storable
    <3> HIDE DEF fare
    <3>1. Prices!Base(r.count, fare.amount, None) \in Storable
      BY <2>2, BaseStorable DEF Prices!Refs
    <3> QED BY <3>1, PoliciesStorable
  <2>4. FareForm(q)
    <3> HIDE DEF q, items
    <3> QED BY <1>2, <2>3 DEF FareForm, Prices!Quote
  <2> QED BY <2>4
<1>3. CASE /\ q = [Prices!ComputeQuote(key, r) EXCEPT !.mode = "region"]
           /\ Prices!Priced(key, r) /\ from # Prices!Unmatched /\ to # Prices!Unmatched
  <2> HIDE DEF key, q
  <2>1. Prices!ComputeQuote(key, r) = [mode |-> "route", route |-> key, items |-> RouteItems(key, r)]
    BY <1>3, Computed DEF Prices!Quote
  <2>2. q.mode = "region" /\ q.route = key /\ q.items = RouteItems(key, r)
    BY <1>3, <2>1
  <2>3. RouteItems(key, r) \in Storable
    BY <1>3, RouteItemsStorable
  <2>4. Prices!Total(RouteItems(key, r)) \in Nat /\ RouteItems(key, r) # <<>>
    BY <2>3, TotalType DEF Storable
  <2>5. RouteForm(q, r)
    BY <1>3, <2>2, <2>3, <2>4 DEF RouteForm, Surcharge, Storable
  <2> QED BY <1>3, <2>2, <2>5 DEF key, q
<1>4. \/ q = Prices!Inquiry
      \/ added # {} /\ q = Prices!Quote("region", None, items)
      \/ /\ q = [Prices!ComputeQuote(key, r) EXCEPT !.mode = "region"]
         /\ Prices!Priced(key, r) /\ from # Prices!Unmatched /\ to # Prices!Unmatched
  <2> HIDE DEF key, items
  <2> QED BY DEF Prices!RegionQuote, key, items
<1>5. CASE q = Prices!Inquiry
  BY <1>1, <1>5
<1> QED BY <1>2, <1>3, <1>4, <1>5

(* An airport's code finds the airport's region or none; any other region  *)
(* is found by the place alone.                                            *)
LEMMA RegionFound ==
  ASSUME NEW code, NEW place
  PROVE  /\ code \in Airports => \/ Prices!RegionOf(code, place) = Prices!Unmatched
                                 \/ Prices!RegionOf(code, place).code = code
         /\ code \notin Airports => Prices!RegionOf(code, place) = Prices!RegionOf(None, place)
<1>1. ASSUME code \in Airports, Prices!RegionOf(code, place) # Prices!Unmatched
      PROVE  Prices!RegionOf(code, place).code = code
  <2> DEFINE around == {i \in DOMAIN Regions : Regions[i].code = code}
             First(i) == \A j \in around : i <= j
             i == CHOOSE i \in around : First(i)
  <2>1. /\ around # {} /\ Prices!RegionOf(code, place) = Regions[i]
    BY <1>1 DEF Prices!RegionOf
  <2>2. \E j \in around : First(j)
    <3>1. around \in SUBSET Nat
      BY PriceAssumption
    <3> HIDE DEF around
    <3> QED BY <2>1, <3>1, LeastNumber
  <2>3. i \in around
    <3> HIDE DEF around, First
    <3> QED BY <2>2
  <2> HIDE DEF i
  <2> QED BY <2>1, <2>3
<1>2. ASSUME code \notin Airports
      PROVE  Prices!RegionOf(code, place) = Prices!RegionOf(None, place)
  BY <1>2, PriceAssumption DEF Prices!RegionOf
<1> QED BY <1>1, <1>2

-----------------------------------------------------------------------------
(* The inductive invariant of the catalogue: its rows have their types, a  *)
(* booked request was one of those priced, and its items were stored.      *)
PriceInv ==
  /\ Prices!TypeOK
  /\ Prices!QuoteCanBeBooked

LEMMA PriceRows == PriceInv => PriceTypes
  BY DEF PriceInv, Prices!TypeOK, PriceTypes

(* Of any two rides charged by one route the closer costs no more.         *)
LEMMA CloserCostsNoMore ==
  ASSUME PriceTypes, Prices!ShortWithinRegions,
         NEW r \in Prices!Request, NEW s \in Prices!Request,
         Prices!HasPlaces(r), Prices!HasPlaces(s),
         s.service = r.service, s.from = r.from, s.to = r.to, s.count = r.count,
         s.nameSign = r.nameSign, s.time = r.time,
         Prices!Km(s.fromAt, s.toAt) <= Prices!Km(r.fromAt, r.toAt),
         ~Prices!Refused(Prices!Calculate(r)), ~Prices!Refused(Prices!Calculate(s)),
         Prices!Calculate(r).route # None,
         Prices!Calculate(s).route = Prices!Calculate(r).route
  PROVE  Prices!Total(Prices!Calculate(s).items) <= Prices!Total(Prices!Calculate(r).items)
<1> DEFINE mine == Prices!Calculate(r)
           closer == Prices!Calculate(s)
           k == mine.route
           legacy(x) == ~regional \/ (Prices!SameRegion(x) /\ x.service = "CITY_TRANSFER")
           fromOf(x) == Prices!RegionOf(x.from, x.fromAt)
           toOf(x) == Prices!RegionOf(x.to, x.toAt)
<1>1. ASSUME NEW x \in Prices!Request, legacy(x), ~Prices!Refused(Prices!Calculate(x)),
             Prices!Calculate(x).route # None
      PROVE  /\ RouteForm(Prices!Calculate(x), x) /\ Prices!Calculate(x).route.service = x.service
             /\ Prices!Calculate(x).mode = IF Own(x) THEN "route" ELSE "reference"
  <2>1. Prices!Calculate(x) = Prices!LegacyQuote(x)
    BY <1>1 DEF Prices!Calculate
  <2> QED BY <1>1, <2>1, LegacyQuoted DEF FareForm
<1>2. ASSUME NEW x \in Prices!Request, ~legacy(x), ~Prices!Refused(Prices!Calculate(x)),
             Prices!Calculate(x).route # None
      PROVE  /\ RouteForm(Prices!Calculate(x), x) /\ Prices!Calculate(x).mode = "region"
             /\ Prices!Calculate(x).route = Prices!FareKey(fromOf(x), toOf(x), x)
             /\ fromOf(x) # Prices!Unmatched /\ toOf(x) # Prices!Unmatched
  <2>1. Prices!Calculate(x) = Prices!RegionQuote(x)
    BY <1>2 DEF Prices!Calculate
  <2> QED BY <1>2, <2>1, RegionQuoted DEF FareForm
<1>3. /\ mine.mode \in {"route", "reference", "region"} /\ RouteForm(mine, r)
      /\ closer.mode \in {"route", "reference", "region"} /\ RouteForm(closer, s)
  <2> HIDE DEF legacy, fromOf, toOf
  <2> QED BY <1>1, <1>2
<1>4. k \in RouteKeys \cup NewKeys
  <2> HIDE DEF mine, closer
  <2> QED BY <1>3 DEF RouteForm, Prices!Priced, PriceTypes
<1> DEFINE base == Prices!Total(RouteItems(k, r))
<1>5. /\ base \in Nat
      /\ Prices!Total(mine.items) = base + Surcharge(mine.mode, k, r)
      /\ Prices!Total(closer.items) = base + Surcharge(closer.mode, k, s)
  <2>1. RouteItems(k, s) = RouteItems(k, r)
    BY DEF RouteItems
  <2> HIDE DEF mine, closer
  <2>2. RouteItems(k, r) \in Seq(Prices!Items)
    BY <1>3, RouteItemsStorable DEF RouteForm, Storable
  <2>3. closer.route = k
    BY DEF mine, closer
  <2> QED BY <1>3, <2>1, <2>2, <2>3, TotalType DEF RouteForm
<1> DEFINE far == Prices!DistanceSteps(Prices!Excess(k, r.fromAt, r.toAt)) * 10000
           near == Prices!DistanceSteps(Prices!Excess(k, s.fromAt, s.toAt)) * 10000
<1>6. far \in Nat /\ near \in Nat /\ near <= far
  <2> DEFINE a == Prices!Km(r.fromAt, r.toAt)
             b == Prices!Km(s.fromAt, s.toAt)
             c == Prices!Km(Locations[k.from], Locations[k.to])
  <2>1. a \in Nat /\ b \in Nat /\ b <= a /\ c \in Nat
    <3>1. Locations[k.from] \in Int /\ Locations[k.to] \in Int
      BY <1>4, PriceAssumption
    <3>2. r.fromAt \in Int /\ r.toAt \in Int /\ s.fromAt \in Int /\ s.toAt \in Int
      BY RequestFields, PriceAssumption
    <3>3. \A x, y \in Int : Prices!Km(x, y) \in Nat
      BY DEF Prices!Km
    <3> HIDE DEF k
    <3> QED BY <3>1, <3>2, <3>3
  <2>2. /\ Prices!Excess(k, r.fromAt, r.toAt) = IF a - c > 0 THEN a - c ELSE 0
        /\ Prices!Excess(k, s.fromAt, s.toAt) = IF b - c > 0 THEN b - c ELSE 0
    BY DEF Prices!Excess
  <2> HIDE DEF a, b, c, k
  <2>3. \A x, y \in Nat : x <= y => /\ Prices!DistanceSteps(x) \in Nat /\ Prices!DistanceSteps(y) \in Nat
                                   /\ Prices!DistanceSteps(x) <= Prices!DistanceSteps(y)
    BY DEF Prices!DistanceSteps, Prices!IncludedKm, Prices!StepKm
  <2>4. Prices!Excess(k, r.fromAt, r.toAt) \in Nat /\ Prices!Excess(k, s.fromAt, s.toAt) \in Nat
        /\ Prices!Excess(k, s.fromAt, s.toAt) <= Prices!Excess(k, r.fromAt, r.toAt)
    BY <2>1, <2>2
  <2>5. LET x == Prices!DistanceSteps(Prices!Excess(k, s.fromAt, s.toAt))
            y == Prices!DistanceSteps(Prices!Excess(k, r.fromAt, r.toAt))
        IN  x \in Nat /\ y \in Nat /\ x <= y
    BY <2>3, <2>4
  <2> QED BY <2>5
<1>7. /\ Surcharge("route", k, r) = far * r.count /\ Surcharge("route", k, s) = near * r.count
      /\ Surcharge("reference", k, r) = far * 1 /\ Surcharge("reference", k, s) = near * 1
      /\ Surcharge("region", k, r) = 0 /\ Surcharge("region", k, s) = 0
  <2> HIDE DEF k
  <2> QED BY DEF Surcharge, Prices!DistanceAdjustment, Prices!StepPrice
<1>8. r.count \in Nat /\ far * r.count \in Nat /\ near * r.count \in Nat
      /\ near * r.count <= far * r.count
  <2>1. \A a, b, c \in Nat : a <= b => a * c \in Nat /\ b * c \in Nat /\ a * c <= b * c
    OBVIOUS
  <2>2. r.count \in Nat
    BY RequestFields
  <2> HIDE DEF near, far
  <2> QED BY <1>6, <2>1, <2>2
<1>9. Surcharge(closer.mode, k, s) \in Nat /\ Surcharge(mine.mode, k, r) \in Nat
  <2> HIDE DEF k, near, far, mine, closer
  <2> QED BY <1>3, <1>6, <1>7, <1>8
<1>10. Surcharge(closer.mode, k, s) <= Surcharge(mine.mode, k, r)
  <2>1. CASE ~legacy(s)
    <3>1. closer.mode = "region"
      BY <1>2, <2>1
    <3> HIDE DEF k, near, far, mine, closer
    <3> QED BY <3>1, <1>7, <1>9
  <2>2. CASE legacy(s) /\ legacy(r)
    <3>1. Own(s) <=> Own(r)
      BY DEF Own, OwnKey, Prices!Priced
    <3>2. \/ mine.mode = "route" /\ closer.mode = "route"
          \/ mine.mode = "reference" /\ closer.mode = "reference"
      <4> HIDE DEF legacy
      <4> QED BY <1>1, <2>2, <3>1
    <3> HIDE DEF k, near, far, mine, closer, legacy
    <3> QED BY <3>2, <1>6, <1>7, <1>8
  <2>3. CASE legacy(s) /\ ~legacy(r)
    <3>1. regional /\ Prices!SameRegion(s) /\ s.service = "CITY_TRANSFER"
      BY <2>3
    <3>2. /\ k = Prices!FareKey(fromOf(r), toOf(r), r)
          /\ fromOf(r) # Prices!Unmatched /\ toOf(r) # Prices!Unmatched
      <4> HIDE DEF legacy, fromOf, toOf
      <4> QED BY <1>2, <2>3
    <3>3. k.service = "CITY_TRANSFER"
      <4> HIDE DEF legacy
      <4> QED BY <1>1, <2>3, <3>1
    <3>4. fromOf(r).code \notin Airports /\ toOf(r).code \notin Airports
      <4> HIDE DEF k, fromOf, toOf
      <4> QED BY <3>2, <3>3 DEF Prices!FareKey, Prices!RegionalService
    <3>5. r.from \notin Airports /\ r.to \notin Airports
      BY <3>2, <3>4, RegionFound
    <3>6. /\ Prices!RegionOf(None, s.fromAt) # Prices!Unmatched
          /\ Prices!RegionOf(None, s.fromAt) = Prices!RegionOf(None, s.toAt)
      BY <3>1, <3>5, RegionFound DEF Prices!SameRegion
    <3>7. Prices!Km(s.fromAt, s.toAt) <= Prices!Km(Locations[k.from], Locations[k.to]) + 10
      <4> HIDE DEF k
      <4> QED BY <1>4, <3>3, <3>6, RequestFields DEF Prices!ShortWithinRegions, Prices!IncludedKm
    <3>8. near = 0
      <4> DEFINE b == Prices!Km(s.fromAt, s.toAt)
                 c == Prices!Km(Locations[k.from], Locations[k.to])
      <4>1. b \in Nat /\ c \in Nat
        <5>1. Locations[k.from] \in Int /\ Locations[k.to] \in Int
          BY <1>4, PriceAssumption
        <5>2. s.fromAt \in Int /\ s.toAt \in Int
          BY RequestFields, PriceAssumption
        <5>3. \A x, y \in Int : Prices!Km(x, y) \in Nat
          BY DEF Prices!Km
        <5> HIDE DEF k
        <5> QED BY <5>1, <5>2, <5>3
      <4>2. Prices!Excess(k, s.fromAt, s.toAt) = IF b - c > 0 THEN b - c ELSE 0
        BY DEF Prices!Excess
      <4> HIDE DEF b, c, k
      <4>3. Prices!Excess(k, s.fromAt, s.toAt) \in 0..10
        BY <3>7, <4>1, <4>2 DEF b, c
      <4>4. \A e \in 0..10 : Prices!DistanceSteps(e) = 0
        BY DEF Prices!DistanceSteps, Prices!IncludedKm
      <4> QED BY <4>3, <4>4
    <3> HIDE DEF k, near, far, mine, closer, legacy, fromOf, toOf
    <3>9. Surcharge(closer.mode, k, s) = 0
      <4>1. 0 * r.count = 0 /\ 0 * 1 = 0
        BY <1>8
      <4> QED BY <1>3, <1>7, <3>8, <4>1
    <3> QED BY <3>9, <1>9
  <2> QED BY <2>1, <2>2, <2>3
<1> HIDE DEF k, base, mine, closer
<1>11. Prices!Total(closer.items) <= Prices!Total(mine.items)
  BY <1>5, <1>9, <1>10
<1> QED BY <1>11 DEF mine, closer

(* Every quote that is given is one of the three kinds.                    *)
LEMMA Calculated ==
  ASSUME PriceTypes, NEW r \in Prices!Request, ~Prices!Refused(Prices!Calculate(r))
  PROVE  FareForm(Prices!Calculate(r)) \/ RouteForm(Prices!Calculate(r), r)
  BY LegacyQuoted, RegionQuoted DEF Prices!Calculate

(* A refused quote is of no route.                                         *)
LEMMA RouteIsQuoted ==
  ASSUME PriceTypes, NEW r \in Prices!Request, Prices!Calculate(r).route # None
  PROVE  ~Prices!Refused(Prices!Calculate(r))
<1> DEFINE q == Prices!Calculate(r)
<1>1. Prices!NotFound.route = None /\ Prices!Inquiry.route = None
  BY DEF Prices!NotFound, Prices!Inquiry, Prices!Quote
<1>2. CASE q = Prices!LegacyQuote(r)
  <2>1. Prices!BandQuote(r).route = None
    BY <1>1 DEF Prices!BandQuote, Prices!Quote
  <2> HIDE DEF q
  <2>2. q.route # None
    BY DEF q
  <2>3. ~Prices!Refused(q)
    BY <1>1, <1>2, <2>1, <2>2 DEF Prices!LegacyQuote
  <2> QED BY <2>3 DEF q
<1>3. CASE q = Prices!RegionQuote(r)
  <2> DEFINE key == Prices!FareKey(Prices!RegionOf(r.from, r.fromAt), Prices!RegionOf(r.to, r.toAt), r)
             base == Prices!ComputeQuote(key, r)
  <2> HIDE DEF key
  <2>1. \/ q.route = None
        \/ q = [base EXCEPT !.mode = "region"] /\ Prices!Priced(key, r)
    BY <1>1, <1>3 DEF Prices!RegionQuote, Prices!Quote, key
  <2>2. Prices!Priced(key, r) => /\ base = [mode |-> "route", route |-> key, items |-> base.items]
                                /\ base.items # <<>>
    <3>1. Prices!Priced(key, r) => /\ base = [mode |-> "route", route |-> key, items |-> RouteItems(key, r)]
                                  /\ RouteItems(key, r) # <<>>
      BY Computed, RouteItemsStorable DEF Prices!Quote, Storable
    <3> HIDE DEF base
    <3> QED BY <3>1
  <2> HIDE DEF base, q
  <2>3. q.route # None
    BY DEF q
  <2>4. q.items # <<>>
    BY <2>1, <2>2, <2>3
  <2> QED BY <2>4 DEF Prices!Refused, q
<1> QED BY <1>2, <1>3 DEF Prices!Calculate

(* The rows are their columns.                                             *)
LEMMA RowColumns ==
  /\ \A x \in Prices!Route : \E a \in Prices!States, b \in Prices!Periods :
       x = [state |-> a, period |-> b]
  /\ \A x \in Prices!Price : \E a \in Prices!States, b \in Prices!Periods, c \in Nat :
       x = [state |-> a, period |-> b, amount |-> c]
  /\ \A x \in Prices!Policy :
       \E t \in Prices!PolicyTypes, c \in {"FIXED", "PERCENT_OF_BASE", "PERCENT_OF_SUBTOTAL"},
          a \in Nat, s \in Prices!States, p \in Prices!Periods :
         x = [type |-> t, calculation |-> c, amount |-> a, state |-> s, period |-> p]
<1>1. \A x \in Prices!Route : x = [state |-> x.state, period |-> x.period]
                                /\ x.state \in Prices!States /\ x.period \in Prices!Periods
  BY DEF Prices!Route
<1>2. \A x \in Prices!Price :
        /\ x = [state |-> x.state, period |-> x.period, amount |-> x.amount]
        /\ x.state \in Prices!States /\ x.period \in Prices!Periods /\ x.amount \in Nat
  BY DEF Prices!Price
<1>3. \A x \in Prices!Policy :
        /\ x = [type |-> x.type, calculation |-> x.calculation, amount |-> x.amount,
                state |-> x.state, period |-> x.period]
        /\ x.type \in Prices!PolicyTypes /\ x.amount \in Nat
        /\ x.calculation \in {"FIXED", "PERCENT_OF_BASE", "PERCENT_OF_SUBTOTAL"}
        /\ x.state \in Prices!States /\ x.period \in Prices!Periods
  BY DEF Prices!Policy
<1>4. \A x \in Prices!Route : \E a \in Prices!States, b \in Prices!Periods :
        x = [state |-> a, period |-> b]
  BY <1>1
<1>5. \A x \in Prices!Price : \E a \in Prices!States, b \in Prices!Periods, c \in Nat :
        x = [state |-> a, period |-> b, amount |-> c]
  BY <1>2
<1>6. ASSUME NEW x \in Prices!Policy
      PROVE  \E t \in Prices!PolicyTypes, c \in {"FIXED", "PERCENT_OF_BASE", "PERCENT_OF_SUBTOTAL"},
                a \in Nat, s \in Prices!States, p \in Prices!Periods :
               x = [type |-> t, calculation |-> c, amount |-> a, state |-> s, period |-> p]
  <2>1. /\ x = [type |-> x.type, calculation |-> x.calculation, amount |-> x.amount,
                state |-> x.state, period |-> x.period]
        /\ x.type \in Prices!PolicyTypes /\ x.amount \in Nat
        /\ x.calculation \in {"FIXED", "PERCENT_OF_BASE", "PERCENT_OF_SUBTOTAL"}
        /\ x.state \in Prices!States /\ x.period \in Prices!Periods
    BY <1>3
  <2> QED BY <2>1, Zenon
<1> QED BY <1>4, <1>5, <1>6
LEMMA PriceInitially == Prices!Init => PriceInv
<1> SUFFICES ASSUME Prices!Init PROVE PriceInv
  OBVIOUS
<1>1. regional \in BOOLEAN /\ copying = None /\ booked = None
  BY DEF Prices!Init
<1>2. /\ DOMAIN routes = RouteKeys
      /\ \A k \in RouteKeys : routes[k] = [state |-> "active", period |-> "always"]
  BY DEF Prices!Init
<1> DEFINE a == CHOOSE a \in Amounts : TRUE
<1>3. a \in Nat
  BY PriceAssumption
<1>4. /\ DOMAIN prices = RouteKeys
      /\ \A k \in RouteKeys : prices[k] = [state |-> "active", period |-> "always", amount |-> a]
  <2>1. prices = [k \in RouteKeys |-> [state |-> "active", period |-> "always", amount |-> a]]
    BY DEF Prices!Init
  <2> HIDE DEF a
  <2> QED BY <2>1
<1> HIDE DEF a
<1>5. [state |-> "active", period |-> "always"] \in Prices!Route
  BY DEF Prices!Route, Prices!States, Prices!Periods
<1>6. [state |-> "active", period |-> "always", amount |-> a] \in Prices!Price
  BY <1>3 DEF Prices!Price, Prices!States, Prices!Periods
<1>7. policies \in Seq(Prices!Policy)
  <2> DEFINE p == [type |-> "NAME_SIGN", calculation |-> "FIXED", amount |-> 10000,
                   state |-> "active", period |-> "always"]
  <2>1. p \in Prices!Policy
    BY DEF Prices!Policy, Prices!PolicyTypes, Prices!States, Prices!Periods
  <2>2. policies = <<p>>
    BY DEF Prices!Init
  <2> HIDE DEF p
  <2> QED BY <2>1, <2>2
<1> QED BY <1>1, <1>2, <1>4, <1>5, <1>6, <1>7 DEF PriceInv, Prices!TypeOK, Prices!QuoteCanBeBooked

(* A step that leaves what was booked, or forgets it, keeps the rest.      *)
LEMMA TablesKeep ==
  ASSUME PriceInv, regional' = regional, booked' = booked \/ booked' = None,
         DOMAIN routes' \subseteq RouteKeys \cup NewKeys,
         \A k \in DOMAIN routes' : routes'[k] \in Prices!Route,
         DOMAIN prices' \subseteq DOMAIN routes',
         \A k \in DOMAIN prices' : prices'[k] \in Prices!Price,
         policies' \in Seq(Prices!Policy),
         copying' # None => /\ copying'.to \in DOMAIN routes'
                            /\ copying'.price \in Prices!Price \cup {None}
  PROVE  PriceInv'
  BY DEF PriceInv, Prices!TypeOK, Prices!QuoteCanBeBooked

LEMMA CopyKeeps ==
  ASSUME PriceInv, NEW k \in DOMAIN routes,
         \/ \E l \in NewKeys : Prices!CopyRoute(k, l)
         \/ Prices!CopyPrices \/ Prices!CopyFails
  PROVE  PriceInv'
<1> USE DEF PriceInv, Prices!TypeOK
<1>1. ASSUME NEW l \in NewKeys, Prices!CopyRoute(k, l)
      PROVE  PriceInv'
  <2>1. /\ regional' = regional /\ booked' = None /\ prices' = prices /\ policies' = policies
        /\ routes' = Prices!Put(routes, l, routes[k])
        /\ copying' = [from |-> k, to |-> l,
                       price |-> IF k \in DOMAIN prices THEN prices[k] ELSE None]
    BY <1>1 DEF Prices!CopyRoute, Prices!Edit
  <2>2. /\ DOMAIN routes' = DOMAIN routes \cup {l}
        /\ \A j \in DOMAIN routes' : routes'[j] \in Prices!Route
    BY <2>1 DEF Prices!Put
  <2>3. copying'.to = l /\ copying'.price \in Prices!Price \cup {None}
    BY <2>1
  <2> QED BY <2>1, <2>2, <2>3, TablesKeep
<1>2. CASE Prices!CopyPrices
  <2>1. /\ regional' = regional /\ booked' = booked /\ routes' = routes /\ policies' = policies
        /\ copying' = None
    BY <1>2 DEF Prices!CopyPrices
  <2>2. \/ prices' = prices
        \/ /\ prices' = Prices!Put(prices, copying.to, copying.price)
           /\ copying.price # None /\ copying # None
    BY <1>2 DEF Prices!CopyPrices
  <2>3. /\ DOMAIN prices' \subseteq DOMAIN routes
        /\ \A j \in DOMAIN prices' : prices'[j] \in Prices!Price
    BY <2>2 DEF Prices!Put
  <2> QED BY <2>1, <2>3, TablesKeep
<1>3. CASE Prices!CopyFails
  BY <1>3, TablesKeep DEF Prices!CopyFails
<1> QED BY <1>1, <1>2, <1>3

LEMMA RoutesKeep ==
  ASSUME PriceInv,
         \/ \E k \in NewKeys, p \in Prices!Periods : Prices!CreateRoute(k, p)
         \/ \E k \in DOMAIN routes :
              \/ \E st \in {"active", "inactive"}, p \in Prices!Periods : Prices!UpdateRoute(k, st, p)
              \/ Prices!DeleteRoute(k)
  PROVE  PriceInv'
<1> USE DEF PriceInv, Prices!TypeOK
<1>1. /\ regional' = regional /\ booked' = None /\ prices' = prices /\ policies' = policies
      /\ copying' = copying
  BY DEF Prices!CreateRoute, Prices!UpdateRoute, Prices!DeleteRoute, Prices!Edit
<1> DEFINE Kept == /\ DOMAIN routes \subseteq DOMAIN routes'
                   /\ DOMAIN routes' \subseteq RouteKeys \cup NewKeys
                   /\ \A j \in DOMAIN routes' : routes'[j] \in Prices!Route
<1>2. ASSUME NEW k \in NewKeys, NEW p \in Prices!Periods, Prices!CreateRoute(k, p)
      PROVE  Kept
  <2> DEFINE row == [state |-> "active", period |-> p]
  <2>1. row \in Prices!Route
    BY DEF Prices!Route, Prices!States
  <2>2. routes' = Prices!Put(routes, k, row)
    BY <1>2 DEF Prices!CreateRoute
  <2> HIDE DEF row
  <2> QED BY <2>1, <2>2 DEF Prices!Put
<1>3. ASSUME NEW k \in DOMAIN routes, NEW st \in {"active", "inactive"},
             NEW p \in Prices!Periods, Prices!UpdateRoute(k, st, p)
      PROVE  Kept
  <2>1. routes' = [routes EXCEPT ![k].state = st, ![k].period = p]
    BY <1>3 DEF Prices!UpdateRoute
  <2>2. PICK a \in Prices!States, b \in Prices!Periods : routes[k] = [state |-> a, period |-> b]
    BY RowColumns
  <2>3. routes'[k] = [state |-> st, period |-> p]
    BY <2>1, <2>2
  <2>4. routes'[k] \in Prices!Route
    BY <2>3 DEF Prices!Route, Prices!States
  <2>5. DOMAIN routes' = DOMAIN routes /\ \A j \in DOMAIN routes : j # k => routes'[j] = routes[j]
    BY <2>1
  <2> QED BY <2>4, <2>5
<1>4. ASSUME NEW k \in DOMAIN routes, Prices!DeleteRoute(k)
      PROVE  Kept
  <2>1. routes' = [routes EXCEPT ![k].state = "deleted"]
    BY <1>4 DEF Prices!DeleteRoute
  <2>2. PICK a \in Prices!States, b \in Prices!Periods : routes[k] = [state |-> a, period |-> b]
    BY RowColumns
  <2>3. routes'[k] = [state |-> "deleted", period |-> b]
    BY <2>1, <2>2
  <2>4. routes'[k] \in Prices!Route
    BY <2>3 DEF Prices!Route, Prices!States
  <2>5. DOMAIN routes' = DOMAIN routes /\ \A j \in DOMAIN routes : j # k => routes'[j] = routes[j]
    BY <2>1
  <2> QED BY <2>4, <2>5
<1>5. Kept
  BY <1>2, <1>3, <1>4
<1> QED BY <1>1, <1>5, TablesKeep

LEMMA PricesKeep ==
  ASSUME PriceInv,
         \/ \E k \in DOMAIN routes, a \in Amounts, p \in Prices!Periods : Prices!CreatePrice(k, a, p)
         \/ \E k \in DOMAIN prices :
              \/ \E st \in {"active", "inactive"}, a \in Amounts, p \in Prices!Periods :
                   Prices!UpdatePrice(k, st, a, p)
              \/ Prices!DeletePrice(k)
  PROVE  PriceInv'
<1> USE DEF PriceInv, Prices!TypeOK
<1>1. /\ regional' = regional /\ booked' = None /\ routes' = routes /\ policies' = policies
      /\ copying' = copying
  BY DEF Prices!CreatePrice, Prices!UpdatePrice, Prices!DeletePrice, Prices!Edit
<1> DEFINE Kept == /\ DOMAIN prices' \subseteq DOMAIN routes
                   /\ \A j \in DOMAIN prices' : prices'[j] \in Prices!Price
<1>2. ASSUME NEW st \in Prices!States, NEW p \in Prices!Periods, NEW a \in Nat
      PROVE  [state |-> st, period |-> p, amount |-> a] \in Prices!Price
  BY DEF Prices!Price
<1>3. ASSUME NEW k \in DOMAIN routes, NEW a \in Amounts, NEW p \in Prices!Periods,
             Prices!CreatePrice(k, a, p)
      PROVE  Kept
  <2> DEFINE row == [state |-> "active", period |-> p, amount |-> a]
  <2>1. row \in Prices!Price
    BY <1>2, PriceAssumption DEF Prices!States
  <2>2. prices' = Prices!Put(prices, k, row)
    BY <1>3 DEF Prices!CreatePrice
  <2> HIDE DEF row
  <2> QED BY <2>1, <2>2 DEF Prices!Put
<1>4. ASSUME NEW k \in DOMAIN prices, NEW st \in {"active", "inactive"}, NEW a \in Amounts,
             NEW p \in Prices!Periods, Prices!UpdatePrice(k, st, a, p)
      PROVE  Kept
  <2> DEFINE row == [state |-> st, period |-> p, amount |-> a]
  <2>1. row \in Prices!Price
    BY <1>2, PriceAssumption DEF Prices!States
  <2>2. prices' = [prices EXCEPT ![k] = row]
    BY <1>4 DEF Prices!UpdatePrice
  <2> HIDE DEF row
  <2> QED BY <2>1, <2>2
<1>5. ASSUME NEW k \in DOMAIN prices, Prices!DeletePrice(k)
      PROVE  Kept
  <2>1. prices' = [prices EXCEPT ![k].state = "deleted"]
    BY <1>5 DEF Prices!DeletePrice
  <2>2. PICK s \in Prices!States, p \in Prices!Periods, a \in Nat :
          prices[k] = [state |-> s, period |-> p, amount |-> a]
    BY RowColumns
  <2>3. prices'[k] = [state |-> "deleted", period |-> p, amount |-> a]
    BY <2>1, <2>2
  <2>4. prices'[k] \in Prices!Price
    BY <1>2, <2>3 DEF Prices!States
  <2>5. DOMAIN prices' = DOMAIN prices /\ \A j \in DOMAIN prices : j # k => prices'[j] = prices[j]
    BY <2>1
  <2> QED BY <2>4, <2>5
<1>6. Kept
  BY <1>3, <1>4, <1>5
<1> QED BY <1>1, <1>6, TablesKeep

LEMMA PoliciesKeep ==
  ASSUME PriceInv,
         \/ \E t \in Prices!PolicyTypes, x \in PolicyRates, p \in Prices!Periods :
              Prices!CreatePolicy(t, x[1], x[2], p)
         \/ \E i \in DOMAIN policies, st \in Prices!States : Prices!SetPolicy(i, st)
  PROVE  PriceInv'
<1> USE DEF PriceInv, Prices!TypeOK
<1>1. /\ regional' = regional /\ booked' = None /\ routes' = routes /\ prices' = prices
      /\ copying' = copying
  BY DEF Prices!CreatePolicy, Prices!SetPolicy, Prices!Edit
<1>2. ASSUME NEW t \in Prices!PolicyTypes, NEW x \in PolicyRates, NEW p \in Prices!Periods,
             Prices!CreatePolicy(t, x[1], x[2], p)
      PROVE  policies' \in Seq(Prices!Policy)
  <2> DEFINE row == [type |-> t, calculation |-> x[1], amount |-> x[2],
                     state |-> "active", period |-> p]
  <2>1. row \in Prices!Policy
    <3>1. x[1] \in {"FIXED", "PERCENT_OF_BASE", "PERCENT_OF_SUBTOTAL"} /\ x[2] \in Nat
      BY PriceAssumption
    <3> QED BY <3>1 DEF Prices!Policy, Prices!States
  <2>2. PICK n \in 0..Len(policies) : policies' = Prices!InsertAt(policies, n + 1, row)
    BY <1>2 DEF Prices!CreatePolicy
  <2>3. policies' = SubSeq(policies, 1, n) \o <<row>> \o SubSeq(policies, n + 1, Len(policies))
    <3>1. (n + 1) - 1 = n
      OBVIOUS
    <3> HIDE DEF row
    <3> QED BY <2>2, <3>1, Zenon DEF Prices!InsertAt
  <2>4. /\ SubSeq(policies, 1, n) \in Seq(Prices!Policy)
        /\ SubSeq(policies, n + 1, Len(policies)) \in Seq(Prices!Policy)
    <3>1. /\ \A i \in 1..n : i \in 1..Len(policies)
          /\ \A i \in n + 1..Len(policies) : i \in 1..Len(policies)
      OBVIOUS
    <3> QED BY <3>1, SubSeqProperties
  <2> HIDE DEF row
  <2> QED BY <2>1, <2>3, <2>4
<1>3. ASSUME NEW i \in DOMAIN policies, NEW st \in Prices!States, Prices!SetPolicy(i, st)
      PROVE  policies' \in Seq(Prices!Policy)
  <2>1. policies' = [policies EXCEPT ![i].state = st]
    BY <1>3 DEF Prices!SetPolicy
  <2>2. PICK t \in Prices!PolicyTypes, c \in {"FIXED", "PERCENT_OF_BASE", "PERCENT_OF_SUBTOTAL"},
             a \in Nat, s \in Prices!States, p \in Prices!Periods :
          policies[i] = [type |-> t, calculation |-> c, amount |-> a, state |-> s, period |-> p]
    BY RowColumns
  <2> DEFINE row == [policies[i] EXCEPT !.state = st]
  <2>3. row = [type |-> t, calculation |-> c, amount |-> a, state |-> st, period |-> p]
    BY <2>2
  <2>4. row \in Prices!Policy
    BY <2>3 DEF Prices!Policy
  <2>5. policies' = [policies EXCEPT ![i] = row]
    BY <2>1
  <2> HIDE DEF row
  <2> QED BY <2>4, <2>5
<1> QED BY <1>1, <1>2, <1>3, TablesKeep

(* A booking at its quote is stored.                                       *)
LEMMA BookKeeps ==
  ASSUME PriceInv, NEW r \in Requests, Prices!Book(r)
  PROVE  PriceInv'
<1>1. r \in Prices!Request /\ ~Prices!Refused(Prices!Calculate(r)) /\ PriceTypes
  BY PriceAssumption, PriceRows DEF Prices!Book
<1> DEFINE q == Prices!Calculate(r)
<1>2. q.items \in Storable \/ (q.mode = "reference" /\ r.count > 1)
  BY <1>1, Calculated DEF FareForm, RouteForm
<1>3. booked' = [request |-> r, mode |-> q.mode, items |-> q.items,
                 stored |-> \A i \in DOMAIN q.items : Prices!TriggerAccepts(q.items[i])]
  BY DEF Prices!Book
<1>4. q.items \in Storable => \A i \in DOMAIN q.items : Prices!TriggerAccepts(q.items[i])
  <2> HIDE DEF q
  <2> QED BY DEF Storable
<1> HIDE DEF q
<1>5. /\ booked'.request = r /\ booked'.mode = q.mode
      /\ booked'.stored = \A i \in DOMAIN q.items : Prices!TriggerAccepts(q.items[i])
  BY <1>3, Zenon
<1>6. booked'.stored \/ (booked'.mode = "reference" /\ booked'.request.count > 1)
  BY <1>2, <1>4, <1>5
<1>7. UNCHANGED <<regional, routes, prices, policies, copying>>
  BY DEF Prices!Book
<1> QED BY <1>5, <1>6, <1>7 DEF PriceInv, Prices!TypeOK, Prices!QuoteCanBeBooked

LEMMA PriceKeeps == PriceInv /\ (Prices!Next \/ UNCHANGED priceState) => PriceInv'
<1> SUFFICES ASSUME PriceInv, Prices!Next \/ UNCHANGED priceState
             PROVE  PriceInv'
  OBVIOUS
<1>1. CASE Prices!Next
  <2>1. CASE Prices!CopyPrices
    <3>1. copying.to \in DOMAIN routes
      BY <2>1 DEF PriceInv, Prices!TypeOK, Prices!CopyPrices
    <3> QED BY <2>1, <3>1, CopyKeeps
  <2>2. CASE Prices!CopyFails
    <3>1. copying.to \in DOMAIN routes
      BY <2>2 DEF PriceInv, Prices!TypeOK, Prices!CopyFails
    <3> QED BY <2>2, <3>1, CopyKeeps
  <2>3. CASE \E k \in DOMAIN routes : \E l \in NewKeys : Prices!CopyRoute(k, l)
    BY <2>3, CopyKeeps
  <2>4. CASE \/ \E k \in NewKeys, p \in Prices!Periods : Prices!CreateRoute(k, p)
             \/ \E k \in DOMAIN routes :
                  \/ \E st \in {"active", "inactive"}, p \in Prices!Periods : Prices!UpdateRoute(k, st, p)
                  \/ Prices!DeleteRoute(k)
    BY <2>4, RoutesKeep
  <2>5. CASE \/ \E k \in DOMAIN routes, a \in Amounts, p \in Prices!Periods : Prices!CreatePrice(k, a, p)
             \/ \E k \in DOMAIN prices :
                  \/ \E st \in {"active", "inactive"}, a \in Amounts, p \in Prices!Periods :
                       Prices!UpdatePrice(k, st, a, p)
                  \/ Prices!DeletePrice(k)
    BY <2>5, PricesKeep
  <2>6. CASE \/ \E t \in Prices!PolicyTypes, x \in PolicyRates, p \in Prices!Periods :
                  Prices!CreatePolicy(t, x[1], x[2], p)
             \/ \E i \in DOMAIN policies, st \in Prices!States : Prices!SetPolicy(i, st)
    BY <2>6, PoliciesKeep
  <2>7. CASE \E r \in Requests : Prices!Book(r)
    BY <2>7, BookKeeps
  <2> QED BY <1>1, <2>1, <2>2, <2>3, <2>4, <2>5, <2>6, <2>7, Zenon DEF Prices!Next
<1>2. CASE UNCHANGED priceState
  BY <1>2 DEF priceState, PriceInv, Prices!TypeOK, Prices!QuoteCanBeBooked
<1> QED BY <1>1, <1>2

(* PriceInv always holds, whatever the catalogue is changed to.            *)
THEOREM PriceInvariance == OfficeSpec => []PriceInv
<1>1. OfficeInit => PriceInv
  BY PriceInitially DEF OfficeInit
<1>2. PriceInv /\ [OfficeNext]_officeVars => PriceInv'
  <2>1. PriceInv /\ UNCHANGED priceState => PriceInv'
    BY PriceKeeps
  <2> QED
    BY <2>1, PriceKeeps DEF OfficeNext, CallStep, QueueStep, FlightStep, PriceStep, JobStep, officeVars
<1> QED BY <1>1, <1>2, PTL DEF OfficeSpec

(* Where no region is wider than a city transfer is long, the rides        *)
(* charged by one route cost no more the closer they are; and any quote    *)
(* but the nearest route's for several vehicles can be stored.             *)
THEOREM QuotesAlwaysHold ==
  ASSUME Prices!ShortWithinRegions
  PROVE  OfficeSpec => []QuotesHold
<1>1. PriceInv => QuotesHold
  <2> SUFFICES ASSUME PriceInv, booked # None
               PROVE  QuotesHold
    BY DEF QuotesHold, PriceInv, Prices!CloserNeverCostsMore
  <2> DEFINE r == booked.request
             mine == Prices!Calculate(r)
  <2>1. r \in Prices!Request /\ PriceTypes
    BY PriceRows, PriceAssumption DEF PriceInv, Prices!TypeOK
  <2>2. ASSUME Prices!HasPlaces(r), mine.route # None, NEW f \in Places, NEW t \in Places,
               Prices!Km(f, t) <= Prices!Km(r.fromAt, r.toAt),
               Prices!Calculate([r EXCEPT !.fromAt = f, !.toAt = t]).route = mine.route
        PROVE  Prices!Total(Prices!Calculate([r EXCEPT !.fromAt = f, !.toAt = t]).items)
                 <= Prices!Total(mine.items)
    <3> DEFINE s == [r EXCEPT !.fromAt = f, !.toAt = t]
    <3>1. /\ s \in Prices!Request /\ s.fromAt = f /\ s.toAt = t
          /\ s.service = r.service /\ s.from = r.from /\ s.to = r.to /\ s.count = r.count
          /\ s.nameSign = r.nameSign /\ s.time = r.time
      <4> DEFINE S == [service : Prices!Services, from : Prices!Codes \cup {None},
                       to : Prices!Codes \cup {None}, fromAt : Places \cup {None},
                       toAt : Places \cup {None}, count : Counts, nameSign : BOOLEAN,
                       time : Prices!Times]
      <4>1. PICK x \in S : x = r
        BY <2>1 DEF Prices!Request
      <4>2. s = [x EXCEPT !.fromAt = f, !.toAt = t]
        BY <4>1
      <4> HIDE DEF r, s
      <4>4. s \in S
        BY <4>2
      <4>5. /\ s.fromAt = f /\ s.toAt = t
            /\ s.service = r.service /\ s.from = r.from /\ s.to = r.to /\ s.count = r.count
            /\ s.nameSign = r.nameSign /\ s.time = r.time
        BY <4>1, <4>2
      <4>3. f # None /\ t # None
        BY PriceAssumption
      <4> QED BY <4>3, <4>4, <4>5 DEF Prices!Request
    <3>2. Prices!HasPlaces(s)
      BY <3>1, PriceAssumption DEF Prices!HasPlaces
    <3> HIDE DEF r, s
    <3>3. ~Prices!Refused(Prices!Calculate(r)) /\ ~Prices!Refused(Prices!Calculate(s))
      BY <2>1, <2>2, <3>1, RouteIsQuoted DEF s
    <3>4. Prices!Total(Prices!Calculate(s).items) <= Prices!Total(Prices!Calculate(r).items)
      BY <2>1, <2>2, <3>1, <3>2, <3>3, CloserCostsNoMore DEF s
    <3> QED BY <3>4 DEF s
  <2> QED BY <2>2 DEF QuotesHold, PriceInv, Prices!CloserNeverCostsMore
<1> QED BY <1>1, PriceInvariance, PTL
=============================================================================
