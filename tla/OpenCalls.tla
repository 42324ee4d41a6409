------------------------------ MODULE OpenCalls ------------------------------
(***************************************************************************)
(* Which driver may have an open call.  The question is answered in four   *)
(* places: the list of calls a driver's app shows (listOpenCalls, one SQL  *)
(* statement), the drivers who are told of a call (listEligibleFor-        *)
(* OpenBooking), the claim itself (claimOpenCall, reads under locks and    *)
(* checks in JavaScript) and the candidates an administrator is offered    *)
(* (driverCandidateScoring over listForCandidateEvaluation), whose choice  *)
(* assignDriver checks again.                                              *)
(*                                                                         *)
(* One ordinary call is followed; urgent calls are taken by negotiation    *)
(* (UrgentNegotiation).  A driver has his own vehicle, at most one more,   *)
(* and at most one other job.  Scores order the candidates and exclude     *)
(* nobody and are left out, as are inactive accounts.  Edits are capped.   *)
(***************************************************************************)
EXTENDS Integers

CONSTANTS Drivers, None,
          Types, Tier,      \* vehicle types; match_tier, 0 when it is NULL
          Pickups,          \* pickup times
          Gap, Window,      \* PICKUP_CONFLICT_MIN_GAP, SCHEDULE_CONFLICT_WINDOW
          Cooldown,         \* of a release, 30 minutes
          Shift,            \* of the database's wall clock against UTC
          MaxTime, MaxEdits

VARIABLES
  clock,    \* UTC
  call,     \* the booking
  driver,   \* drivers.status (is_online follows it) and is_archived
  main,     \* type of the primary vehicle, drivers.primary_vehicle_type_id
  extra,    \* another vehicle, or None
  other,    \* another booking of his: its pickup, and has its trip ended
  left,     \* wall-clock time of his last release of the call, or None
  quit,     \* who ever released it himself
  edits

vars == <<clock, call, driver, main, extra, other, left, quit, edits>>

(* No tier is negative, as the table's column is unsigned.                 *)
ASSUME CallsAssumption ==
  /\ None \notin Drivers /\ Tier \in [Types -> Nat]
  /\ Pickups \subseteq Int /\ Gap \in Int

Waiting == {"OPEN", "CONFIRMED"}
Gone == {"ON_ROUTE", "CANCELLED"}
Approval == {"PENDING", "APPROVED", "REJECTED"}

(* What the rows hold, as far as the four places read it.                  *)
Call == [status: Waiting \union Gone \union {"DRIVER_ASSIGNED"}, verified: BOOLEAN,
         driver: Drivers \union {None}, type: Types, pickup: Pickups]
Driver == [status: {"OFFLINE", "AVAILABLE", "SUSPENDED"}, archived: BOOLEAN]
Vehicle == [type: Types, approval: Approval]
Job == [pickup: Pickups, ended: BOOLEAN]

TypeOK ==
  /\ call \in Call
  /\ driver \in [Drivers -> Driver]
  /\ main \in [Drivers -> Types]
  /\ extra \in [Drivers -> Vehicle \union {None}]
  /\ other \in [Drivers -> Job \union {None}]
  /\ quit \subseteq Drivers

Far(x, y, gap) == x - y > gap \/ y - x > gap

-----------------------------------------------------------------------------
(* Vehicles.                                                               *)

(* vehicleMatchTier: the type itself, or a higher tier of the hierarchy.   *)
Covers(v, t) == v = t \/ (Tier[v] > 0 /\ Tier[t] > 0 /\ Tier[v] >= Tier[t])

(* listApprovedActiveVehicles; the primary vehicle is never reviewed, any  *)
(* other is active once it is approved.                                    *)
ApprovedVehicles(d) ==
  {main[d]} \union {e.type : e \in {e \in {extra[d]} \ {None} : e.approval = "APPROVED"}}

(* driverVehicleCoversBookingExistsSql                                     *)
Covered(d) == \E v \in ApprovedVehicles(d) : Covers(v, call.type)

(* mapCompatibleVehicles: what the app offers to claim with.               *)
Shown(d) == {v \in ApprovedVehicles(d) : Covers(v, call.type)}

(* Vehicles that a claim is granted with, named (findCompatibleVehicleById)*)
(* or picked (findMatchingVehicle).                                        *)
Accepted(d) ==
  {v \in Types : v \in ApprovedVehicles(d)
                 /\ (v = call.type
                     \/ (Tier[v] # 0 /\ Tier[call.type] # 0 /\ ~(Tier[v] < Tier[call.type])))}

-----------------------------------------------------------------------------
(* What the four places ask.                                               *)

Owes(d) == other[d] # None /\ other[d].ended      \* driverHasBlockingSettlement
Ready(d) == driver[d].status = "AVAILABLE" /\ ~driver[d].archived

(* hasReleasedAssignment: the row's unassigned_at is CURRENT_TIMESTAMP,    *)
(* the session's wall clock, and is compared with UTC_TIMESTAMP.           *)
Cooling(d) == left[d] # None /\ left[d] > clock - Cooldown

(* The list's own test of the same row.                                    *)
HiddenByRelease(d) == left[d] # None /\ left[d] > clock - Cooldown

(* Mutant of ListedConflict: exactly an hour apart is far enough.          *)
ListedConflictStrict(d) == other[d] # None /\ ~Far(other[d].pickup, call.pickup, Gap - 1)

(* The list's NOT EXISTS over the driver's own jobs, in SQL.               *)
ListedConflict(d) == other[d] # None /\ ~Far(other[d].pickup, call.pickup, Gap)

(* findOpenDriverCallsForDriver                                            *)
OpenRow(d) ==
  /\ Ready(d)
  /\ call.status = "OPEN" /\ call.verified /\ call.driver = None
  /\ Covered(d)
  /\ ~HiddenByRelease(d)
  /\ ~ListedConflict(d)

(* listOpenCalls: nothing is shown to a driver who owes a settlement.      *)
Listed(d) == ~driver[d].archived /\ driver[d].status # "SUSPENDED" /\ ~Owes(d) /\ OpenRow(d)

(* Mutant of EligibleRow: whatever his vehicle.                            *)
EligibleRowAnyVehicle(d) == Ready(d) /\ ~ListedConflict(d) /\ d \notin quit

(* listEligibleForOpenBooking: who released the call himself is never told *)
(* of it again.                                                            *)
EligibleRow(d) == Ready(d) /\ Covered(d) /\ ~ListedConflict(d) /\ d \notin quit

(* Who is told: the callers drop those who owe a settlement.               *)
Invited(d) == EligibleRow(d) /\ ~Owes(d)

(* assertNoPickupTimeConflict over findActiveAssignmentPickupsForConflict. *)
Conflict(d) ==
  other[d] # None /\ LET diff == other[d].pickup - call.pickup
                     IN  (IF diff < 0 THEN -diff ELSE diff) <= Gap

(* claimOpenCall's checks, in their order.                                 *)
Claimable(d) ==
  /\ ~driver[d].archived /\ driver[d].status # "SUSPENDED"
  /\ driver[d].status = "AVAILABLE"
  /\ ~Owes(d)
  /\ call.driver = None /\ call.status = "OPEN"
  /\ call.verified
  /\ ~Cooling(d)
  /\ ~Conflict(d)
  /\ Accepted(d) # {}

Jobs(d) == (IF other[d] = None THEN 0 ELSE 1) + (IF call.driver = d THEN 1 ELSE 0)

(* schedule_conflict_count of listForCandidateEvaluation.                  *)
NearbyJob(d) == other[d] # None /\ ~Far(other[d].pickup, call.pickup, Window)

(* evaluateEligibility: the primary vehicle's very type, no job at all     *)
(* (MAX_ACTIVE_JOBS), online, no job within two hours.                     *)
Eligible(d) ==
  /\ ~driver[d].archived /\ driver[d].status # "SUSPENDED"
  /\ ~Owes(d)
  /\ main[d] = call.type
  /\ Jobs(d) < 1
  /\ driver[d].status # "OFFLINE"
  /\ ~NearbyJob(d)

(* getDriverCandidates                                                     *)
Candidate(d) == call.driver = None /\ call.status \in Waiting /\ call.verified /\ Eligible(d)

(* assignDriver's checks.                                                  *)
Assignable(d) ==
  /\ call.verified
  /\ call.status \notin {"CANCELLED", "COMPLETED", "NO_SHOW"}
  /\ call.driver = None
  /\ ~driver[d].archived /\ driver[d].status # "SUSPENDED"
  /\ ~Owes(d)
  /\ ~Conflict(d)

-----------------------------------------------------------------------------
Init ==
  /\ clock = 0
  /\ call \in [status: {"OPEN"}, verified: {FALSE}, driver: {None},
               type: Types, pickup: Pickups]
  /\ driver = [d \in Drivers |-> [status |-> "OFFLINE", archived |-> FALSE]]
  /\ main \in [Drivers -> Types]
  /\ extra = [d \in Drivers |-> None]
  /\ other = [d \in Drivers |-> None]
  /\ left = [d \in Drivers |-> None]
  /\ quit = {} /\ edits = 0

Edited == edits < MaxEdits /\ edits' = edits + 1

(* The driver who gives the call up, or loses it by a suspension, has the  *)
(* time written by the database.                                           *)
Reopened == [call EXCEPT !.status = "OPEN", !.driver = None]
LeftNow(d) == [left EXCEPT ![d] = clock + Shift]

GoOnline(d) ==
  /\ ~driver[d].archived /\ driver[d].status = "OFFLINE" /\ ~Owes(d)
  /\ driver' = [driver EXCEPT ![d].status = "AVAILABLE"]
  /\ UNCHANGED <<clock, call, main, extra, other, left, quit, edits>>

GoOffline(d) ==
  /\ driver[d].status = "AVAILABLE" /\ Jobs(d) = 0
  /\ driver' = [driver EXCEPT ![d].status = "OFFLINE"]
  /\ UNCHANGED <<clock, call, main, extra, other, left, quit, edits>>

(* suspend: the call is reopened when he has it and has not set out; his   *)
(* other job must not be under way, and is reopened too.                   *)
Suspend(d) ==
  /\ Edited
  /\ ~driver[d].archived
  /\ call.driver = d => call.status = "DRIVER_ASSIGNED"
  /\ driver' = [driver EXCEPT ![d].status = "SUSPENDED"]
  /\ other' = [other EXCEPT ![d] = IF Owes(d) THEN @ ELSE None]
  /\ call' = IF call.driver = d THEN Reopened ELSE call
  /\ left' = IF call.driver = d THEN LeftNow(d) ELSE left
  /\ UNCHANGED <<clock, main, extra, quit>>

Unsuspend(d) ==
  /\ driver[d].status = "SUSPENDED"
  /\ driver' = [driver EXCEPT ![d].status = "OFFLINE"]
  /\ UNCHANGED <<clock, call, main, extra, other, left, quit, edits>>

(* archiveDrivers, restoreDriver                                           *)
Archive(d) ==
  /\ Edited
  /\ ~driver[d].archived /\ Jobs(d) = 0
  /\ driver' = [driver EXCEPT ![d] = [status |-> "OFFLINE", archived |-> TRUE]]
  /\ UNCHANGED <<clock, call, main, extra, other, left, quit>>

Restore(d) ==
  /\ driver[d].archived
  /\ driver' = [driver EXCEPT ![d].archived = FALSE]
  /\ UNCHANGED <<clock, call, main, extra, other, left, quit, edits>>

(* driverProfile.updateProfile: the primary vehicle changes unreviewed.    *)
ChangeVehicle(d, t) ==
  /\ Edited
  /\ ~driver[d].archived /\ main[d] # t
  /\ main' = [main EXCEPT ![d] = t]
  /\ UNCHANGED <<clock, call, driver, extra, other, left, quit>>

(* driverVehicle.createVehicle, approve, reject                            *)
AddVehicle(d, t) ==
  /\ Edited
  /\ ~driver[d].archived /\ extra[d] = None
  /\ extra' = [extra EXCEPT ![d] = [type |-> t, approval |-> "PENDING"]]
  /\ UNCHANGED <<clock, call, driver, main, other, left, quit>>

Review(d, verdict) ==
  /\ extra[d] # None /\ extra[d].approval = "PENDING"
  /\ extra' = [extra EXCEPT ![d].approval = verdict]
  /\ UNCHANGED <<clock, call, driver, main, other, left, quit, edits>>

(* Another booking: taken by claim or assignment, its trip ends owing a    *)
(* settlement, which is paid.                                              *)
TakeOther(d, p) ==
  /\ Edited
  /\ other[d] = None /\ ~driver[d].archived /\ driver[d].status # "SUSPENDED"
  /\ call.driver = d => Far(call.pickup, p, Gap)
  /\ other' = [other EXCEPT ![d] = [pickup |-> p, ended |-> FALSE]]
  /\ UNCHANGED <<clock, call, driver, main, extra, left, quit>>

EndOther(d) ==
  /\ other[d] # None /\ ~other[d].ended
  /\ other' = [other EXCEPT ![d].ended = TRUE]
  /\ UNCHANGED <<clock, call, driver, main, extra, left, quit, edits>>

SettleOther(d) ==
  /\ Owes(d)
  /\ other' = [other EXCEPT ![d] = None]
  /\ UNCHANGED <<clock, call, driver, main, extra, left, quit, edits>>

(* claimOpenCall                                                           *)
Claim(d) ==
  /\ Claimable(d)
  /\ call' = [call EXCEPT !.status = "DRIVER_ASSIGNED", !.driver = d]
  /\ UNCHANGED <<clock, driver, main, extra, other, left, quit, edits>>

(* releaseAssignment; its reasons and the two hours before the pickup are  *)
(* left to the policy.                                                     *)
Release(d) ==
  /\ call.driver = d /\ call.status = "DRIVER_ASSIGNED"
  /\ call' = Reopened
  /\ left' = LeftNow(d)
  /\ quit' = quit \union {d}
  /\ UNCHANGED <<clock, driver, main, extra, other, edits>>

(* assignDriver: an administrator names the driver, or autoAssignDriver    *)
(* does, with a candidate it read before and without a lock.               *)
Assign(d) ==
  /\ Assignable(d)
  /\ call' = [call EXCEPT !.status = "DRIVER_ASSIGNED", !.driver = d]
  /\ UNCHANGED <<clock, driver, main, extra, other, left, quit, edits>>

(* unassignDriver, whose marker starts no cooldown.                        *)
Unassign ==
  /\ call.status = "DRIVER_ASSIGNED"
  /\ call' = Reopened
  /\ UNCHANGED <<clock, driver, main, extra, other, left, quit, edits>>

(* The contact is verified, and reset when the customer changes it.        *)
Verify ==
  /\ call.status \notin Gone /\ ~call.verified
  /\ call' = [call EXCEPT !.verified = TRUE]
  /\ UNCHANGED <<clock, driver, main, extra, other, left, quit, edits>>

ResetContact ==
  /\ Edited
  /\ call.status \notin Gone /\ call.verified
  /\ call' = [call EXCEPT !.verified = FALSE]
  /\ UNCHANGED <<clock, driver, main, extra, other, left, quit>>

(* An administrator confirms an open booking, or edits one entered by hand.*)
Confirm ==
  /\ call.status = "OPEN"
  /\ call' = [call EXCEPT !.status = "CONFIRMED"]
  /\ UNCHANGED <<clock, driver, main, extra, other, left, quit, edits>>

Edit(t, p) ==
  /\ Edited
  /\ call.status \in Waiting
  /\ call' = [call EXCEPT !.type = t, !.pickup = p]
  /\ UNCHANGED <<clock, driver, main, extra, other, left, quit>>

(* The driver sets out, or the booking is cancelled.                       *)
Leave ==
  /\ call.status \notin Gone
  /\ call' = IF call.driver # None THEN [call EXCEPT !.status = "ON_ROUTE"]
             ELSE [call EXCEPT !.status = "CANCELLED"]
  /\ UNCHANGED <<clock, driver, main, extra, other, left, quit, edits>>

Tick ==
  /\ clock < MaxTime
  /\ clock' = clock + 1
  /\ UNCHANGED <<call, driver, main, extra, other, left, quit, edits>>

Next ==
  \/ \E d \in Drivers :
       \/ GoOnline(d) \/ GoOffline(d) \/ Suspend(d) \/ Unsuspend(d)
       \/ Archive(d) \/ Restore(d)
       \/ \E t \in Types : ChangeVehicle(d, t) \/ AddVehicle(d, t)
       \/ \E verdict \in {"APPROVED", "REJECTED"} : Review(d, verdict)
       \/ \E p \in Pickups : TakeOther(d, p)
       \/ EndOther(d) \/ SettleOther(d)
       \/ Claim(d) \/ Release(d) \/ Assign(d)
  \/ Unassign \/ Confirm \/ Leave \/ Tick
  \/ Verify \/ ResetContact
  \/ \E t \in Types, p \in Pickups : Edit(t, p)

Spec == Init /\ [][Next]_vars

-----------------------------------------------------------------------------
(* The list, the claim and the app agree: a driver sees the call exactly   *)
(* while he could claim it, and the vehicles offered with it are exactly   *)
(* those the claim is granted with (vehicleMatchTier.js "Mirrors SQL       *)
(* compatibility used by findOpenDriverCallsForDriver").                   *)
ListMatchesClaim ==
  \A d \in Drivers :
    /\ Listed(d) <=> Claimable(d)
    /\ Claimable(d) => Shown(d) = Accepted(d)

(* A driver who is told of a call that waits for one finds it on his list, *)
(* unless a suspension took it from him within the cooldown.               *)
InvitedSeesCall ==
  (call.status = "OPEN" /\ call.verified /\ call.driver = None) =>
    \A d \in Drivers : Invited(d) => Listed(d) \/ Cooling(d)

(* Nobody is recommended whom assignDriver would then refuse, as long as   *)
(* nothing has changed in between.                                         *)
CandidateIsAssignable == \A d \in Drivers : Candidate(d) => Assignable(d)

(* Half an hour after he gave it up a driver may have the call again       *)
(* (driverAssignmentRelease.policy.js 99, driverReleaseCooldown.policy     *)
(* .test.js "driver A visible again at exactly 30 minutes").               *)
CooldownEnds ==
  \A d \in Drivers :
    (left[d] # None /\ clock >= left[d] - Shift + Cooldown) => ~Cooling(d)
=============================================================================
