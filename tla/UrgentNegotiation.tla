-------------------------- MODULE UrgentNegotiation --------------------------
(***************************************************************************)
(* Urgent bookings: nobody claims them.  A driver locks the negotiation    *)
(* that is being broadcast and proposes how soon he can be there, and the  *)
(* customer accepts or rejects; a round that fails is broadcast again with *)
(* a shorter time required, and the third failure cancels the booking.  A  *)
(* worker ends the rounds in which the driver (3 minutes) or the customer  *)
(* (2 minutes) did not answer in time.                                     *)
(*                                                                         *)
(* The module adds table booking_urgent_negotiations to BookingLifecycle,  *)
(* whose bookings are all urgent here, created by customers and not        *)
(* archived.  An urgent pickup is too near for CancelByCustomer.           *)
(***************************************************************************)
EXTENDS BookingLifecycle, Sequences

CONSTANTS MaxAttempts,   \* rounds that may fail
          MaxEta,        \* the longest proposal, in some unit of minutes
          AdminAssigns   \* administrators assign and reassign urgent bookings

ASSUME MaxAttemptsAssumption == MaxAttempts \in Nat \ {0}
ASSUME MaxEtaAssumption == MaxEta \in Nat
ASSUME AdminAssignsAssumption == AdminAssigns \in BOOLEAN

VARIABLE negotiations   \* booking number -> its negotiations, oldest first

urgentVars == <<booking, driver, now, negotiations>>

NoEta == 0      \* SQL NULL in a column of minutes
Etas == 1..MaxEta

Held == {"LOCKED", "AWAITING_CUSTOMER"}
Active == {"BROADCASTING"} \union Held
Closed == {"CONFIRMED", "CANCELLED"}

Negotiation ==
  [status: Active \union Closed,
   attempts: 0..MaxAttempts,            \* attempt_count: rounds that failed
   locked: Drivers \union {NoDriver},   \* locked_driver_id
   expired: BOOLEAN,                    \* lock_expires_at, or in AWAITING_CUSTOMER
                                        \* customer_decision_expires_at, has passed
   minEta: Etas \union {NoEta},         \* min_required_eta_minutes
   eta: Etas \union {NoEta}]            \* the proposal the customer decides on

NewNegotiation ==
  [status |-> "BROADCASTING", attempts |-> 0, locked |-> NoDriver,
   expired |-> FALSE, minEta |-> NoEta, eta |-> NoEta]

UrgentInit ==
  /\ Init
  /\ negotiations = [b \in Bookings |-> <<NewNegotiation>>]

-----------------------------------------------------------------------------
(* The negotiations of one booking.                                        *)

Rows(b) == DOMAIN negotiations[b]

(* ORDER BY id DESC LIMIT 1; also what bookings.urgent_negotiation_id      *)
(* points to, as it is set with every insert.                              *)
Newest(b) == Len(negotiations[b])
Row(b) == negotiations[b][Newest(b)]

(* The unique key (booking_id, status): no other row has status s.         *)
StatusFree(b, i, s) == \A j \in Rows(b) \ {i} : negotiations[b][j].status # s

(* An UPDATE of row i to n, refused by the unique key when it would give   *)
(* two rows of the booking one status.                                     *)
Update(b, i, n) ==
  /\ StatusFree(b, i, n.status)
  /\ negotiations' = [negotiations EXCEPT ![b][i] = n]

(* restartUrgentNegotiationAfterRelease for every booking of B: an INSERT  *)
(* into which the unique key lets no second BROADCASTING row.              *)
Restart(B) ==
  /\ \A b \in B : StatusFree(b, 0, "BROADCASTING")
  /\ negotiations' = [b \in Bookings |->
                        IF b \in B THEN Append(negotiations[b], NewNegotiation)
                        ELSE negotiations[b]]

-----------------------------------------------------------------------------
(* A round.                                                                *)

(* lockNegotiation.  An offline driver may lock, whatever the booking's    *)
(* status.                                                                 *)
Lock(d, b) ==
  /\ Visible(b)
  /\ ~driver[d].archived
  /\ Operational(d)
  /\ \E i \in Rows(b) :
       LET n == negotiations[b][i]
       IN  /\ n.status = "BROADCASTING"
           /\ n.locked = NoDriver
           /\ Update(b, i, [n EXCEPT !.status = "LOCKED", !.locked = d,
                                     !.expired = FALSE, !.eta = NoEta])
  /\ UNCHANGED vars

FastEnough(n, e) == n.minEta = NoEta \/ e < n.minEta

(* submitEta.  That the proposal must also lie before the pickup only      *)
(* refuses more of them.                                                   *)
SubmitEta(d, b, e) ==
  /\ Visible(b)
  /\ ~driver[d].archived
  /\ Operational(d)
  /\ Row(b).status = "LOCKED"
  /\ Row(b).locked = d
  /\ ~Row(b).expired
  /\ FastEnough(Row(b), e)
  /\ Update(b, Newest(b), [Row(b) EXCEPT !.status = "AWAITING_CUSTOMER",
                                         !.expired = FALSE, !.eta = e])
  /\ UNCHANGED vars

(* Mutant of CustomerAccept: the negotiation is not confirmed.             *)
CustomerAcceptKeepsAsking(b) ==
  LET d == Row(b).locked
  IN  /\ Visible(b)
      /\ Row(b).status = "AWAITING_CUSTOMER"
      /\ ~Row(b).expired
      /\ booking[b].status = "OPEN"
      /\ ~HasAssignment(booking[b])
      /\ PickupTimeFree(d, b)
      /\ Write(b, [InsertAssignment(booking[b], d) EXCEPT
                     !.status = "DRIVER_ASSIGNED"])
      /\ UNCHANGED <<driver, now, negotiations>>

(* submitCustomerDecision with ACCEPT.  The driver is asked neither for a  *)
(* suspension nor for an unpaid settlement.                                *)
CustomerAccept(b) ==
  LET d == Row(b).locked
  IN  /\ Visible(b)
      /\ Row(b).status = "AWAITING_CUSTOMER"
      /\ ~Row(b).expired
      /\ booking[b].status = "OPEN"
      /\ ~HasAssignment(booking[b])
      /\ PickupTimeFree(d, b)
      /\ Update(b, Newest(b), [Row(b) EXCEPT !.status = "CONFIRMED",
                                             !.expired = FALSE, !.eta = NoEta])
      /\ Write(b, [InsertAssignment(booking[b], d) EXCEPT
                     !.status = "DRIVER_ASSIGNED"])
      /\ UNCHANGED <<driver, now>>

(* Mutant of FailRound: only the negotiation is cancelled.                 *)
FailRoundKeepsBooking(b, e) ==
  LET failed == [Row(b) EXCEPT !.attempts = @ + 1, !.locked = NoDriver,
                               !.expired = FALSE, !.eta = NoEta,
                               !.minEta = IF e = NoEta THEN @ ELSE e]
      to == IF failed.attempts >= MaxAttempts THEN "CANCELLED" ELSE "BROADCASTING"
  IN  /\ Update(b, Newest(b), [failed EXCEPT !.status = to])
      /\ UNCHANGED booking

(* completeFailedNegotiationRound; e is the proposal that was turned down, *)
(* if there was one.  The booking is cancelled by a bare updateStatus.     *)
FailRound(b, e) ==
  LET failed == [Row(b) EXCEPT !.attempts = @ + 1, !.locked = NoDriver,
                               !.expired = FALSE, !.eta = NoEta,
                               !.minEta = IF e = NoEta THEN @ ELSE e]
  IN  IF failed.attempts >= MaxAttempts
        THEN /\ Update(b, Newest(b), [failed EXCEPT !.status = "CANCELLED"])
             /\ Write(b, [booking[b] EXCEPT !.status = "CANCELLED"])
        ELSE /\ Update(b, Newest(b), [failed EXCEPT !.status = "BROADCASTING"])
             /\ UNCHANGED booking

(* submitCustomerDecision with REJECT, whatever the booking's status.      *)
CustomerReject(b) ==
  /\ Visible(b)
  /\ Row(b).status = "AWAITING_CUSTOMER"
  /\ ~Row(b).expired
  /\ FailRound(b, Row(b).eta)
  /\ UNCHANGED <<driver, now>>

(* The 3 minutes of the driver or the 2 of the customer pass.              *)
Expire(b) ==
  /\ \E i \in Rows(b) :
       /\ negotiations[b][i].status \in Held
       /\ ~negotiations[b][i].expired
       /\ negotiations' = [negotiations EXCEPT ![b][i].expired = TRUE]
  /\ UNCHANGED vars

(* Mutant of TimedOut: the comparison with the deadline is turned around.  *)
TimedOutEarly(b, s) ==
  /\ Visible(b)
  /\ booking[b].status = "OPEN"
  /\ ~HasAssignment(booking[b])
  /\ Row(b).status = s
  /\ ~Row(b).expired

(* loadTimeoutWorkerContext: which expired rows the worker deals with.     *)
TimedOut(b, s) ==
  /\ Visible(b)
  /\ booking[b].status = "OPEN"
  /\ ~HasAssignment(booking[b])
  /\ Row(b).status = s
  /\ Row(b).expired

(* processDriverEtaTimeout *)
EtaTimeout(b) ==
  /\ TimedOut(b, "LOCKED")
  /\ FailRound(b, NoEta)
  /\ UNCHANGED <<driver, now>>

(* processCustomerDecisionTimeout *)
DecisionTimeout(b) ==
  /\ TimedOut(b, "AWAITING_CUSTOMER")
  /\ FailRound(b, Row(b).eta)
  /\ UNCHANGED <<driver, now>>

-----------------------------------------------------------------------------
(* The handlers of BookingLifecycle, on urgent bookings.                   *)

(* claimOpenCall refuses a booking with an active negotiation, which every *)
(* open one has (OpenIsNegotiated), so Claim is not among them.            *)

UrgentRelease(d, b) == Release(d, b) /\ Restart({b})
UrgentUnassign(b) == Unassign(b) /\ Restart({b})

(* Mutant of UrgentSuspend: the reopened bookings are not broadcast again. *)
UrgentSuspendSilently(d) == Suspend(d) /\ UNCHANGED negotiations

(* driverSuspension.suspend restarts the negotiation of every booking it   *)
(* takes from the driver.                                                  *)
UrgentSuspend(d) ==
  /\ Suspend(d)
  /\ Restart({b \in Bookings : booking[b].status = "DRIVER_ASSIGNED"
                               /\ booking'[b].status = "OPEN"})

(* adminDispatch never looks at a negotiation when it assigns.             *)
UrgentAssign(d, b) ==
  /\ AdminAssigns
  /\ Assign(d, b) \/ Reassign(d, b)
  /\ UNCHANGED negotiations

(* The rest of the booking's life leaves its negotiations as they are.     *)
OtherAction(d, b) ==
  \/ GoOnline(d)
  \/ GoOffline(d)
  \/ Unsuspend(d)
  \/ CompleteActiveTrip(b)
  \/ NoShow(b)
  \/ Approve(b)
  \/ ManualApprove(b)
  \/ Reject(b)
  \/ Accept(d, b)
  \/ StartOnRoute(d, b)
  \/ MarkArrived(d, b)
  \/ MarkPickedUp(d, b)
  \/ EndTrip(d, b)
  \/ UploadReceipt(d, b)
  \/ \E to \in Status : ChangeStatusByDriver(d, b, to)
  \/ PassTime

RoundAction(b) ==
  \/ \E d \in Drivers : Lock(d, b)
  \/ \E d \in Drivers, e \in Etas : SubmitEta(d, b, e)
  \/ CustomerAccept(b)
  \/ CustomerReject(b)
  \/ Expire(b)
  \/ EtaTimeout(b)
  \/ DecisionTimeout(b)

UrgentNext ==
  \/ \E b \in Bookings : RoundAction(b)
  \/ \E b \in Bookings : UrgentUnassign(b)
  \/ \E d \in Drivers : UrgentSuspend(d)
  \/ \E d \in Drivers, b \in Bookings :
       \/ UrgentRelease(d, b)
       \/ UrgentAssign(d, b)
       \/ OtherAction(d, b) /\ UNCHANGED negotiations

UrgentSafety == UrgentInit /\ [][UrgentNext]_urgentVars

(* Time passes, and while the scheduler is enabled the worker runs every   *)
(* 30 seconds and takes the rows that expired first.                       *)
UrgentFairness ==
  \A b \in Bookings : /\ WF_urgentVars(Expire(b))
                      /\ WF_urgentVars(EtaTimeout(b))
                      /\ WF_urgentVars(DecisionTimeout(b))

UrgentSpec == UrgentSafety /\ UrgentFairness

-----------------------------------------------------------------------------
UrgentTypeOK ==
  /\ TypeOK
  /\ negotiations \in [Bookings -> Seq(Negotiation)]
  /\ \A b \in Bookings : negotiations[b] # <<>>

(* A booking that waits for a driver is being negotiated, so that no       *)
(* driver can claim it past the negotiation and the customer is never left *)
(* with an open booking nobody is offered (audit query B2).                *)
OpenIsNegotiated ==
  \A b \in Bookings : booking[b].status = "OPEN" => Row(b).status \in Active

(* A negotiation is given up exactly when its rounds are used up, and the  *)
(* booking is cancelled with it.                                           *)
GivenUpInTime ==
  \A b \in Bookings : \A i \in Rows(b) :
    LET n == negotiations[b][i]
    IN  /\ n.status = "CANCELLED" <=> n.attempts = MaxAttempts
        /\ n.status = "CANCELLED" => booking[b].status = "CANCELLED"

(* Each proposal the customer turns down, by a click or by silence, was    *)
(* faster than all those before it: the bound only ever tightens, and does *)
(* so with every proposal turned down.                                     *)
EverFaster ==
  [][\A b \in Bookings : \A i \in Rows(b) :
       LET was == negotiations[b][i]
           is == negotiations'[b][i]
       IN  /\ was.minEta # is.minEta
                => was.minEta = NoEta \/ is.minEta \in 1..(was.minEta - 1)
           /\ was.status = "AWAITING_CUSTOMER" /\ was.attempts # is.attempts
                => was.minEta # is.minEta]_urgentVars

(* A driver or a customer who does not answer does not hold an open        *)
(* booking up: every round ends.                                           *)
RoundsEnd ==
  \A b \in Bookings :
    (booking[b].status = "OPEN" /\ Row(b).status \in Held)
      ~> ~(booking[b].status = "OPEN" /\ Row(b).status \in Held)

-----------------------------------------------------------------------------
(* What tests and audits say and the code does not keep, or not always.    *)

(* audit query B1: a negotiation that is still broadcast belongs to a      *)
(* booking without a driver.  Where it fails, the unique key refuses the   *)
(* Restart that giving the booking back needs: the driver cannot release   *)
(* it, and can be neither taken off it nor suspended.                      *)
BroadcastHasNoDriver ==
  \A b \in Bookings : Row(b).status = "BROADCASTING" => ~HasAssignment(booking[b])

(* So while administrators assign none, the unique key never refuses the   *)
(* new negotiation of a booking that is taken from its driver, nor keeps   *)
(* the driver from giving it back or being suspended.                      *)
MayReopen ==
  \A b \in Bookings :
    HasAssignment(booking[b]) => StatusFree(b, 0, "BROADCASTING")

(* test: a customer who is asked may accept.  The unique key refuses a     *)
(* second CONFIRMED row, so that after a confirmed driver gave the booking *)
(* back no other one can be accepted.                                      *)
MayAccept ==
  \A b \in Bookings :
    Row(b).status = "AWAITING_CUSTOMER" => StatusFree(b, Newest(b), "CONFIRMED")
=============================================================================
