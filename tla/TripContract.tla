---------------------------- MODULE TripContract ----------------------------
(***************************************************************************)
(* What the platform promises about a booking, to the customer, the driver *)
(* and the accountant, without saying how: a booking waits, is held by one *)
(* driver, is ridden, is owed for, and ends settled or void.  Its driver   *)
(* may change while nobody is in the car; from the pickup on it may not;   *)
(* a ride that ended is left only by its settlement.                       *)
(***************************************************************************)
CONSTANTS Bookings, Drivers, NoDriver

VARIABLES phase,    \* booking -> where it stands
          holder    \* booking -> the driver responsible for it, or NoDriver

cvars == <<phase, holder>>

ContractInit ==
  /\ phase = [b \in Bookings |-> "waiting"]
  /\ holder = [b \in Bookings |-> NoDriver]

Move(b, p, d) ==
  /\ phase' = [phase EXCEPT ![b] = p]
  /\ holder' = [holder EXCEPT ![b] = d]

Take(b, d) == phase[b] = "waiting" /\ Move(b, "held", d)

HandOver(b, d) == phase[b] = "held" /\ Move(b, "held", d)

Ride(b) == phase[b] = "held" /\ Move(b, "riding", holder[b])

(* The ride may be ended for a driver who never reported the pickup.       *)
EndRide(b) == phase[b] \in {"held", "riding"} /\ Move(b, "owing", holder[b])

(* No commission is owed for an exempt ride.                               *)
EndFreeRide(b) == phase[b] \in {"held", "riding"} /\ Move(b, "settled", NoDriver)

Settle(b) == phase[b] = "owing" /\ Move(b, "settled", NoDriver)

Void(b) == phase[b] \in {"waiting", "held", "riding"} /\ Move(b, "void", NoDriver)

(* One driver gives up some of the bookings held, all at once.             *)
GiveBack(d, S) ==
  /\ \A b \in S : phase[b] = "held" /\ holder[b] = d
  /\ phase' = [b \in Bookings |-> IF b \in S THEN "waiting" ELSE phase[b]]
  /\ holder' = [b \in Bookings |-> IF b \in S THEN NoDriver ELSE holder[b]]

ContractNext ==
  \/ \E b \in Bookings :
       \/ Ride(b) \/ EndRide(b) \/ EndFreeRide(b) \/ Settle(b) \/ Void(b)
       \/ \E d \in Drivers : Take(b, d) \/ HandOver(b, d)
  \/ \E d \in Drivers, S \in SUBSET Bookings : GiveBack(d, S)

Contract == ContractInit /\ [][ContractNext]_cvars
=============================================================================
