------------------------- MODULE BookingRefinement --------------------------
(***************************************************************************)
(* The dedicated handlers of BookingLifecycle implement TripContract: the  *)
(* phase of a booking is a function of its status and commission, and its  *)
(* holder is the driver of the active assignment row.                      *)
(***************************************************************************)
EXTENDS BookingLifecycle

PhaseOf(r) ==
  CASE r.status \in WaitingStatus -> "waiting"
    [] r.status \in {"DRIVER_ASSIGNED", "ON_ROUTE", "DRIVER_ARRIVED"} -> "held"
    [] r.status = "PICKED_UP" -> "riding"
    [] r.status = "SETTLEMENT_PENDING" -> "owing"
    [] r.status = "COMPLETED" -> IF r.commission \in {"PAID", "WAIVED"}
                                   THEN "settled" ELSE "unsettled"
    [] r.status \in {"CANCELLED", "NO_SHOW"} -> "void"

Promise ==
  INSTANCE TripContract WITH phase <- [b \in Bookings |-> PhaseOf(booking[b])],
                             holder <- [b \in Bookings |-> booking[b].driver]

(* Every behaviour of the handlers keeps the contract: no handler reaches  *)
(* a phase, or changes the holder, in a way the contract does not allow.   *)
KeepsContract == Promise!Contract
=============================================================================
