------------------------- MODULE MCBookingLifecycle -------------------------
(***************************************************************************)
(* Instances of BookingLifecycle for TLC.                                  *)
(***************************************************************************)
EXTENDS BookingLifecycle, TLC

(* Drivers are interchangeable: no action and no property names one.       *)
DriverSymmetry == Permutations(Drivers)
=============================================================================
