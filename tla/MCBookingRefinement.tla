------------------------- MODULE MCBookingRefinement ------------------------
(***************************************************************************)
(* Instances of BookingRefinement for TLC.                                 *)
(***************************************************************************)
EXTENDS BookingRefinement, TLC

(* Drivers are interchangeable: no action and no property names one.       *)
DriverSymmetry == Permutations(Drivers)
=============================================================================
