------------------------- MODULE MCUrgentNegotiation -------------------------
(***************************************************************************)
(* Instances of UrgentNegotiation for TLC.                                 *)
(***************************************************************************)
EXTENDS UrgentNegotiation, TLC

(* Drivers are interchangeable.  Only for runs without a liveness property.*)
DriverSymmetry == Permutations(Drivers)
=============================================================================
