------------------------------ MODULE MCCustomers ------------------------------
(***************************************************************************)
(* CustomerSide for TLC.  Its parts share no row, so that one run checks   *)
(* them one after the other: "part" says which of them takes its steps.    *)
(***************************************************************************)
EXTENDS CustomerSide, TLC

(* Two of a kind in each part have the same names, so that one permutation *)
(* renames them everywhere and the symmetry group stays small: x1 and x2   *)
(* are bookings and push tokens, y1 and y2 customers and push workers.     *)
CONSTANTS x1, x2, y1, y2

VARIABLE part

CustomersSymmetry == Permutations({x1, x2}) \union Permutations({y1, y2})

-----------------------------------------------------------------------------
(* A part that does not run stays in its initial state.                    *)
MCInit == part \in {"access", "push", "reviews"} /\ CustomersInit

MCNext ==
  /\ \/ part = "access" /\ AccessStep
     \/ part = "push" /\ PushStep
     \/ part = "reviews" /\ ReviewStep
  /\ part' = part

MCSpec == MCInit /\ [][MCNext]_<<part, customersVars>>
=============================================================================
