------------------------------- MODULE MCAccounts ------------------------------
(***************************************************************************)
(* UserAccounts for TLC.  Its parts share no row, so that one run checks   *)
(* them one after the other: "part" says which of them takes its steps.    *)
(***************************************************************************)
EXTENDS UserAccounts, TLC

(* Two of a kind in each part have the same names, so that one permutation *)
(* renames them everywhere and the symmetry group stays small: x1 and x2   *)
(* are requests to log in or reset, requests about applications, social    *)
(* sign-ins, drivers on a trip and customers who open an inquiry; y1 and   *)
(* y2 phones and plates, e-mails, administrators and ids of inquiries.     *)
CONSTANTS x1, x2, y1, y2, b1

VARIABLE part

AccountsSymmetry == Permutations({x1, x2}) \cup Permutations({y1, y2})

-----------------------------------------------------------------------------
(* A part that does not run stays in one of its initial states.            *)
MCInit ==
  /\ part \in {"sessions", "applications", "social", "location", "support"}
  /\ AccountsInit
  /\ part # "location" => pass = [r \in Riders |-> [booking |-> b1, by |-> "token"]]

MCNext ==
  /\ \/ part = "sessions" /\ SessionStep
     \/ part = "applications" /\ ApplicationStep
     \/ part = "social" /\ SocialStep
     \/ part = "location" /\ LocationStep
     \/ part = "support" /\ SupportStep
  /\ part' = part

MCSpec == MCInit /\ [][MCNext]_<<part, accountsVars>>
=============================================================================
