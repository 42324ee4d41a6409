--------------------------- MODULE MCCustomerMail ---------------------------
(* CustomerMail for TLC: tasks are interchangeable.                        *)
EXTENDS CustomerMail, TLC

TaskSymmetry == Permutations(Tasks)
=============================================================================
