------------------------------ MODULE MCBookings ------------------------------
(***************************************************************************)
(* NewBookings for TLC.  Its parts share no row, so that one run checks    *)
(* them one after the other: "part" says which of them takes its steps.    *)
(***************************************************************************)
EXTENDS NewBookings, TLC

CONSTANTS t1, t2, k1, k2, A, B, c1, LINE, WECHAT, KAKAO, p1, p2

VARIABLE part

-----------------------------------------------------------------------------
(* The requests of clients.  Fares are in half baht: 60 baht, and 8, which *)
(* is less than the coupon.                                                *)
Request(k, body, fare, coupon, mileage) ==
  [key |-> k, body |-> body, fare |-> fare, coupon |-> coupon,
   mileage |-> mileage, member |-> TRUE]

(* A request, which is also retried; its key reused for a guest's request; *)
(* another key for the same mileage; no key for the same coupon; a guest,  *)
(* who may not pay with mileage.                                           *)
Sent == {Request(k1, A, 120, c1, 5),
         [Request(k1, B, 120, NoCoupon, 0) EXCEPT !.member = FALSE],
         Request(k2, B, 120, NoCoupon, 100), Request(NoKey, B, 16, c1, 5),
         [Request(k2, A, 120, NoCoupon, 5) EXCEPT !.member = FALSE]}

TaskSymmetry == Permutations({t1, t2})

-----------------------------------------------------------------------------
(* A part that does not run stays in one of its initial states.            *)
MCInit ==
  /\ part \in {"manual", "creation", "contact"}
  /\ BookingsInit
  /\ part # "creation" => ~account.exists
  /\ part # "contact" =>
       eligible = {} /\ booking.phone = p1 /\ booking.metadata.messenger = LINE

MCNext ==
  /\ \/ part = "manual" /\ ManualStep
     \/ part = "creation" /\ CreationStep
     \/ part = "contact" /\ ContactStep
  /\ part' = part

MCSpec == MCInit /\ [][MCNext]_<<part, bookingsVars>>
=============================================================================
