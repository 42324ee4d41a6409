----------------------------- MODULE BookingDesk -----------------------------
(***************************************************************************)
(* What POST /bookings promises the customer, without saying how: a        *)
(* request is placed in one step, with its number, its coupon, its mileage *)
(* and the answer that its key is kept for, or it leaves no trace.  A key  *)
(* is answered again with the booking it made until it expires; a coupon   *)
(* pays once; and what a booking earned or took is posted once, after it   *)
(* ended so that it may.                                                   *)
(*                                                                         *)
(* Requests have the fields of BookingCreation's, and bookings too.        *)
(***************************************************************************)
EXTENDS Integers

CONSTANTS Tasks, Keys, NoKey, Bodies, Coupons, NoCoupon, Discount, Requests,
          Balances, MaxBookings

VARIABLES
  kept,       \* key -> the request's body and the booking it is answered with
  coupons,
  sequence,   \* the last number given
  bookings,
  balance,    \* the customer's mileage
  ledger,
  answers     \* task -> the booking it is about to answer with

deskVars == <<kept, coupons, sequence, bookings, balance, ledger, answers>>

RowIds == 1..MaxBookings
Nobody == 0                  \* in the place of a booking
AnyBody == CHOOSE body \in Bodies : TRUE
NotKept == [body |-> AnyBody, booking |-> Nobody, expired |-> FALSE]

DeskInit ==
  /\ kept = [k \in Keys |-> NotKept]
  /\ coupons = [c \in Coupons |-> [status |-> "NONE", booking |-> Nobody]]
  /\ sequence = 0
  /\ bookings = [n \in RowIds |->
       [status |-> "NONE", key |-> NoKey, body |-> AnyBody, member |-> FALSE,
        coupon |-> NoCoupon, discount |-> 0, mileage |-> 0, total |-> 0,
        exhausted |-> FALSE, recent |-> FALSE]]
  /\ balance \in Balances \cup {0}
  /\ ledger = [n \in RowIds |-> [redeem |-> 0, reversal |-> 0, accrue |-> 0]]
  /\ answers = [t \in Tasks |-> Nobody]

-----------------------------------------------------------------------------
Least(x, y) == IF x <= y THEN x ELSE y
CouponWorth(r) == IF r.coupon = NoCoupon THEN 0 ELSE Least(2 * Discount, r.fare)

(* Half a baht cannot be taken from the account: then nothing is.          *)
WholeBaht(mileage) == IF mileage % 2 = 0 THEN mileage \div 2 ELSE 0

Made(r, mileage) ==
  [status |-> "OPEN", key |-> r.key, body |-> r.body, member |-> r.member,
   coupon |-> r.coupon, discount |-> CouponWorth(r), mileage |-> mileage,
   total |-> r.fare - CouponWorth(r) - mileage, exhausted |-> FALSE, recent |-> TRUE]

(* What a client may ask for: a key that has no answer yet, a member's     *)
(* coupon that nobody has used, and no more mileage than he offered, the   *)
(* fare is worth and he has.                                               *)
MayPlace(r) ==
  /\ sequence < MaxBookings
  /\ r.key # NoKey => kept[r.key].booking = Nobody
  /\ r.coupon # NoCoupon => r.member /\ coupons[r.coupon].status = "AVAILABLE"
MayTake(r, mileage) ==
  /\ mileage <= r.fare - CouponWorth(r) /\ balance >= WholeBaht(mileage)
  /\ mileage > 0 => r.member

Keep(r, n) ==
  kept' = IF r.key = NoKey THEN kept
          ELSE [kept EXCEPT ![r.key] = [body |-> r.body, booking |-> n, expired |-> FALSE]]
Use(r, n) ==
  coupons' = IF r.coupon = NoCoupon THEN coupons
             ELSE [coupons EXCEPT ![r.coupon] = [status |-> "USED", booking |-> n]]

Place(t, r) ==
  LET n == sequence + 1
  IN  /\ answers[t] = Nobody /\ MayPlace(r)
      /\ sequence' = n
      /\ Keep(r, n) /\ Use(r, n)
      /\ \E mileage \in 0..2 * r.mileage :
           /\ MayTake(r, mileage)
           /\ bookings' = [bookings EXCEPT ![n] = Made(r, mileage)]
           /\ balance' = balance - WholeBaht(mileage)
           /\ ledger' = [ledger EXCEPT ![n].redeem = WholeBaht(mileage)]
      /\ answers' = [answers EXCEPT ![t] = n]

AnswerAgain(t, r) ==
  /\ answers[t] = Nobody /\ r.key # NoKey
  /\ kept[r.key].booking # Nobody /\ ~kept[r.key].expired
  /\ kept[r.key].body = r.body
  /\ answers' = [answers EXCEPT ![t] = kept[r.key].booking]
  /\ UNCHANGED <<kept, coupons, sequence, bookings, balance, ledger>>

Answered(t) ==
  /\ answers' = [answers EXCEPT ![t] = Nobody]
  /\ UNCHANGED <<kept, coupons, sequence, bookings, balance, ledger>>

-----------------------------------------------------------------------------
(* The end of a booking, and its mileage afterwards, unless a failure      *)
(* loses it.                                                               *)
Close(n, status) ==
  /\ bookings[n].status = "OPEN"
  /\ bookings' = [bookings EXCEPT ![n].status = status]
  /\ UNCHANGED <<kept, coupons, sequence, balance, ledger, answers>>

GiveUp(n) ==
  /\ bookings[n].status = "OPEN"
  /\ bookings' = [bookings EXCEPT ![n].status = "CANCELLED", ![n].exhausted = TRUE]
  /\ UNCHANGED <<kept, coupons, sequence, balance, ledger, answers>>

Earn(n) ==
  /\ bookings[n].status = "ENDED" /\ bookings[n].member /\ ledger[n].accrue = 0
  /\ ledger' = [ledger EXCEPT ![n].accrue = bookings[n].total \div 40]
  /\ balance' = balance + bookings[n].total \div 40
  /\ UNCHANGED <<kept, coupons, sequence, bookings, answers>>

GiveBack(n) ==
  /\ bookings[n].status = "CANCELLED" /\ ~bookings[n].exhausted
  /\ ledger[n].reversal = 0
  /\ ledger' = [ledger EXCEPT ![n].reversal = ledger[n].redeem]
  /\ balance' = balance + ledger[n].redeem
  /\ UNCHANGED <<kept, coupons, sequence, bookings, answers>>

-----------------------------------------------------------------------------
Mark(c, from, to) ==
  /\ coupons[c].status = from
  /\ coupons' = [coupons EXCEPT ![c].status = to]
  /\ UNCHANGED <<kept, sequence, bookings, balance, ledger, answers>>

(* A kept answer grows old, and is forgotten when it has.                  *)
Expire(k) ==
  /\ kept[k].booking # Nobody /\ ~kept[k].expired
  /\ kept' = [kept EXCEPT ![k].expired = TRUE]
  /\ bookings' = [bookings EXCEPT ![kept[k].booking].recent = FALSE]
  /\ UNCHANGED <<coupons, sequence, balance, ledger, answers>>

Forget(k) ==
  /\ kept[k].expired
  /\ kept' = [kept EXCEPT ![k] = NotKept]
  /\ UNCHANGED <<coupons, sequence, bookings, balance, ledger, answers>>

(* A crash loses the answers under way, and nothing that was placed.       *)
Crash ==
  /\ answers' = [t \in Tasks |-> Nobody]
  /\ UNCHANGED <<kept, coupons, sequence, bookings, balance, ledger>>

DeskNext ==
  \/ \E t \in Tasks : Answered(t)
  \/ \E t \in Tasks, r \in Requests : Place(t, r) \/ AnswerAgain(t, r)
  \/ \E n \in RowIds :
       \/ \E status \in {"ENDED", "CANCELLED"} : Close(n, status)
       \/ GiveUp(n) \/ Earn(n) \/ GiveBack(n)
  \/ \E c \in Coupons : Mark(c, "NONE", "AVAILABLE") \/ Mark(c, "AVAILABLE", "DELETED")
  \/ \E k \in Keys : Expire(k) \/ Forget(k)
  \/ Crash

Desk == DeskInit /\ [][DeskNext]_deskVars
=============================================================================
