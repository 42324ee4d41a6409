---------------------------- MODULE ManualBooking ----------------------------
(***************************************************************************)
(* The money of a booking an administrator enters by hand                  *)
(* (booking.service createAdminManualBooking, updateAdminManualBooking):   *)
(* what the customer is charged, what the driver is promised, and what the *)
(* driver owes the company when he collects.  It is kept four times: in    *)
(* the metadata (adminManualPricing), in the charge items, in the total    *)
(* the database triggers derive from them, and in the commission columns   *)
(* the trip's end reads.  Every edit may leave any field out.              *)
(*                                                                         *)
(* The customer is an account or a guest; names, telephones, places,       *)
(* vehicles, luggage and memo are replaced field by field and left out.    *)
(* The number of edits is capped by MaxEdits, of bookings by Numbers.      *)
(***************************************************************************)
EXTENDS Integers

CONSTANTS Numbers,    \* booking numbers an administrator may use
          Accounts,   \* customer accounts
          Amounts,    \* of money, that may be entered
          NameSign,   \* ADMIN_MANUAL_NAME_SIGN_AMOUNT
          None, Same, \* no value; a field left out of an edit
          MaxEdits

VARIABLES
  book,   \* the booking, its items and its metadata
  noted,  \* the charge in the last note left with the booking
  edits

vars == <<book, noted, edits>>

Methods == {"ADMIN_COLLECTED", "PAY_DRIVER"}
Editable == {"OPEN", "DRIVER_ASSIGNED"}
Status == Editable \union {"COMPLETED", "SETTLEMENT_PENDING", "CANCELLED"}
Pricing == [payout: Amounts, charge: Nat, sign: {0, NameSign}, settlement: Nat, exempt: BOOLEAN]
Row == [status: Status, method: Methods, paid: BOOLEAN, customer: Accounts \union {None},
        meta: Pricing, base: Nat, signItem: {0, NameSign}, total: Nat, commission: Nat,
        exempt: BOOLEAN, due: Nat \union {None}]

(* No amount is smaller than the name sign's, although the code does not   *)
(* ask for it: a smaller charge is stored with a total above it.           *)
ASSUME AmountsAssumption ==
  /\ Amounts \subseteq Nat /\ NameSign \in Nat \ {0} /\ MaxEdits \in Nat
  /\ \A a \in Amounts : a >= NameSign
  /\ None \notin Nat \union Row

TypeOK ==
  /\ book \in [Numbers -> Row \union {None}]
  /\ noted \in [Numbers -> Amounts \union {None}]
  /\ edits \in 0..MaxEdits

Default(x, y) == IF x = Same THEN y ELSE x
Surplus(x, y) == IF x > y THEN x - y ELSE 0

-----------------------------------------------------------------------------
(* Mutant of Settlement: whoever collected.                                *)
SettlementAnyMethod(payout, charge, method) == Surplus(charge, payout)

(* calculateAdminManualSettlement: what the driver collected beyond what   *)
(* he was promised goes to the company.                                    *)
Settlement(payout, charge, method) ==
  IF method = "PAY_DRIVER" THEN Surplus(charge, payout) ELSE 0

(* The charge asked for, or the one agreed before, or payout and sign.     *)
ChargeOf(requested, stored, payout, sign) ==
  IF requested # Same THEN requested
  ELSE IF stored # None THEN stored ELSE payout + sign

(* resolveAdminManualPricing.                                              *)
Priced(payout, requested, stored, sign, method) ==
  LET s == IF sign THEN NameSign ELSE 0
      c == ChargeOf(requested, stored, payout, s)
  IN  [payout |-> payout, charge |-> c, sign |-> s,
       settlement |-> Settlement(payout, c, method),
       exempt |-> Settlement(payout, c, method) = 0]

(* Mutant of BaseItem: the whole charge.                                   *)
BaseItemWhole(p) == p.charge

(* adminManualBaseChargeItem: the charge without the sign's own item.      *)
BaseItem(p) == Surplus(p.charge, p.sign)

(* The triggers of booking_charge_items keep the booking's total.          *)
TotalOf(base, signItem) == base + signItem

-----------------------------------------------------------------------------
Init ==
  /\ book = [n \in Numbers |-> None]
  /\ noted = [n \in Numbers |-> None]
  /\ edits = 0

(* Who creates may assign a driver at once; a charge that was entered is   *)
(* left as a note.                                                         *)
InitialStatus(direct) == IF direct THEN "DRIVER_ASSIGNED" ELSE "OPEN"
Noted(requested, last) == Default(requested, last)

(* The office has the money already: paymentStatus PAID.                   *)
Collected(method) == method = "ADMIN_COLLECTED"

(* The booking createAdminManualBooking inserts, with its items.           *)
NewRow(p, method, direct, who) ==
  [status     |-> InitialStatus(direct),
   method     |-> method,
   paid       |-> Collected(method),
   customer   |-> who,
   meta       |-> p,
   base       |-> BaseItem(p),
   signItem   |-> p.sign,
   total      |-> TotalOf(BaseItem(p), p.sign),
   commission |-> p.settlement,
   exempt     |-> p.exempt,
   due        |-> None]

Create(n, payout, requested, method, sign, direct, who) ==
  /\ book[n] = None
  /\ book' = [book EXCEPT ![n] =
                NewRow(Priced(payout, requested, None, sign, method), method, direct, who)]
  /\ noted' = [noted EXCEPT ![n] = Noted(requested, @)]
  /\ UNCHANGED edits

(* resolveAdminManualCustomerForUpdate: an edit may link an account or     *)
(* unlink it.                                                              *)
EditedCustomer(old, who) == Default(who, old)

(* The method an edit names, or the one the booking has.                   *)
MethodOf(old, collect) == Default(collect, old)

(* What an edit writes.                                                    *)
EditedRow(old, p, base, method, who) ==
  [status     |-> old.status,
   method     |-> method,
   paid       |-> Collected(method),
   customer   |-> EditedCustomer(old.customer, who),
   meta       |-> p,
   base       |-> base,
   signItem   |-> p.sign,
   total      |-> p.charge,
   commission |-> p.settlement,
   exempt     |-> p.exempt,
   due        |-> old.due]

(* The base item is rewritten when a price was entered.                    *)
NewBase(old, p, payout, requested, sign) ==
  IF payout # Same \/ requested # Same \/ sign # Same THEN BaseItem(p) ELSE old.base

(* updateAdminManualBooking.  The total is compared with the items by the  *)
(* trigger on bookings, which refuses the whole edit.                      *)
Update(n, payout, requested, collect, sign, who) ==
  LET old  == book[n]
      m    == MethodOf(old.method, collect)
      p    == Priced(Default(payout, old.meta.payout), requested, old.meta.charge,
                     Default(sign, old.signItem # 0), m)
      base == NewBase(old, p, payout, requested, sign)
  IN  /\ edits < MaxEdits
      /\ old # None
      /\ old.status \in Editable
      /\ p.charge = TotalOf(base, p.sign)
      /\ book' = [book EXCEPT ![n] = EditedRow(old, p, base, m, who)]
      /\ noted' = [noted EXCEPT ![n] = Noted(requested, @)]
      /\ edits' = edits + 1

(* A driver takes it or is assigned, and leaves it again.                  *)
Claim(n) ==
  /\ book[n] # None /\ book[n].status = "OPEN"
  /\ book' = [book EXCEPT ![n].status = "DRIVER_ASSIGNED"]
  /\ UNCHANGED <<noted, edits>>

Reopen(n) ==
  /\ book[n] # None /\ book[n].status = "DRIVER_ASSIGNED"
  /\ book' = [book EXCEPT ![n].status = "OPEN"]
  /\ UNCHANGED <<noted, edits>>

(* commissionAmountAtTripEnd: an exempt trip owes nothing, any other what  *)
(* is stored, or the usual fee when nothing is.                            *)
UsualFee == 200
AmountAtTripEnd(b) ==
  IF b.exempt THEN 0 ELSE IF b.commission > 0 THEN b.commission ELSE UsualFee

EndTrip(n) ==
  /\ book[n] # None /\ book[n].status = "DRIVER_ASSIGNED"
  /\ book' = [book EXCEPT ![n].status =
                IF book[n].exempt THEN "COMPLETED" ELSE "SETTLEMENT_PENDING",
              ![n].due = AmountAtTripEnd(book[n])]
  /\ UNCHANGED <<noted, edits>>

(* Cancelled by the office or its customer.                                *)
Cancel(n) ==
  /\ book[n] # None /\ book[n].status \in Editable
  /\ book' = [book EXCEPT ![n].status = "CANCELLED"]
  /\ UNCHANGED <<noted, edits>>

Next ==
  \E n \in Numbers :
    \/ \E payout \in Amounts, requested \in Amounts \union {Same}, method \in Methods,
          sign, direct \in BOOLEAN, who \in Accounts \union {None} :
         Create(n, payout, requested, method, sign, direct, who)
    \/ \E payout, requested \in Amounts \union {Same}, collect \in Methods \union {Same},
          sign \in BOOLEAN \union {Same}, who \in Accounts \union {None, Same} :
         Update(n, payout, requested, collect, sign, who)
    \/ Claim(n) \/ Reopen(n) \/ EndTrip(n) \/ Cancel(n)

Spec == Init /\ [][Next]_vars

-----------------------------------------------------------------------------
Known == {n \in Numbers : book[n] # None}

(* However the price was pieced together, the booking's total, which the   *)
(* customer sees and pays, is the sum of its items and the charge the      *)
(* drivers' offers and the settlement are computed from.                   *)
BooksBalance ==
  \A n \in Known :
    /\ book[n].total = book[n].base + book[n].signItem
    /\ book[n].total = book[n].meta.charge

(* When the trip ends the driver owes exactly what he collected beyond the *)
(* payout he was promised, and nothing when the office was paid: the       *)
(* commission columns and the exemption follow every edit of payout,       *)
(* charge and collection (resolveAdminManualPricing against                *)
(* commissionAmountAtTripEnd).                                             *)
DriverOwesSurplus ==
  \A n \in Known : book[n].due # None =>
    book[n].due = IF book[n].paid THEN 0 ELSE Surplus(book[n].total, book[n].meta.payout)

(* A charge an administrator entered, and noted with the booking, stays in *)
(* force until another is entered, whatever else is edited.                *)
EnteredChargeStands ==
  \A n \in Known : noted[n] # None => book[n].total = noted[n]

(* The driver who collects keeps his payout (adminManualBooking.test.js    *)
(* 568: raising the payout raises the charge).                             *)
PayoutIsCharged ==
  \A n \in Known : book[n].method = "PAY_DRIVER" => book[n].total >= book[n].meta.payout
=============================================================================
