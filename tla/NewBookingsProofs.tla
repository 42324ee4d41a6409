------------------------- MODULE NewBookingsProofs --------------------------
(***************************************************************************)
(* Manual bookings: for any amounts of which none is smaller than the name *)
(* sign's, and any number of bookings and edits, the total balances, the   *)
(* driver owes what he collected beyond his payout, and an entered charge  *)
(* stands.  The argument is about one row and the note left with it:       *)
(* RowInv, which each handler keeps.                                       *)
(*                                                                         *)
(* Customers' bookings: for any number of requests at once, and any keys,  *)
(* coupons and balances, a key makes one booking, coupons and mileage pay  *)
(* once, and mileage follows the trip.  CreationInv says what each request *)
(* holds at each step of its transaction, which is why the others leave    *)
(* alone what it has read.  DeskInv adds what is asked for, and with it    *)
(* every statement of a request is a step of BookingDesk or none: bookings *)
(* are made at once.                                                       *)
(*                                                                         *)
(* Calls of customers' bookings: for any drivers, connections and requests *)
(* to dispatch, a call is made once.  ContactInv says that the markers are *)
(* written only by who holds the named lock, so that what it read of them  *)
(* still holds when it writes.                                             *)
(***************************************************************************)
EXTENDS NewBookings, FiniteSetTheorems, SequenceTheorems, WellFoundedInduction, TLAPS

(* A row and the charge last noted with it.                                *)
RowInv(b, note) ==
  /\ b \in Row
  /\ b.meta.charge = b.base + b.signItem
  /\ b.total = b.meta.charge
  /\ b.commission = Settlement(b.meta.payout, b.meta.charge, b.method)
  /\ b.exempt <=> (b.commission = 0)
  /\ b.paid = Collected(b.method)
  /\ b.status \in Editable => b.due = None
  /\ b.due # None => b.due = b.commission
  /\ note # None => b.meta.charge = note

(* A booking exists before anything is noted with it.                      *)
NumberInv(n) == IF book[n] = None THEN noted[n] = None ELSE RowInv(book[n], noted[n])

IInv == TypeOK /\ \A n \in Numbers : NumberInv(n)

-----------------------------------------------------------------------------
(* What resolveAdminManualPricing answers.                                 *)

(* A difference cut off at zero is a natural number.                       *)
LEMMA SurplusType ==
  ASSUME NEW x \in Nat, NEW y \in Nat
  PROVE  Surplus(x, y) \in Nat /\ (x >= y => Surplus(x, y) + y = x)
  BY SMT DEF Surplus

(* So is the amount a driver owes.                                         *)
LEMMA SettlementType ==
  ASSUME NEW payout \in Nat, NEW charge \in Nat, NEW method
  PROVE  Settlement(payout, charge, method) \in Nat
  BY SurplusType DEF Settlement

PricedOK(p, payout, requested, stored, sign, method) ==
  /\ p \in Pricing
  /\ p.payout = payout
  /\ p.sign = IF sign THEN NameSign ELSE 0
  /\ p.charge = ChargeOf(requested, stored, payout, p.sign)
  /\ p.settlement = Settlement(p.payout, p.charge, method)
  /\ p.exempt <=> (p.settlement = 0)

(* The pricing put together from the fields of a request balances.         *)
LEMMA PricedType ==
  ASSUME NEW payout \in Amounts, NEW requested \in Amounts \union {Same},
         NEW stored \in Nat \union {None}, NEW sign \in BOOLEAN, NEW method \in Methods
  PROVE  PricedOK(Priced(payout, requested, stored, sign, method),
                  payout, requested, stored, sign, method)
<1> DEFINE s == IF sign THEN NameSign ELSE 0
           c == ChargeOf(requested, stored, payout, s)
           t == Settlement(payout, c, method)
           p == Priced(payout, requested, stored, sign, method)
<1>1. s \in {0, NameSign} /\ s \in Nat
  BY AmountsAssumption
<1>2. c \in Nat
  BY <1>1, AmountsAssumption DEF ChargeOf
<1>3. t \in Nat
  BY <1>2, SettlementType, AmountsAssumption
<1>4. p = [payout |-> payout, charge |-> c, sign |-> s, settlement |-> t, exempt |-> t = 0]
  BY DEF Priced
<1> HIDE DEF s, c, t, p
<1>5. p \in Pricing
  BY <1>1, <1>2, <1>3, <1>4 DEF Pricing
<1>6. p.payout = payout /\ p.charge = c /\ p.sign = s /\ p.settlement = t
  BY <1>4
<1>8. p.exempt <=> (t = 0)
  BY <1>4
<1>7. c = ChargeOf(requested, stored, payout, s) /\ t = Settlement(payout, c, method)
  BY DEF c, t
<1>9. PricedOK(p, payout, requested, stored, sign, method)
  BY <1>5, <1>6, <1>7, <1>8 DEF PricedOK, s
<1> QED BY <1>9 DEF p

-----------------------------------------------------------------------------
(* The handlers, on one row.                                               *)

(* A new booking's four copies of its money agree.                         *)
LEMMA CreateKeepsRow ==
  ASSUME NEW payout \in Amounts, NEW requested \in Amounts \union {Same},
         NEW method \in Methods, NEW sign \in BOOLEAN, NEW direct \in BOOLEAN,
         NEW who \in Accounts \union {None}
  PROVE  RowInv(NewRow(Priced(payout, requested, None, sign, method), method, direct, who),
                Noted(requested, None))
<1> DEFINE p == Priced(payout, requested, None, sign, method)
           b == NewRow(p, method, direct, who)
<1>0. PricedOK(p, payout, requested, None, sign, method)
  <2>1. None \in Nat \union {None}
    OBVIOUS
  <2> QED BY <2>1, PricedType
<1> HIDE DEF p
<1>1. /\ p \in Pricing /\ p.payout = payout
      /\ p.sign = IF sign THEN NameSign ELSE 0
      /\ p.charge = ChargeOf(requested, None, payout, p.sign)
      /\ p.settlement = Settlement(p.payout, p.charge, method)
      /\ p.exempt <=> (p.settlement = 0)
  BY <1>0 DEF PricedOK
<1>2. /\ p.charge \in Nat /\ p.sign \in {0, NameSign} /\ p.sign \in Nat
      /\ p.settlement \in Nat /\ p.exempt \in BOOLEAN /\ p.payout \in Nat
  BY <1>1, AmountsAssumption DEF Pricing
<1>3. p.charge >= p.sign
  <2>1. CASE requested = Same
    <3>1. p.charge = payout + p.sign BY <1>1, <2>1 DEF ChargeOf
    <3> QED BY <3>1, <1>2, AmountsAssumption
  <2>2. CASE requested # Same
    BY <1>1, <1>2, <2>2, AmountsAssumption DEF ChargeOf
  <2> QED BY <2>1, <2>2
<1>4. BaseItem(p) \in Nat /\ BaseItem(p) + p.sign = p.charge
  BY <1>2, <1>3, SurplusType DEF BaseItem
<1>5. /\ b = [status |-> InitialStatus(direct), method |-> method,
              paid |-> Collected(method), customer |-> who, meta |-> p,
              base |-> BaseItem(p), signItem |-> p.sign,
              total |-> TotalOf(BaseItem(p), p.sign), commission |-> p.settlement,
              exempt |-> p.exempt, due |-> None]
      /\ InitialStatus(direct) \in Status
  BY DEF NewRow, InitialStatus, Status, Editable
<1>6. TotalOf(BaseItem(p), p.sign) = p.charge
  BY <1>4 DEF TotalOf
<1> HIDE DEF b
<1> Collected(method) \in BOOLEAN
  BY DEF Collected
<1>7. b \in Row
  BY <1>1, <1>2, <1>4, <1>5, <1>6 DEF Row
<1>8. /\ b.meta = p /\ b.base = BaseItem(p) /\ b.signItem = p.sign
      /\ b.total = p.charge /\ b.commission = p.settlement /\ b.exempt = p.exempt
      /\ b.due = None /\ b.method = method
  BY <1>5, <1>6
<1>9. b.paid = Collected(b.method)
  BY <1>5
<1>10. Noted(requested, None) # None => p.charge = Noted(requested, None)
  BY <1>1 DEF Noted, Default, ChargeOf
<1> QED BY <1>1, <1>4, <1>7, <1>8, <1>9, <1>10 DEF RowInv, b, p

(* What updateAdminManualBooking has checked and computed when it writes.  *)
Edited(old, note, payout, requested, collect, sign, who, m, p, base) ==
  /\ RowInv(old, note) /\ note \in Amounts \union {None} /\ old.status \in Editable
  /\ payout \in Amounts \union {Same} /\ requested \in Amounts \union {Same}
  /\ collect \in Methods \union {Same} /\ sign \in BOOLEAN \union {Same}
  /\ who \in Accounts \union {None, Same}
  /\ m = MethodOf(old.method, collect)
  /\ p = Priced(Default(payout, old.meta.payout), requested, old.meta.charge,
                Default(sign, old.signItem # 0), m)
  /\ base = NewBase(old, p, payout, requested, sign)
  /\ p.charge = TotalOf(base, p.sign)

(* They agree after an edit, whichever fields it leaves out.               *)
LEMMA EditKeepsRow ==
  ASSUME NEW old, NEW note, NEW payout, NEW requested, NEW collect, NEW sign, NEW who,
         NEW m, NEW p, NEW base,
         Edited(old, note, payout, requested, collect, sign, who, m, p, base)
  PROVE  RowInv(EditedRow(old, p, base, m, who), Noted(requested, note))
<1> USE DEF Edited
<1> DEFINE b == EditedRow(old, p, base, m, who)
<1>1. /\ old \in Row /\ old.meta.payout \in Amounts /\ old.meta.charge \in Nat
      /\ old.method \in Methods /\ old.base \in Nat /\ old.customer \in Accounts \union {None}
      /\ old.status \in Status /\ old.due \in Nat \union {None}
  BY DEF RowInv, Row, Pricing
<1>2. /\ Default(payout, old.meta.payout) \in Amounts /\ m \in Methods
      /\ Default(sign, old.signItem # 0) \in BOOLEAN
  BY <1>1 DEF Default, MethodOf
<1>a. PricedOK(p, Default(payout, old.meta.payout), requested, old.meta.charge,
               Default(sign, old.signItem # 0), m)
  <2>1. old.meta.charge \in Nat \union {None}
    BY <1>1
  <2> QED BY <1>2, <2>1, PricedType
<1>3. /\ p \in Pricing /\ p.charge = ChargeOf(requested, old.meta.charge,
                                    Default(payout, old.meta.payout), p.sign)
      /\ p.settlement = Settlement(p.payout, p.charge, m)
      /\ p.exempt <=> (p.settlement = 0)
  BY <1>a DEF PricedOK
<1>4. /\ p.charge \in Nat /\ p.sign \in {0, NameSign} /\ p.sign \in Nat
      /\ p.settlement \in Nat /\ p.exempt \in BOOLEAN
  BY <1>3, AmountsAssumption DEF Pricing
<1>5. base \in Nat
  BY <1>1, <1>4, SurplusType DEF NewBase, BaseItem
<1>6. p.charge = base + p.sign
  BY DEF TotalOf
<1>7. EditedCustomer(old.customer, who) \in Accounts \union {None}
  BY <1>1 DEF EditedCustomer, Default
<1>8. b = [status |-> old.status, method |-> m, paid |-> Collected(m),
           customer |-> EditedCustomer(old.customer, who), meta |-> p, base |-> base,
           signItem |-> p.sign, total |-> p.charge, commission |-> p.settlement,
           exempt |-> p.exempt, due |-> old.due]
  BY DEF EditedRow
<1> HIDE DEF b
<1> Collected(m) \in BOOLEAN
  BY DEF Collected
<1>9. b \in Row
  BY <1>1, <1>2, <1>3, <1>4, <1>5, <1>7, <1>8 DEF Row
<1>10. /\ b.meta = p /\ b.base = base /\ b.signItem = p.sign /\ b.total = p.charge
       /\ b.commission = p.settlement /\ b.exempt = p.exempt /\ b.method = m
       /\ b.due = old.due /\ b.status = old.status
  BY <1>8
<1>11. b.paid = Collected(b.method)
  BY <1>8
<1>12. b.due = None
  BY <1>10 DEF RowInv
<1>13. Noted(requested, note) # None => p.charge = Noted(requested, note)
  <2>1. CASE requested # Same
    BY <2>1, <1>3 DEF Noted, Default, ChargeOf
  <2>2. CASE requested = Same
    <3>1. p.charge = old.meta.charge
      BY <2>2, <1>1, <1>3, AmountsAssumption DEF ChargeOf
    <3>2. Noted(requested, note) = note
      BY <2>2 DEF Noted, Default
    <3> QED BY <3>1, <3>2 DEF RowInv
  <2> QED BY <2>1, <2>2
<1> QED BY <1>3, <1>6, <1>9, <1>10, <1>11, <1>12, <1>13 DEF RowInv, b

(* A change of status that leaves the money alone.                         *)
LEMMA MoveKeepsRow ==
  ASSUME NEW old, NEW note, RowInv(old, note), NEW s \in Status, NEW due,
         (due = None) \/ (due = old.commission /\ s \notin Editable),
         old.due = None
  PROVE  RowInv([old EXCEPT !.status = s, !.due = due], note)
<1> DEFINE b == [old EXCEPT !.status = s, !.due = due]
<1>1. old \in Row /\ old.commission \in Nat
  BY DEF RowInv, Row
<1>2. due \in Nat \union {None}
  BY <1>1
<1>3. b \in Row
  BY <1>1, <1>2 DEF Row
<1>4. /\ b.meta = old.meta /\ b.base = old.base /\ b.signItem = old.signItem
      /\ b.total = old.total /\ b.commission = old.commission /\ b.exempt = old.exempt
      /\ b.method = old.method /\ b.paid = old.paid /\ b.due = due /\ b.status = s
  BY <1>1 DEF Row
<1> HIDE DEF b
<1> QED BY <1>3, <1>4 DEF RowInv, b

(* The end of the trip charges what the copies say.                        *)
LEMMA EndKeepsRow ==
  ASSUME NEW old, NEW note, RowInv(old, note), old.status = "DRIVER_ASSIGNED"
  PROVE  RowInv([old EXCEPT
                   !.status = IF old.exempt THEN "COMPLETED" ELSE "SETTLEMENT_PENDING",
                   !.due = AmountAtTripEnd(old)], note)
<1>1. /\ old.commission \in Nat /\ old.exempt \in BOOLEAN
      /\ (old.exempt <=> (old.commission = 0)) /\ old.due = None
  BY DEF RowInv, Row, Editable
<1>2. AmountAtTripEnd(old) = old.commission
  <2>1. CASE old.exempt BY <2>1, <1>1 DEF AmountAtTripEnd
  <2>2. CASE ~old.exempt
    <3>0. old.commission # 0 BY <2>2, <1>1, Zenon
    <3>1. old.commission > 0 BY <3>0, <1>1
    <3> QED BY <2>2, <3>1 DEF AmountAtTripEnd
  <2> QED BY <2>1, <2>2
<1>3. (IF old.exempt THEN "COMPLETED" ELSE "SETTLEMENT_PENDING") \in Status \ Editable
  BY DEF Status, Editable
<1> QED BY <1>1, <1>2, <1>3, MoveKeepsRow

-----------------------------------------------------------------------------
(* The handlers, on the tables.                                            *)

(* There is no booking at first.                                           *)
LEMMA Initially == Init => IInv
  BY AmountsAssumption DEF Init, IInv, TypeOK, NumberInv

(* A step on booking n that keeps its row, and all others.                 *)
LEMMA OneRowStep ==
  ASSUME IInv, NEW n \in Numbers, NEW b, NEW note \in Amounts \union {None},
         RowInv(b, note), edits' \in 0..MaxEdits,
         book' = [book EXCEPT ![n] = b], noted' = [noted EXCEPT ![n] = note]
  PROVE  IInv'
<1>1. b \in Row /\ b # None
  BY AmountsAssumption DEF RowInv
<1>2. TypeOK'
  BY <1>1 DEF IInv, TypeOK
<1>3. ASSUME NEW k \in Numbers PROVE NumberInv(k)'
  <2>1. CASE k = n
    <3>1. book'[k] = b /\ noted'[k] = note BY <2>1 DEF IInv, TypeOK
    <3> QED BY <3>1, <1>1 DEF NumberInv
  <2>2. CASE k # n
    <3>1. book'[k] = book[k] /\ noted'[k] = noted[k] BY <2>2 DEF IInv, TypeOK
    <3>2. NumberInv(k) BY DEF IInv
    <3> QED BY <3>1, <3>2 DEF NumberInv
  <2> QED BY <2>1, <2>2
<1> QED BY <1>2, <1>3 DEF IInv

(* A step that changes a booking's status, and perhaps what is due.        *)
LEMMA MoveStep ==
  ASSUME IInv, NEW n \in Numbers, NEW b, RowInv(b, noted[n]),
         book' = [book EXCEPT ![n] = b], UNCHANGED <<noted, edits>>
  PROVE  IInv'
<1>1. noted' = [noted EXCEPT ![n] = noted[n]] /\ noted[n] \in Amounts \union {None}
  BY DEF IInv, TypeOK
<1>2. edits' \in 0..MaxEdits
  BY DEF IInv, TypeOK
<1> QED BY <1>1, <1>2, OneRowStep

(* Every step keeps the invariant: one case per action.                    *)
LEMMA Keeps == IInv /\ [Next]_vars => IInv'
<1> SUFFICES ASSUME IInv, [Next]_vars PROVE IInv'
  OBVIOUS
<1>0. CASE UNCHANGED vars
  BY <1>0 DEF IInv, TypeOK, NumberInv, vars
<1>1. ASSUME NEW n \in Numbers, NEW payout \in Amounts, NEW requested \in Amounts \union {Same},
             NEW method \in Methods, NEW sign \in BOOLEAN, NEW direct \in BOOLEAN,
             NEW who \in Accounts \union {None},
             Create(n, payout, requested, method, sign, direct, who)
      PROVE  IInv'
  <2> DEFINE b == NewRow(Priced(payout, requested, None, sign, method), method, direct, who)
  <2>1. noted[n] = None
    BY <1>1 DEF Create, IInv, NumberInv
  <2>2. RowInv(b, Noted(requested, None))
    BY CreateKeepsRow
  <2>3. Noted(requested, None) \in Amounts \union {None}
    BY DEF Noted, Default
  <2>4. /\ book' = [book EXCEPT ![n] = b]
        /\ noted' = [noted EXCEPT ![n] = Noted(requested, None)]
        /\ edits' \in 0..MaxEdits
    BY <1>1, <2>1 DEF Create, IInv, TypeOK
  <2> HIDE DEF b
  <2> QED BY <2>2, <2>3, <2>4, OneRowStep
<1>2. ASSUME NEW n \in Numbers, NEW payout \in Amounts \union {Same},
             NEW requested \in Amounts \union {Same}, NEW collect \in Methods \union {Same},
             NEW sign \in BOOLEAN \union {Same}, NEW who \in Accounts \union {None, Same},
             Update(n, payout, requested, collect, sign, who)
      PROVE  IInv'
  <2> DEFINE old  == book[n]
             m    == MethodOf(old.method, collect)
             p    == Priced(Default(payout, old.meta.payout), requested, old.meta.charge,
                            Default(sign, old.signItem # 0), m)
             base == NewBase(old, p, payout, requested, sign)
             b    == EditedRow(old, p, base, m, who)
             note == Noted(requested, noted[n])
  <2>1. /\ edits < MaxEdits /\ old # None /\ old.status \in Editable
        /\ p.charge = TotalOf(base, p.sign)
        /\ book' = [book EXCEPT ![n] = b]
        /\ noted' = [noted EXCEPT ![n] = note] /\ edits' = edits + 1
    BY <1>2 DEF Update
  <2>2. RowInv(old, noted[n]) /\ noted[n] \in Amounts \union {None}
    BY <2>1 DEF IInv, NumberInv, TypeOK
  <2>3. note \in Amounts \union {None}
    BY <2>2 DEF Noted, Default
  <2>4. edits' \in 0..MaxEdits
    BY <2>1, AmountsAssumption DEF IInv, TypeOK
  <2>5. RowInv(b, note)
    <3>1. /\ m = MethodOf(old.method, collect)
          /\ p = Priced(Default(payout, old.meta.payout), requested, old.meta.charge,
                        Default(sign, old.signItem # 0), m)
          /\ base = NewBase(old, p, payout, requested, sign)
      OBVIOUS
    <3> HIDE DEF old, m, p, base
    <3>2. Edited(old, noted[n], payout, requested, collect, sign, who, m, p, base)
      BY <3>1, <2>1, <2>2, Zenon DEF Edited
    <3> QED BY <3>2, EditKeepsRow, Zenon
  <2> HIDE DEF b, note
  <2> QED BY <2>1, <2>3, <2>4, <2>5, OneRowStep
<1>3. ASSUME NEW n \in Numbers, Claim(n) \/ Reopen(n) \/ Cancel(n)
      PROVE  IInv'
  <2>1. RowInv(book[n], noted[n]) /\ book[n].status \in Editable
    BY <1>3 DEF Claim, Reopen, Cancel, IInv, NumberInv, Editable
  <2>2. PICK s \in Status : book' = [book EXCEPT ![n].status = s] /\ UNCHANGED <<noted, edits>>
    BY <1>3 DEF Claim, Reopen, Cancel, Status, Editable
  <2>3. book[n].due = None /\ book[n] \in Row
    BY <2>1 DEF RowInv
  <2>4. RowInv([book[n] EXCEPT !.status = s, !.due = None], noted[n])
    BY <2>1, <2>3, MoveKeepsRow
  <2>5. [book[n] EXCEPT !.status = s, !.due = None] = [book[n] EXCEPT !.status = s]
    BY <2>3 DEF Row
  <2>6. book' = [book EXCEPT ![n] = [book[n] EXCEPT !.status = s]]
    BY <2>2
  <2> QED BY <2>2, <2>4, <2>5, <2>6, MoveStep
<1>4. ASSUME NEW n \in Numbers, EndTrip(n)
      PROVE  IInv'
  <2> DEFINE b == [book[n] EXCEPT
                     !.status = IF book[n].exempt THEN "COMPLETED" ELSE "SETTLEMENT_PENDING",
                     !.due = AmountAtTripEnd(book[n])]
  <2>1. RowInv(book[n], noted[n]) /\ book[n].status = "DRIVER_ASSIGNED"
    BY <1>4 DEF EndTrip, IInv, NumberInv
  <2>2. RowInv(b, noted[n])
    BY <2>1, EndKeepsRow
  <2>3. book' = [book EXCEPT ![n] = b] /\ UNCHANGED <<noted, edits>>
    BY <1>4 DEF EndTrip, IInv, TypeOK
  <2> HIDE DEF b
  <2> QED BY <2>2, <2>3, MoveStep
<1> QED BY <1>0, <1>1, <1>2, <1>3, <1>4 DEF Next

(* The inductive invariant of the money of manual bookings.                *)
THEOREM MoneyInvariance == Spec => []IInv
  BY Initially, Keeps, PTL DEF Spec

(* The total is the sum of the items and the charge agreed.                *)
THEOREM BooksAlwaysBalance == Spec => []BooksBalance
<1>1. IInv => BooksBalance
  BY DEF IInv, NumberInv, RowInv, BooksBalance, Known
<1> QED BY <1>1, MoneyInvariance, PTL

(* The driver who collected owes what exceeds his payout, nobody else does.*)
THEOREM SurplusIsOwed == Spec => []DriverOwesSurplus
<1>1. ASSUME NEW b, NEW note, RowInv(b, note), b.due # None
      PROVE  b.due = IF b.paid THEN 0 ELSE Surplus(b.total, b.meta.payout)
  <2>1. /\ b.due = Settlement(b.meta.payout, b.total, b.method)
        /\ b.paid = Collected(b.method) /\ b.method \in Methods
    BY <1>1 DEF RowInv, Row
  <2> QED BY <2>1 DEF Settlement, Methods, Collected
<1>2. IInv => DriverOwesSurplus
  BY <1>1 DEF IInv, NumberInv, DriverOwesSurplus, Known
<1> QED BY <1>2, MoneyInvariance, PTL

(* A charge that was entered stands until another is.                      *)
THEOREM ChargesStand == Spec => []EnteredChargeStands
<1>1. IInv => EnteredChargeStands
  BY DEF IInv, NumberInv, RowInv, EnteredChargeStands, Known
<1> QED BY <1>1, MoneyInvariance, PTL

(* The copies of a manual booking's money agree, whatever the other        *)
(* bookings do.                                                            *)
THEOREM MoneyAlwaysAgrees == BookingsSpec => []MoneyAgrees
<1>1. BookingsInit => Init
  BY DEF BookingsInit
<1>2. [BookingsNext]_bookingsVars => [Next]_vars
  BY DEF BookingsNext, ManualStep, CreationStep, ContactStep, bookingsVars
<1>3. BookingsSpec => Spec
  BY <1>1, <1>2, PTL DEF BookingsSpec, Spec
<1>4. []BooksBalance /\ []DriverOwesSurplus /\ []EnteredChargeStands => []MoneyAgrees
  <2>1. BooksBalance /\ DriverOwesSurplus /\ EnteredChargeStands => MoneyAgrees
    BY DEF MoneyAgrees
  <2> QED BY <2>1, PTL
<1> QED BY <1>3, <1>4, BooksAlwaysBalance, SurplusIsOwed, ChargesStand, PTL

-----------------------------------------------------------------------------
(* Sums over functions with a finite domain.  SumFunction takes the elements  *)
(* in an order that it chooses, so that a sum is known through a function  *)
(* on the subsets of the domain; that the function exists, and what one    *)
(* changed element does to it, is by counting up the subsets' sizes.       *)
LEMMA LeastNumber ==
  ASSUME NEW T \in SUBSET Nat, T # {}
  PROVE  \E n \in T : \A m \in T : ~(m < n)
<1> DEFINE R == OpToRel(<, Nat)
<1>1. \A m, n \in Nat : m < n => <<m, n>> \in R
  BY Z3 DEF OpToRel
<1>2. IsWellFoundedOn(R, Nat)
  BY NatLessThanWellFounded, Zenon
<1> HIDE DEF R
<1>3. \E n \in T : \A m \in T : <<m, n>> \notin R
  BY <1>2, WFMin, Zenon
<1> QED BY <1>1, <1>3

(* Natural induction, of a set.                                            *)
LEMMA CountUp ==
  ASSUME NEW T \in SUBSET Nat, 0 \in T, \A n \in T : n + 1 \in T
  PROVE  T = Nat
<1> SUFFICES ASSUME Nat \ T # {}
             PROVE  FALSE
  OBVIOUS
<1>1. PICK n \in Nat \ T : \A m \in Nat \ T : ~(m < n)
  BY LeastNumber, Zenon
<1>2. n # 0 /\ n - 1 \in Nat
  BY <1>1
<1>3. n - 1 \in T
  BY <1>1, <1>2
<1> QED BY <1>1, <1>2, <1>3

Pick(s) == CHOOSE x \in s : TRUE

(* g sums up f over the subsets of S, one chosen element after the other.  *)
SumsUp(g, f, S) ==
  g = [s \in SUBSET S |-> IF s = {} THEN 0 ELSE f[Pick(s)] + g[s \ {Pick(s)}]]

(* The element that a sum takes next is one of the set.                    *)
LEMMA PickType ==
  ASSUME NEW s, s # {}
  PROVE  Pick(s) \in s
  BY Zenon DEF Pick

(* There is a function that sums f up: for the sets of up to n elements,   *)
(* for every n.                                                            *)
LEMMA SumExists ==
  ASSUME NEW S, IsFiniteSet(S), NEW f \in [S -> Int]
  PROVE  \E g : SumsUp(g, f, S)
<1> DEFINE Upto(n) == {s \in SUBSET S : Cardinality(s) <= n}
           Def(g, n) == /\ g \in [Upto(n) -> Int]
                        /\ \A s \in Upto(n) :
                             g[s] = IF s = {} THEN 0
                                    ELSE f[Pick(s)] + g[s \ {Pick(s)}]
           T == {n \in Nat : \E g : Def(g, n)}
<1>1. \A s \in SUBSET S : IsFiniteSet(s) /\ Cardinality(s) \in Nat
                          /\ (Cardinality(s) = 0 <=> s = {})
  BY FS_Subset, FS_CardinalityType, FS_EmptySet
<1>2. 0 \in T
  <2> DEFINE g == [s \in Upto(0) |-> 0]
  <2>1. Upto(0) = {{}}
    BY <1>1, FS_EmptySet
  <2>2. Def(g, 0)
    BY <2>1
  <2> QED BY <2>2
<1>3. ASSUME NEW n \in T
      PROVE  n + 1 \in T
  <2>1. PICK g : Def(g, n)
    OBVIOUS
  <2> DEFINE h == [s \in Upto(n + 1) |->
                     IF s = {} THEN 0 ELSE f[Pick(s)] + g[s \ {Pick(s)}]]
  <2>2. ASSUME NEW s \in Upto(n + 1), s # {}
        PROVE  /\ Pick(s) \in S /\ s \ {Pick(s)} \in Upto(n)
    <3>1. Pick(s) \in s
      BY <2>2, PickType
    <3>2. Cardinality(s \ {Pick(s)}) = Cardinality(s) - 1
      BY <3>1, <1>1, FS_RemoveElement
    <3> QED BY <3>1, <3>2, <1>1
  <2>3. \A s \in Upto(n + 1) : h[s] \in Int
    <3> SUFFICES ASSUME NEW s \in Upto(n + 1)
                 PROVE  h[s] \in Int
      OBVIOUS
    <3>1. CASE s = {}
      BY <3>1
    <3>2. CASE s # {}
      BY <3>2, <2>1, <2>2
    <3> QED BY <3>1, <3>2
  <2>4. \A s \in Upto(n) : s \in Upto(n + 1) /\ h[s] = g[s]
    <3>1. \A s \in Upto(n) : s \in Upto(n + 1)
      BY <1>1
    <3> QED BY <3>1, <2>1
  <2>5. ASSUME NEW s \in Upto(n + 1)
        PROVE  h[s] = IF s = {} THEN 0 ELSE f[Pick(s)] + h[s \ {Pick(s)}]
    <3>1. CASE s = {}
      BY <3>1
    <3>2. CASE s # {}
      BY <3>2, <2>2, <2>4
    <3> QED BY <3>1, <3>2
  <2>6. h \in [Upto(n + 1) -> Int]
    BY <2>3
  <2>7. Def(h, n + 1)
    BY <2>5, <2>6
  <2> HIDE DEF h, Def
  <2> QED BY <2>7
<1>4. T = Nat
  <2> HIDE DEF T
  <2>1. T \in SUBSET Nat
    BY DEF T
  <2> QED BY <2>1, <1>2, <1>3, CountUp
<1>5. Cardinality(S) \in Nat /\ Upto(Cardinality(S)) = SUBSET S
  BY FS_Subset, FS_CardinalityType
<1>6. PICK g : Def(g, Cardinality(S))
  BY <1>4, <1>5
<1>7. SumsUp(g, f, S)
  BY <1>5, <1>6 DEF SumsUp
<1> QED BY <1>7

(* SumFunction is the value of such a function for the whole domain.       *)
LEMMA SumFunctionIs ==
  ASSUME NEW S, IsFiniteSet(S), NEW f \in [S -> Int]
  PROVE  \E g : SumsUp(g, f, S) /\ Creation!SumFunction(f) = g[S]
<1> DEFINE G == CHOOSE g : SumsUp(g, f, S)
<1>1. SumsUp(G, f, S)
  BY SumExists, Zenon
<1>2. Creation!SumFunction(f) = LET iter[s \in SUBSET DOMAIN f] ==
                                      IF s = {} THEN 0
                                      ELSE f[CHOOSE x \in s : TRUE] + iter[s \ {CHOOSE x \in s : TRUE}]
                                IN  iter[DOMAIN f]
  BY Zenon DEF Creation!SumFunction, Creation!SumFunctionOnSet,
     Creation!FoldFunctionOnSet, Creation!MapThenFoldSet
<1>3. DOMAIN f = S
  OBVIOUS
<1>4. Creation!SumFunction(f) = G[S]
  BY <1>2, <1>3, Zenon DEF SumsUp, Pick
<1> QED BY <1>1, <1>4

(* Where two functions differ in one element only, so do their sums.       *)
LEMMA SumChanges ==
  ASSUME NEW S, IsFiniteSet(S), NEW f \in [S -> Int], NEW h \in [S -> Int],
         NEW m \in S, \A i \in S \ {m} : h[i] = f[i]
  PROVE  /\ Creation!SumFunction(f) \in Int
         /\ Creation!SumFunction(h) = Creation!SumFunction(f) + h[m] - f[m]
<1>1. PICK F : SumsUp(F, f, S) /\ Creation!SumFunction(f) = F[S]
  BY SumFunctionIs
<1>2. PICK H : SumsUp(H, h, S) /\ Creation!SumFunction(h) = H[S]
  BY SumFunctionIs
<1> DEFINE Agree(s) == /\ F[s] \in Int
                       /\ H[s] = F[s] + IF m \in s THEN h[m] - f[m] ELSE 0
           T == {n \in Nat : \A s \in SUBSET S : Cardinality(s) <= n => Agree(s)}
<1>3. \A s \in SUBSET S : IsFiniteSet(s) /\ Cardinality(s) \in Nat
                          /\ (Cardinality(s) = 0 <=> s = {})
  BY FS_Subset, FS_CardinalityType, FS_EmptySet
<1>4. \A s \in SUBSET S :
        /\ F[s] = IF s = {} THEN 0 ELSE f[Pick(s)] + F[s \ {Pick(s)}]
        /\ H[s] = IF s = {} THEN 0 ELSE h[Pick(s)] + H[s \ {Pick(s)}]
  BY <1>1, <1>2, Zenon DEF SumsUp
<1>5. 0 \in T
  <2> SUFFICES ASSUME NEW s \in SUBSET S, Cardinality(s) <= 0
               PROVE  Agree(s)
    OBVIOUS
  <2>1. s = {}
    BY <1>3
  <2>2. F[s] = 0 /\ H[s] = 0 /\ m \notin s
    BY <2>1, <1>4
  <2> QED BY <2>2
<1>6. ASSUME NEW n \in T
      PROVE  n + 1 \in T
  <2> SUFFICES ASSUME NEW s \in SUBSET S, Cardinality(s) <= n + 1
               PROVE  Agree(s)
    OBVIOUS
  <2>1. CASE s = {}
    BY <2>1, <1>4
  <2>2. CASE s # {}
    <3>1. Pick(s) \in s
      BY <2>2, PickType
    <3>2. Cardinality(s \ {Pick(s)}) = Cardinality(s) - 1
      BY <3>1, <1>3, FS_RemoveElement
    <3>3. s \ {Pick(s)} \in SUBSET S /\ Cardinality(s \ {Pick(s)}) <= n
      BY <3>2, <1>3
    <3>4. Agree(s \ {Pick(s)})
      BY <3>3
    <3>5. F[s] = f[Pick(s)] + F[s \ {Pick(s)}] /\ H[s] = h[Pick(s)] + H[s \ {Pick(s)}]
      BY <2>2, <1>4
    <3>6. f[Pick(s)] \in Int /\ h[Pick(s)] \in Int /\ f[m] \in Int /\ h[m] \in Int
      BY <3>1
    <3>7. CASE Pick(s) = m
      BY <3>1, <3>4, <3>5, <3>6, <3>7
    <3>8. CASE Pick(s) # m
      <4>1. h[Pick(s)] = f[Pick(s)]
        BY <3>1, <3>8
      <4>2. m \in s <=> m \in s \ {Pick(s)}
        BY <3>8
      <4> QED BY <3>4, <3>5, <3>6, <4>1, <4>2
    <3> QED BY <3>7, <3>8
  <2> QED BY <2>1, <2>2
<1>7. T = Nat
  <2> HIDE DEF T
  <2>1. T \in SUBSET Nat
    BY DEF T
  <2> QED BY <2>1, <1>5, <1>6, CountUp
<1>8. Agree(S)
  BY <1>7, FS_CardinalityType
<1> QED BY <1>1, <1>2, <1>8

(* Nothing sums up to nothing.                                             *)
LEMMA SumOfZeros ==
  ASSUME NEW S, IsFiniteSet(S), NEW f \in [S -> Int], \A i \in S : f[i] = 0
  PROVE  Creation!SumFunction(f) = 0
<1>1. PICK F : SumsUp(F, f, S) /\ Creation!SumFunction(f) = F[S]
  BY SumFunctionIs
<1> DEFINE T == {n \in Nat : \A s \in SUBSET S : Cardinality(s) <= n => F[s] = 0}
<1>2. \A s \in SUBSET S : IsFiniteSet(s) /\ Cardinality(s) \in Nat
                          /\ (Cardinality(s) = 0 <=> s = {})
  BY FS_Subset, FS_CardinalityType, FS_EmptySet
<1>3. \A s \in SUBSET S : F[s] = IF s = {} THEN 0 ELSE f[Pick(s)] + F[s \ {Pick(s)}]
  BY <1>1, Zenon DEF SumsUp
<1>4. 0 \in T
  BY <1>2, <1>3
<1>5. ASSUME NEW n \in T
      PROVE  n + 1 \in T
  <2> SUFFICES ASSUME NEW s \in SUBSET S, Cardinality(s) <= n + 1
               PROVE  F[s] = 0
    OBVIOUS
  <2>1. CASE s = {}
    BY <2>1, <1>3
  <2>2. CASE s # {}
    <3>1. Pick(s) \in s
      BY <2>2, PickType
    <3>2. Cardinality(s \ {Pick(s)}) = Cardinality(s) - 1
      BY <3>1, <1>2, FS_RemoveElement
    <3>3. F[s \ {Pick(s)}] = 0
      BY <3>2, <1>2
    <3> QED BY <1>3, <2>2, <3>1, <3>3
  <2> QED BY <2>1, <2>2
<1>6. T = Nat
  <2> HIDE DEF T
  <2>1. T \in SUBSET Nat
    BY DEF T
  <2> QED BY <2>1, <1>4, <1>5, CountUp
<1> QED BY <1>1, <1>6, FS_CardinalityType

(* A request's transaction is under way, its key row written.              *)
Writing == {"quote", "number", "first", "write", "redeem", "finish"}
(* Its booking has a number.                                               *)
Numbered == {"write", "redeem", "finish"}
(* Its price is worked out.                                                *)
Quoted == {"number", "first", "write", "redeem", "finish"}
Effects == {"account", "open", "post"}

(* A PENDING row is seen by the transaction that writes it alone; a        *)
(* COMPLETED one names a booking made from the same request, the only      *)
(* recent one with its key.                                                *)
KeyInv(k) ==
  /\ keys[k].status = "PENDING" <=> lock[k] # NoTask
  /\ lock[k] # NoTask =>
       /\ task[lock[k]].at \in Writing
       /\ task[lock[k]].request.key = k
       /\ keys[k].body = task[lock[k]].request.body
  /\ keys[k].expired => keys[k].status = "COMPLETED"
  /\ keys[k].status = "COMPLETED" =>
       /\ keys[k].booking \in 1..sequence
       /\ bookings[keys[k].booking].key = k
       /\ bookings[keys[k].booking].body = keys[k].body
  /\ \A n \in Creation!RowIds :
       bookings[n].recent /\ bookings[n].key = k =>
         /\ keys[k].status = "COMPLETED" /\ ~keys[k].expired
         /\ keys[k].booking = n

(* What a request holds at each step of its way.                           *)
HoldsKey(t) ==
  task[t].request.key # NoKey =>
    /\ task[t].at = "insert" =>
         /\ keys[task[t].request.key].status = "NONE"
         /\ t \in gap[task[t].request.key]
    /\ task[t].at \in Writing => lock[task[t].request.key] = t
    /\ task[t].at = "answered" =>
         /\ task[t].number \in 1..sequence
         /\ bookings[task[t].number].key = task[t].request.key
         /\ bookings[task[t].number].body = task[t].request.body

HoldsSequence(t) ==
  /\ task[t].at = "first" =>
       /\ sequence = 0 /\ MaxBookings > 0
       /\ t \in gap["sequence"] /\ lock["sequence"] = NoTask
  /\ task[t].at \in Numbered =>
       /\ task[t].number = sequence + 1 /\ sequence < MaxBookings
       /\ lock["sequence"] = t
  /\ lock["sequence"] = t => task[t].at \in Numbered

HoldsCoupon(t) ==
  task[t].at \in {"redeem", "finish"} /\ task[t].request.coupon # NoCoupon =>
    /\ lock[task[t].request.coupon] = t
    /\ coupons[task[t].request.coupon].status = "AVAILABLE"

HoldsAccount(t) ==
  task[t].at = "finish" /\ Creation!Baht(t) > 0 =>
    /\ lock["account"] = t
    /\ account.balance >= Creation!Baht(t)

(* What a task has worked out fits what it works on.                       *)
Charged(t) ==
  task[t].at \in Quoted => task[t].discount + task[t].mileage <= task[t].request.fare

JobInv(t) ==
  /\ task[t].at \in {"begin", "insert"} => task[t].request.key # NoKey
  /\ task[t].at = "idle" => task[t].job = "none"
  /\ task[t].job \in {"accrue", "refund"} <=> task[t].at \in Effects

TaskInv(t) ==
  /\ HoldsKey(t) /\ HoldsSequence(t) /\ HoldsCoupon(t) /\ HoldsAccount(t)
  /\ Charged(t) /\ JobInv(t)

(* Bookings are numbered in the order of their commits.                    *)
OrderInv(n) ==
  n > sequence =>
    bookings[n].status = "NONE" /\ ~bookings[n].recent /\ ledger[n] = Creation!NoLedger



BalanceInv ==
  /\ account.balance >= 0
  /\ ~account.exists => account.balance = 0
  /\ account.balance = account.opening + Creation!SumFunction(Creation!Movement)

(* The mileage of an end is posted once, and only by the task that ended   *)
(* the booking.                                                            *)
LedgerInv(n) ==
  /\ ledger[n].accrue \in {0, Creation!Accrual(n)}
  /\ ledger[n].reversal \in {0, ledger[n].redeem}
  /\ bookings[n].status \in {"NONE", "OPEN"} =>
       ledger[n].accrue = 0 /\ ledger[n].reversal = 0
EffectInv(t) ==
  task[t].job \in {"accrue", "refund"} =>
    /\ task[t].number \in 1..sequence
    /\ task[t].job = "accrue" =>
         bookings[task[t].number].status = "ENDED" /\ ledger[task[t].number].accrue = 0
    /\ task[t].job = "refund" =>
         /\ bookings[task[t].number].status = "CANCELLED"
         /\ ledger[task[t].number].reversal = 0
    /\ \A u \in Tasks \ {t} :
         ~(task[u].job \in {"accrue", "refund"} /\ task[u].number = task[t].number)

CreationInv ==
  /\ Creation!TypeOK
  /\ \A k \in Keys : KeyInv(k)
  /\ \A t \in Tasks : TaskInv(t)
  /\ \A n \in Creation!RowIds : OrderInv(n)
  /\ Creation!CouponSpentOnce
  /\ BalanceInv
  /\ \A n \in Creation!RowIds : LedgerInv(n)
  /\ \A t \in Tasks : EffectInv(t)

-----------------------------------------------------------------------------
AnyRequest == [key: Keys \cup {NoKey}, body: Bodies, fare: Nat,
               coupon: Coupons \cup {NoCoupon}, mileage: Nat, member: BOOLEAN]

(* There is a fingerprint to fill empty rows with.                         *)
LEMMA BodyType == Creation!AnyBody \in Bodies
  BY CreationAssumption, Zenon DEF Creation!AnyBody

(* The fields of a request have the types of the API's.                    *)
LEMMA RequestType ==
  ASSUME NEW r \in Requests \cup {Creation!NoRequest}
  PROVE  /\ r \in AnyRequest /\ r.key \in Keys \cup {NoKey} /\ r.body \in Bodies
         /\ r.fare \in Nat /\ r.coupon \in Coupons \cup {NoCoupon} /\ r.mileage \in Nat
         /\ r.member \in BOOLEAN
<1>1. Creation!NoRequest \in AnyRequest
  BY BodyType DEF Creation!NoRequest, AnyRequest
<1>2. r \in AnyRequest
  BY <1>1, CreationAssumption DEF AnyRequest
<1> QED BY <1>2 DEF AnyRequest

(* The other tasks are where they were.                                    *)
Others(t) == \A u \in Tasks \ {t} : task'[u] = task[u]
Goes(t, at) ==
  /\ Others(t)
  /\ task'[t].at = at /\ task'[t].job = task[t].job
  /\ task'[t].request = task[t].request /\ task'[t].number = task[t].number
  /\ task'[t].discount = task[t].discount /\ task'[t].mileage = task[t].mileage
Idles(t) ==
  /\ Others(t)
  /\ task'[t].at = "idle" /\ task'[t].job = "none"
  /\ task'[t].request = Creation!NoRequest /\ task'[t].number = Creation!Unset
  /\ task'[t].discount = 0 /\ task'[t].mileage = 0
TasksType == task \in [Tasks -> Creation!TaskState]

(* A task that waits for its next request is a task.                       *)
LEMMA IdleType == Creation!Idle \in Creation!TaskState
  BY DEF Creation!Idle, Creation!TaskState, Creation!At

(* Going on to another statement changes nothing else of the task.         *)
LEMMA GoEffect ==
  ASSUME TasksType, NEW t \in Tasks, NEW at \in Creation!At, Creation!Go(t, at)
  PROVE  TasksType' /\ Goes(t, at)
<1>1. task[t] \in Creation!TaskState
  BY DEF TasksType
<1>2. [task[t] EXCEPT !.at = at] \in Creation!TaskState
  BY <1>1 DEF Creation!TaskState
<1>3. task' = [task EXCEPT ![t] = [task[t] EXCEPT !.at = at]]
  BY DEF Creation!Go
<1>4. TasksType'
  BY <1>2, <1>3 DEF TasksType
<1>5. task'[t] = [task[t] EXCEPT !.at = at]
  BY <1>3 DEF TasksType
<1>6. Others(t)
  BY <1>3 DEF Others, TasksType
<1> QED BY <1>1, <1>4, <1>5, <1>6 DEF Goes, Creation!TaskState

(* The end of its work leaves nothing of it in the task.                   *)
LEMMA IdleEffect ==
  ASSUME TasksType, NEW t \in Tasks, task' = [task EXCEPT ![t] = Creation!Idle]
  PROVE  TasksType' /\ Idles(t)
<1>1. TasksType' /\ Others(t) /\ task'[t] = Creation!Idle
  BY IdleType DEF TasksType, Others
<1> QED BY <1>1 DEF Idles, Creation!Idle

(* The end of a transaction releases its locks and no others.              *)
LEMMA ReleaseEffect ==
  ASSUME NEW t \in Tasks, Creation!Release(t),
         lock \in [Creation!Rows -> Tasks \cup {NoTask}], gap \in [Creation!Rows -> SUBSET Tasks]
  PROVE  /\ lock' \in [Creation!Rows -> Tasks \cup {NoTask}]
         /\ gap' \in [Creation!Rows -> SUBSET Tasks]
         /\ \A r \in Creation!Rows : lock'[r] = IF lock[r] = t THEN NoTask ELSE lock[r]
         /\ \A r \in Creation!Rows : gap'[r] = gap[r] \ {t}
  BY DEF Creation!Release

(* A locking read: the row is locked if it exists, else its gap is.        *)
LEMMA LockEffect ==
  ASSUME NEW t \in Tasks, NEW r \in Creation!Rows, Creation!LockRead(t, r),
         lock \in [Creation!Rows -> Tasks \cup {NoTask}], gap \in [Creation!Rows -> SUBSET Tasks]
  PROVE  /\ lock' \in [Creation!Rows -> Tasks \cup {NoTask}]
         /\ gap' \in [Creation!Rows -> SUBSET Tasks]
         /\ lock[r] \in {t, NoTask}
         /\ \A x \in Creation!Rows \ {r} : lock'[x] = lock[x] /\ gap'[x] = gap[x]
         /\ Creation!Stored(r) => lock'[r] = t /\ gap'[r] = gap[r]
         /\ ~Creation!Stored(r) => lock'[r] = lock[r] /\ gap'[r] = gap[r] \cup {t}
  BY DEF Creation!LockRead, Creation!Free

(* An insert: nobody else had locked the row or its gap.                   *)
LEMMA InsertEffect ==
  ASSUME NEW t \in Tasks, NEW r \in Creation!Rows, Creation!InsertRow(t, r),
         lock \in [Creation!Rows -> Tasks \cup {NoTask}], gap \in [Creation!Rows -> SUBSET Tasks]
  PROVE  /\ lock' \in [Creation!Rows -> Tasks \cup {NoTask}]
         /\ gap' \in [Creation!Rows -> SUBSET Tasks]
         /\ lock[r] = NoTask /\ gap[r] \subseteq {t} /\ gap' = gap
         /\ lock'[r] = t
         /\ \A x \in Creation!Rows \ {r} : lock'[x] = lock[x]
  BY DEF Creation!InsertRow

(* When a row of each table exists.                                        *)
LEMMA StoredRows ==
  ASSUME Creation!TypeOK
  PROVE  /\ \A k \in Keys : k \in Creation!Rows /\ (Creation!Stored(k) <=> keys[k].status # "NONE")
         /\ "sequence" \in Creation!Rows /\ (Creation!Stored("sequence") <=> sequence > 0)
         /\ "account" \in Creation!Rows /\ (Creation!Stored("account") <=> account.exists)
         /\ \A c \in Coupons : c \in Creation!Rows
<1>1. \A k \in Keys : k \in Creation!Rows /\ (Creation!Stored(k) <=> keys[k].status # "NONE")
  <2> SUFFICES ASSUME NEW k \in Keys
               PROVE  k \in Creation!Rows /\ (Creation!Stored(k) <=> keys[k].status # "NONE")
    OBVIOUS
  <2>1. k \notin Coupons /\ k # "sequence" /\ k # "account"
    BY CreationAssumption
  <2> QED BY <2>1 DEF Creation!Stored, Creation!Rows
<1>2. "sequence" \notin Keys /\ "sequence" \notin Coupons
      /\ "account" \notin Keys /\ "account" \notin Coupons
  BY CreationAssumption
<1>3. "sequence" \in Creation!Rows /\ (Creation!Stored("sequence") <=> sequence > 0)
  BY <1>2 DEF Creation!Stored, Creation!Rows
<1>4. "account" \in Creation!Rows /\ (Creation!Stored("account") <=> account.exists)
  BY <1>2 DEF Creation!Stored, Creation!Rows, Creation!TypeOK, Creation!AccountRow
<1>5. \A c \in Coupons : c \in Creation!Rows
  BY DEF Creation!Rows
<1> QED BY <1>1, <1>3, <1>4, <1>5

-----------------------------------------------------------------------------
(* What a task relies on is left alone.                                    *)
Undisturbed(u) ==
  /\ task'[u] = task[u]
  /\ \A r \in Creation!Rows : /\ lock[r] = u => lock'[r] = u
                              /\ u \in gap[r] => u \in gap'[r]
  /\ task[u].at = "first" => lock'["sequence"] = NoTask
  /\ lock'["sequence"] = u => lock["sequence"] = u
  /\ task[u].at = "insert" => keys'[task[u].request.key].status = "NONE"
  /\ task[u].at \in Numbered \cup {"first"} => sequence' = sequence
  /\ sequence' >= sequence
  /\ \A n \in 1..sequence : bookings'[n].key = bookings[n].key
                            /\ bookings'[n].body = bookings[n].body
  /\ \A c \in Coupons : lock[c] = u /\ coupons[c].status = "AVAILABLE" =>
                          coupons'[c].status = "AVAILABLE"
  /\ lock["account"] = u => account'.balance >= account.balance

(* A task that a step leaves undisturbed is still in order.                *)
LEMMA TaskKept ==
  ASSUME Creation!TypeOK, Creation!TypeOK', NEW u \in Tasks, TaskInv(u), Undisturbed(u)
  PROVE  TaskInv(u)'
<1>0. task[u] \in Creation!TaskState /\ task[u].request.key \in Keys \cup {NoKey}
      /\ task[u].request.coupon \in Coupons \cup {NoCoupon}
  <2>1. task[u].request \in Requests \cup {Creation!NoRequest} /\ task[u] \in Creation!TaskState
    BY DEF Creation!TypeOK, Creation!TaskState
  <2> QED BY <2>1, RequestType
<1>1. HoldsKey(u)'
  <2>1. task[u].request.key # NoKey => task[u].request.key \in Creation!Rows
    BY <1>0, StoredRows
  <2>2. ASSUME task[u].at = "answered", task[u].request.key # NoKey
        PROVE  (/\ task[u].number \in 1..sequence
                /\ bookings[task[u].number].key = task[u].request.key
                /\ bookings[task[u].number].body = task[u].request.body)'
    BY <2>2 DEF TaskInv, HoldsKey, Undisturbed, Creation!TypeOK
  <2> QED BY <2>1, <2>2 DEF TaskInv, HoldsKey, Undisturbed
<1>2. HoldsSequence(u)'
  BY StoredRows DEF TaskInv, HoldsSequence, Undisturbed, Numbered
<1>3. HoldsCoupon(u)'
  BY <1>0, StoredRows DEF TaskInv, HoldsCoupon, Undisturbed
<1>4. HoldsAccount(u)'
  <2>1. Creation!Baht(u)' = Creation!Baht(u) /\ task'[u] = task[u]
    BY DEF Undisturbed, Creation!Baht
  <2>2. account.balance \in Int /\ account'.balance \in Int
    BY DEF Creation!TypeOK, Creation!AccountRow
  <2>3. Creation!Baht(u) \in Int
    BY <1>0 DEF Creation!Baht, Creation!TaskState
  <2> QED BY <2>1, <2>2, <2>3, StoredRows DEF TaskInv, HoldsAccount, Undisturbed
<1>5. Charged(u)' /\ JobInv(u)'
  BY DEF TaskInv, Charged, JobInv, Undisturbed
<1> QED BY <1>1, <1>2, <1>3, <1>4, <1>5 DEF TaskInv

(* Steps that leave the tables alone, but for the keys.                    *)
LEMMA TablesKept ==
  ASSUME CreationInv, UNCHANGED <<coupons, sequence, bookings, account, ledger>>,
         \A u \in Tasks : task'[u].job \in {"accrue", "refund"} =>
                            task'[u].job = task[u].job /\ task'[u].number = task[u].number
  PROVE  /\ (\A n \in Creation!RowIds : OrderInv(n))'
         /\ Creation!CouponSpentOnce' /\ BalanceInv'
         /\ (\A n \in Creation!RowIds : LedgerInv(n))'
         /\ (\A t \in Tasks : EffectInv(t))'
<1>1. /\ coupons' = coupons /\ sequence' = sequence
      /\ bookings' = bookings /\ account' = account /\ ledger' = ledger
  OBVIOUS
<1>2. (\A n \in Creation!RowIds : OrderInv(n))'
  BY <1>1 DEF CreationInv, OrderInv
<1>3. Creation!CouponSpentOnce'
  BY <1>1 DEF CreationInv, Creation!CouponSpentOnce
<1>4. BalanceInv'
  <2>1. Creation!Movement' = Creation!Movement
    BY <1>1 DEF Creation!Movement
  <2> QED BY <1>1, <2>1 DEF CreationInv, BalanceInv
<1>5. (\A n \in Creation!RowIds : LedgerInv(n))'
  BY <1>1 DEF CreationInv, LedgerInv, Creation!Accrual
<1>6. (\A t \in Tasks : EffectInv(t))'
  <2> SUFFICES ASSUME NEW t \in Tasks
               PROVE  EffectInv(t)'
    OBVIOUS
  <2>1. EffectInv(t)
    BY DEF CreationInv
  <2> QED BY <1>1, <2>1 DEF EffectInv
<1> QED BY <1>2, <1>3, <1>4, <1>5, <1>6

(* Key rows that are left alone, with their locks and bookings.            *)
LEMMA KeysKept ==
  ASSUME CreationInv, NEW k \in Keys, keys'[k] = keys[k], lock'[k] = lock[k],
         lock[k] # NoTask =>
           /\ task'[lock[k]].at \in Writing
           /\ task'[lock[k]].request = task[lock[k]].request,
         sequence' >= sequence, sequence' \in Nat,
         \A n \in 1..sequence : /\ bookings'[n].key = bookings[n].key
                                /\ bookings'[n].body = bookings[n].body,
         \A n \in Creation!RowIds : bookings'[n].recent /\ bookings'[n].key = k =>
                                      bookings[n].recent /\ bookings[n].key = k
  PROVE  KeyInv(k)'
<1>1. KeyInv(k) /\ k \in Creation!Rows /\ sequence \in 0..MaxBookings
  BY StoredRows DEF CreationInv, Creation!TypeOK
<1>2. keys[k].status = "COMPLETED" =>
        keys[k].booking \in 1..sequence /\ keys[k].booking \in Creation!RowIds
        /\ keys[k].booking \in 1..sequence'
  BY <1>1, CreationAssumption DEF KeyInv, Creation!RowIds
<1> QED BY <1>1, <1>2 DEF KeyInv

-----------------------------------------------------------------------------
(* Steps of one task that change no table.                                 *)
Quiet(t) ==
  /\ UNCHANGED <<Creation!tables, faults>>
  /\ TasksType' /\ Others(t)
  /\ lock' \in [Creation!Rows -> Tasks \cup {NoTask}]
  /\ gap' \in [Creation!Rows -> SUBSET Tasks]
  /\ \A r \in Creation!Rows : /\ lock'[r] = lock[r] \/ (lock[r] = NoTask /\ lock'[r] = t)
                              /\ gap[r] \subseteq gap'[r]
  /\ \A k \in Keys : lock'[k] = lock[k]
  /\ \A u \in Tasks \ {t} : task[u].at = "first" => lock'["sequence"] = NoTask
  /\ task[t].at \in Writing =>
       task'[t].at \in Writing /\ task'[t].request = task[t].request
  /\ task'[t].job \in {"accrue", "refund"} =>
       task'[t].job = task[t].job /\ task'[t].number = task[t].number

(* A step that changes no table keeps the invariant if its task is in      *)
(* order.                                                                  *)
LEMMA QuietStep ==
  ASSUME CreationInv, NEW t \in Tasks, Quiet(t), Creation!TypeOK' => TaskInv(t)'
  PROVE  CreationInv'
<1>0. Creation!TypeOK
  BY DEF CreationInv
<1>1. /\ keys' = keys /\ coupons' = coupons /\ sequence' = sequence
      /\ bookings' = bookings /\ account' = account /\ ledger' = ledger
      /\ faults' = faults
  BY DEF Creation!tables, Quiet
<1>2. Creation!TypeOK'
  BY <1>0, <1>1 DEF Quiet, Creation!TypeOK, TasksType
<1>3. (\A u \in Tasks : TaskInv(u))'
  <2>1. ASSUME NEW u \in Tasks \ {t}
        PROVE  TaskInv(u)'
    <3>1. Undisturbed(u)
      <4>1. sequence \in Nat /\ account.balance \in Int
        BY <1>0, CreationAssumption DEF Creation!TypeOK, Creation!AccountRow
      <4>2. task[u].at = "insert" => keys[task[u].request.key].status = "NONE"
        BY DEF CreationInv, TaskInv, HoldsKey, JobInv
      <4>3. /\ \A r \in Creation!Rows : lock[r] = u => lock'[r] = u
            /\ lock'["sequence"] = u => lock["sequence"] = u
        BY <1>0, StoredRows, CreationAssumption DEF Quiet
      <4> QED BY <1>1, <4>1, <4>2, <4>3 DEF Quiet, Others, Undisturbed
    <3>2. TaskInv(u)
      BY DEF CreationInv
    <3> QED BY <1>0, <1>2, <3>1, <3>2, TaskKept
  <2> QED BY <2>1, <1>2
<1>4. (\A k \in Keys : KeyInv(k))'
  <2> SUFFICES ASSUME NEW k \in Keys
               PROVE  KeyInv(k)'
    BY DEF KeyInv
  <2>1. lock[k] \in Tasks \cup {NoTask} /\ sequence \in Nat
    BY <1>0, StoredRows, CreationAssumption DEF Creation!TypeOK
  <2>2. lock[k] # NoTask =>
          /\ task'[lock[k]].at \in Writing
          /\ task'[lock[k]].request = task[lock[k]].request
    BY <2>1 DEF CreationInv, KeyInv, Quiet, Others
  <2> QED BY <1>1, <2>1, <2>2, KeysKept DEF Quiet
<1>5. \A u \in Tasks : task'[u].job \in {"accrue", "refund"} =>
        task'[u].job = task[u].job /\ task'[u].number = task[u].number
  BY DEF Quiet, Others
<1> QED BY <1>1, <1>2, <1>3, <1>4, <1>5, TablesKept DEF CreationInv, Quiet

(* What is known of a task before its step.                                *)
LEMMA TaskFacts ==
  ASSUME CreationInv, NEW t \in Tasks
  PROVE  /\ Creation!TypeOK /\ TaskInv(t) /\ TasksType
         /\ lock \in [Creation!Rows -> Tasks \cup {NoTask}]
         /\ gap \in [Creation!Rows -> SUBSET Tasks]
         /\ task[t] \in Creation!TaskState
         /\ task[t].at \in Creation!At
         /\ task[t].job \in {"none", "create", "accrue", "refund"}
         /\ task[t].number \in Creation!RowIds \cup {Creation!Unset}
         /\ task[t].discount \in Nat /\ task[t].mileage \in Nat
         /\ task[t].request \in Requests \cup {Creation!NoRequest}
         /\ task[t].request.key \in Keys \cup {NoKey}
         /\ task[t].request.coupon \in Coupons \cup {NoCoupon}
         /\ task[t].request.body \in Bodies
         /\ task[t].request.fare \in Nat /\ task[t].request.mileage \in Nat
         /\ task[t].request.member \in BOOLEAN
<1>1. Creation!TypeOK /\ TaskInv(t) /\ TasksType
  BY DEF CreationInv, Creation!TypeOK, TasksType
<1>2. lock \in [Creation!Rows -> Tasks \cup {NoTask}] /\ gap \in [Creation!Rows -> SUBSET Tasks]
  BY <1>1 DEF Creation!TypeOK
<1>3. task[t] \in Creation!TaskState
  BY <1>1 DEF Creation!TypeOK
<1>4. /\ task[t].at \in Creation!At
      /\ task[t].job \in {"none", "create", "accrue", "refund"}
      /\ task[t].number \in Creation!RowIds \cup {Creation!Unset}
      /\ task[t].discount \in Nat /\ task[t].mileage \in Nat
      /\ task[t].request \in Requests \cup {Creation!NoRequest}
  BY <1>3 DEF Creation!TaskState
<1> QED BY <1>1, <1>2, <1>3, <1>4, RequestType

(* A request comes in.                                                     *)
LEMMA StartStep ==
  ASSUME CreationInv, NEW t \in Tasks, NEW r \in Requests, Creation!Start(t, r)
  PROVE  CreationInv'
<1> DEFINE s == [Creation!Idle EXCEPT !.at = IF r.key = NoKey THEN "quote" ELSE "begin",
                                      !.job = "create", !.request = r]
<1>1. task[t].at = "idle" /\ task' = [task EXCEPT ![t] = s]
      /\ UNCHANGED <<Creation!tables, Creation!locks, faults>>
  BY DEF Creation!Start
<1>2. s \in Creation!TaskState /\ s.at = (IF r.key = NoKey THEN "quote" ELSE "begin")
      /\ s.job = "create" /\ s.request = r
  BY DEF Creation!Idle, Creation!TaskState, Creation!At
<1> HIDE DEF s
<1>3. TasksType' /\ Others(t) /\ task'[t] = s
  BY <1>1, <1>2, TaskFacts DEF TasksType, Others
<1>4. lock' = lock /\ gap' = gap
  BY <1>1 DEF Creation!locks
<1>5. Quiet(t)
  <2>1. \A u \in Tasks : task[u].at = "first" => lock["sequence"] = NoTask
    BY DEF CreationInv, TaskInv, HoldsSequence
  <2> QED BY <1>1, <1>2, <1>3, <1>4, <2>1, TaskFacts DEF Quiet, Writing
<1>6. TaskInv(t)'
  BY <1>1, <1>2, <1>3, <1>4, TaskFacts, RequestType
     DEF TaskInv, HoldsKey, HoldsSequence, HoldsCoupon, HoldsAccount, Charged, JobInv,
         Writing, Numbered, Quoted, Effects
<1> QED BY <1>5, <1>6, QuietStep

(* begin finds no row for the key.                                         *)
LEMMA BeginNewStep ==
  ASSUME CreationInv, NEW t \in Tasks, Creation!BeginNew(t)
  PROVE  CreationInv'
<1> DEFINE k == task[t].request.key
<1>1. task[t].at = "begin" /\ ~Creation!Stored(k) /\ Creation!LockRead(t, k) /\ Creation!Go(t, "insert")
      /\ UNCHANGED <<Creation!tables, faults>>
  BY DEF Creation!BeginNew
<1>2. k \in Keys /\ k \in Creation!Rows /\ keys[k].status = "NONE"
  BY <1>1, TaskFacts, StoredRows DEF TaskInv, JobInv
<1>3. TasksType' /\ Goes(t, "insert")
  BY <1>1, TaskFacts, GoEffect DEF Creation!At
<1>4. /\ lock' \in [Creation!Rows -> Tasks \cup {NoTask}]
      /\ gap' \in [Creation!Rows -> SUBSET Tasks]
      /\ \A x \in Creation!Rows : lock'[x] = lock[x]
      /\ \A x \in Creation!Rows \ {k} : gap'[x] = gap[x]
      /\ gap'[k] = gap[k] \cup {t}
  BY <1>1, <1>2, TaskFacts, LockEffect
<1> HIDE DEF k
<1>5. Quiet(t)
  <2>1. \A u \in Tasks : task[u].at = "first" => lock["sequence"] = NoTask
    BY DEF CreationInv, TaskInv, HoldsSequence
  <2> QED BY <1>1, <1>2, <1>3, <1>4, <2>1, TaskFacts, StoredRows DEF Quiet, Goes,
       Writing
<1>6. TaskInv(t)'
  <2>1. keys' = keys
    BY <1>1 DEF Creation!tables
  <2> QED BY <1>1, <1>2, <1>3, <1>4, <2>1, TaskFacts
          DEF TaskInv, HoldsKey, HoldsSequence, HoldsCoupon, HoldsAccount, Charged, JobInv,
              Writing, Numbered, Quoted, Effects, Goes, k
<1> QED BY <1>5, <1>6, QuietStep

(* begin finds a completed row, and answers with its booking.              *)
LEMMA ReplayStep ==
  ASSUME CreationInv, NEW t \in Tasks, Creation!Replay(t)
  PROVE  CreationInv'
<1> DEFINE k == task[t].request.key
           s == [task[t] EXCEPT !.at = "answered", !.number = keys[k].booking]
<1>1. task[t].at = "begin" /\ keys[k].status = "COMPLETED" /\ Creation!Usable(t)
      /\ task' = [task EXCEPT ![t] = s]
      /\ UNCHANGED <<Creation!tables, Creation!locks, faults>>
  BY DEF Creation!Replay
<1>2. k \in Keys
  BY <1>1, TaskFacts DEF TaskInv, JobInv
<1>3. /\ keys[k].booking \in 1..sequence /\ keys[k].booking \in Creation!RowIds
      /\ bookings[keys[k].booking].key = k
      /\ bookings[keys[k].booking].body = task[t].request.body
  <2>1. KeyInv(k) /\ keys[k].body = task[t].request.body /\ sequence \in 0..MaxBookings
    BY <1>1, <1>2 DEF CreationInv, Creation!Usable, Creation!TypeOK
  <2>2. keys[k].booking \in 1..sequence
    BY <1>1, <2>1 DEF KeyInv
  <2>3. keys[k].booking \in Creation!RowIds
    BY <2>1, <2>2, CreationAssumption DEF Creation!RowIds
  <2> QED BY <1>1, <2>1, <2>2, <2>3 DEF KeyInv
<1>4. s \in Creation!TaskState /\ s.at = "answered" /\ s.number = keys[k].booking
      /\ s.job = task[t].job /\ s.request = task[t].request
  BY <1>3, TaskFacts DEF Creation!TaskState, Creation!At
<1> HIDE DEF s
<1>5. TasksType' /\ Others(t) /\ task'[t] = s
  BY <1>1, <1>4, TaskFacts DEF TasksType, Others
<1>6. lock' = lock /\ gap' = gap /\ sequence' = sequence /\ bookings' = bookings
  BY <1>1 DEF Creation!locks, Creation!tables
<1>7. task[t].job \notin {"accrue", "refund"}
  BY <1>1, TaskFacts DEF TaskInv, JobInv, Effects
<1>8. Quiet(t)
  <2>1. \A u \in Tasks : task[u].at = "first" => lock["sequence"] = NoTask
    BY DEF CreationInv, TaskInv, HoldsSequence
  <2> QED BY <1>1, <1>4, <1>5, <1>6, <1>7, <2>1, TaskFacts DEF Quiet, Writing
<1>9. TaskInv(t)'
  <2>1. HoldsKey(t)'
    BY <1>3, <1>4, <1>5, <1>6 DEF HoldsKey, Writing
  <2>2. HoldsSequence(t)'
    BY <1>1, <1>4, <1>5, <1>6, TaskFacts DEF TaskInv, HoldsSequence, Numbered
  <2>3. HoldsCoupon(t)' /\ HoldsAccount(t)' /\ Charged(t)'
    BY <1>4, <1>5 DEF HoldsCoupon, HoldsAccount, Charged, Quoted
  <2>4. JobInv(t)'
    BY <1>4, <1>5, <1>7 DEF JobInv, Effects
  <2> QED BY <2>1, <2>2, <2>3, <2>4 DEF TaskInv
<1> QED BY <1>8, <1>9, QuietStep

(* What createBooking works out is no more than the fare.                  *)
LEMMA ItemsType ==
  ASSUME NEW fare \in Nat, NEW discount \in Nat, NEW paid \in Nat, NEW balance \in Nat
  PROVE  /\ Creation!Lesser(2 * discount, fare) \in Nat
         /\ Creation!Lesser(2 * discount, fare) <= fare
         /\ Creation!Lesser(2 * paid, Creation!Lesser(fare, 2 * balance)) \in Nat
         /\ Creation!Lesser(2 * paid, Creation!Lesser(fare, 2 * balance)) <= fare
  BY DEF Creation!Lesser

(* The items of a quote are not negative, and no more than the fare.       *)
LEMMA QuoteType ==
  ASSUME CreationInv, NEW t \in Tasks
  PROVE  /\ Creation!CouponItem(task[t].request) \in Nat
         /\ Creation!MileageItem(task[t].request) \in Nat
         /\ Creation!CouponItem(task[t].request) + Creation!MileageItem(task[t].request)
                       <= task[t].request.fare
<1> DEFINE r == task[t].request
<1>1. r.fare \in Nat /\ r.mileage \in Nat
  BY TaskFacts
<1>2. account.balance \in Nat
  BY DEF CreationInv, BalanceInv, Creation!TypeOK, Creation!AccountRow
<1> HIDE DEF r
<1>3. Creation!CouponItem(r) \in Nat /\ Creation!CouponItem(r) <= r.fare
  BY <1>1, ItemsType, CreationAssumption DEF Creation!CouponItem
<1>4. r.fare - Creation!CouponItem(r) \in Nat
  BY <1>1, <1>3
<1>5. Creation!MileageItem(r) \in Nat /\ Creation!MileageItem(r) <= r.fare - Creation!CouponItem(r)
  BY <1>1, <1>2, <1>4, ItemsType DEF Creation!MileageItem
<1>6. Creation!CouponItem(r) + Creation!MileageItem(r) <= r.fare
  BY <1>1, <1>3, <1>5
<1> QED BY <1>3, <1>5, <1>6 DEF r

(* The price is worked out.                                                *)
LEMMA QuoteStep ==
  ASSUME CreationInv, NEW t \in Tasks, Creation!Quote(t)
  PROVE  CreationInv'
<1> DEFINE r == task[t].request
           s == [task[t] EXCEPT !.at = "number", !.discount = Creation!CouponItem(r),
                                !.mileage = Creation!MileageItem(r)]
<1>1. task[t].at = "quote" /\ task' = [task EXCEPT ![t] = s]
      /\ UNCHANGED <<Creation!tables, Creation!locks, faults>>
  BY DEF Creation!Quote
<1>2. s \in Creation!TaskState /\ s.at = "number" /\ s.discount = Creation!CouponItem(r)
      /\ s.mileage = Creation!MileageItem(r) /\ s.job = task[t].job /\ s.request = r
      /\ s.number = task[t].number
  BY QuoteType, TaskFacts DEF Creation!TaskState, Creation!At
<1> HIDE DEF s
<1>3. TasksType' /\ Others(t) /\ task'[t] = s
  BY <1>1, <1>2, TaskFacts DEF TasksType, Others
<1>4. lock' = lock /\ gap' = gap
  BY <1>1 DEF Creation!locks
<1>5. task[t].job \notin {"accrue", "refund"}
  BY <1>1, TaskFacts DEF TaskInv, JobInv, Effects
<1>6. Quiet(t)
  <2>1. \A u \in Tasks : task[u].at = "first" => lock["sequence"] = NoTask
    BY DEF CreationInv, TaskInv, HoldsSequence
  <2> QED BY <1>1, <1>2, <1>3, <1>4, <1>5, <2>1, TaskFacts DEF Quiet, Writing
<1>7. TaskInv(t)'
  BY <1>1, <1>2, <1>3, <1>4, <1>5, TaskFacts, QuoteType
     DEF TaskInv, HoldsKey, HoldsSequence, HoldsCoupon, HoldsAccount, Charged, JobInv,
         Writing, Numbered, Quoted, Effects
<1> QED BY <1>6, <1>7, QuietStep

(* generateNext takes the next number, or finds no row for the day.        *)
LEMMA TakeNumberStep ==
  ASSUME CreationInv, NEW t \in Tasks, Creation!TakeNumber(t)
  PROVE  CreationInv'
<1>1. task[t].at = "number" /\ sequence < MaxBookings /\ Creation!LockRead(t, "sequence")
      /\ UNCHANGED <<Creation!tables, faults>>
  BY DEF Creation!TakeNumber
<1>2. sequence \in Nat /\ sequence' = sequence
  BY <1>1, TaskFacts, CreationAssumption DEF Creation!TypeOK, Creation!tables
<1>3. /\ lock' \in [Creation!Rows -> Tasks \cup {NoTask}]
      /\ gap' \in [Creation!Rows -> SUBSET Tasks]
      /\ lock["sequence"] \in {t, NoTask}
      /\ \A x \in Creation!Rows \ {"sequence"} : lock'[x] = lock[x] /\ gap'[x] = gap[x]
      /\ sequence > 0 => lock'["sequence"] = t /\ gap'["sequence"] = gap["sequence"]
      /\ ~(sequence > 0) => /\ lock'["sequence"] = lock["sequence"]
                            /\ gap'["sequence"] = gap["sequence"] \cup {t}
  BY <1>1, TaskFacts, StoredRows, LockEffect
<1>4. \A k \in Keys : lock'[k] = lock[k]
  BY <1>3, StoredRows, TaskFacts, CreationAssumption
<1>5. task[t].job \notin {"accrue", "refund"}
  BY <1>1, TaskFacts DEF TaskInv, JobInv, Effects
<1>6. \A u \in Tasks : task[u].at = "first" =>
        sequence = 0 /\ lock["sequence"] = NoTask
  BY DEF CreationInv, TaskInv, HoldsSequence
<1>7. \A r \in Creation!Rows : /\ lock'[r] = lock[r] \/ (lock[r] = NoTask /\ lock'[r] = t)
                               /\ gap[r] \subseteq gap'[r]
  BY <1>2, <1>3
<1>8. CASE sequence > 0
  <2> DEFINE s == [task[t] EXCEPT !.at = "write", !.number = sequence + 1]
  <2>1. task' = [task EXCEPT ![t] = s]
    BY <1>8 DEF Creation!TakeNumber
  <2>2. s \in Creation!TaskState /\ s.at = "write" /\ s.number = sequence + 1 /\ s.job = task[t].job
        /\ s.request = task[t].request /\ s.discount = task[t].discount
        /\ s.mileage = task[t].mileage
    <3>1. sequence + 1 \in Creation!RowIds
      BY <1>1, <1>2, CreationAssumption DEF Creation!RowIds
    <3> QED BY <3>1, TaskFacts DEF Creation!TaskState, Creation!At
  <2> HIDE DEF s
  <2>3. TasksType' /\ Others(t) /\ task'[t] = s
    BY <2>1, <2>2, TaskFacts DEF TasksType, Others
  <2>4. Quiet(t)
    BY <1>1, <1>3, <1>4, <1>5, <1>6, <1>7, <1>8, <2>2, <2>3, TaskFacts DEF Quiet,
       Writing
  <2>5. TaskInv(t)'
    BY <1>1, <1>2, <1>3, <1>4, <1>5, <1>8, <2>2, <2>3, TaskFacts
       DEF TaskInv, HoldsKey, HoldsSequence, HoldsCoupon, HoldsAccount, Charged, JobInv,
           Writing, Numbered, Quoted, Effects
  <2> QED BY <2>4, <2>5, QuietStep
<1>9. CASE ~(sequence > 0)
  <2>1. TasksType' /\ Goes(t, "first")
    BY <1>9, TaskFacts, GoEffect DEF Creation!At, Creation!TakeNumber
  <2>2. lock["sequence"] = NoTask
    <3>1. lock["sequence"] = t => FALSE
      BY <1>1, TaskFacts DEF TaskInv, HoldsSequence, Numbered
    <3> QED BY <1>3, <3>1
  <2>4. Quiet(t)
    BY <1>1, <1>3, <1>4, <1>5, <1>6, <1>7, <1>9, <2>1, TaskFacts DEF Quiet, Writing,
       Goes
  <2>5. TaskInv(t)'
    BY <1>1, <1>2, <1>3, <1>4, <1>5, <1>9, <2>1, <2>2, TaskFacts
       DEF TaskInv, HoldsKey, HoldsSequence, HoldsCoupon, HoldsAccount, Charged, JobInv,
              Writing, Numbered, Quoted, Effects, Goes
  <2> QED BY <2>4, <2>5, QuietStep
<1> QED BY <1>8, <1>9

(* The day's first number.                                                 *)
LEMMA FirstNumberStep ==
  ASSUME CreationInv, NEW t \in Tasks, Creation!FirstNumber(t)
  PROVE  CreationInv'
<1> DEFINE s == [task[t] EXCEPT !.at = "write", !.number = 1]
<1>1. task[t].at = "first" /\ Creation!InsertRow(t, "sequence") /\ task' = [task EXCEPT ![t] = s]
      /\ UNCHANGED <<Creation!tables, faults>>
  BY DEF Creation!FirstNumber
<1>2. sequence = 0 /\ MaxBookings > 0 /\ sequence' = sequence
  BY <1>1, TaskFacts DEF TaskInv, HoldsSequence, Creation!tables
<1>3. s \in Creation!TaskState /\ s.at = "write" /\ s.number = 1 /\ s.job = task[t].job
      /\ s.request = task[t].request /\ s.discount = task[t].discount
      /\ s.mileage = task[t].mileage
  <2>1. 1 \in Creation!RowIds
    BY <1>2, CreationAssumption DEF Creation!RowIds
  <2> QED BY <2>1, TaskFacts DEF Creation!TaskState, Creation!At
<1> HIDE DEF s
<1>4. TasksType' /\ Others(t) /\ task'[t] = s
  BY <1>1, <1>3, TaskFacts DEF TasksType, Others
<1>5. /\ lock' \in [Creation!Rows -> Tasks \cup {NoTask}] /\ gap' = gap
      /\ gap["sequence"] \subseteq {t} /\ lock["sequence"] = NoTask
      /\ lock'["sequence"] = t
      /\ \A x \in Creation!Rows \ {"sequence"} : lock'[x] = lock[x]
  BY <1>1, TaskFacts, StoredRows, InsertEffect
<1>6. \A k \in Keys : lock'[k] = lock[k]
  BY <1>5, StoredRows, TaskFacts, CreationAssumption
<1>7. task[t].job \notin {"accrue", "refund"}
  BY <1>1, TaskFacts DEF TaskInv, JobInv, Effects
<1>8. Quiet(t)
  <2>1. \A u \in Tasks \ {t} : task[u].at # "first"
    BY <1>5 DEF CreationInv, TaskInv, HoldsSequence
  <2> QED BY <1>1, <1>3, <1>4, <1>5, <1>6, <1>7, <2>1, TaskFacts DEF Quiet, Writing
<1>9. TaskInv(t)'
  BY <1>1, <1>2, <1>3, <1>4, <1>5, <1>6, <1>7, TaskFacts
     DEF TaskInv, HoldsKey, HoldsSequence, HoldsCoupon, HoldsAccount, Charged, JobInv,
         Writing, Numbered, Quoted, Effects
<1> QED BY <1>8, <1>9, QuietStep

(* The booking is inserted and its coupon marked.                          *)
LEMMA WriteBookingStep ==
  ASSUME CreationInv, NEW t \in Tasks, Creation!WriteBooking(t)
  PROVE  CreationInv'
<1> DEFINE c == task[t].request.coupon
           at == IF Creation!Redeemed(t) THEN "redeem" ELSE "finish"
<1>1. /\ task[t].at = "write" /\ Creation!CouponFree(t) /\ Creation!Go(t, at)
      /\ UNCHANGED <<Creation!tables, gap, faults>>
      /\ IF c = NoCoupon THEN lock' = lock
         ELSE Creation!Free(t, c) /\ lock' = [lock EXCEPT ![c] = t]
  BY DEF Creation!WriteBooking
<1>2. c \in Coupons \cup {NoCoupon} /\ (c # NoCoupon => c \in Creation!Rows /\ c \notin Keys
                                                    /\ c # "sequence")
  BY TaskFacts, StoredRows, CreationAssumption
<1>3. TasksType' /\ Goes(t, at)
  BY <1>1, TaskFacts, GoEffect DEF Creation!At
<1>4. /\ lock' \in [Creation!Rows -> Tasks \cup {NoTask}] /\ gap' = gap
      /\ \A x \in Creation!Rows : lock'[x] = lock[x] \/ (lock[x] = NoTask /\ lock'[x] = t)
      /\ c # NoCoupon => lock'[c] = t
      /\ lock'["sequence"] = lock["sequence"]
      /\ \A k \in Keys : lock'[k] = lock[k]
  <2>0. "sequence" \in Creation!Rows /\ \A k \in Keys : k \in Creation!Rows
    BY StoredRows, TaskFacts
  <2>1. CASE c = NoCoupon
    BY <1>1, <2>1, TaskFacts
  <2>2. CASE c # NoCoupon
    <3> HIDE DEF c, at
    <3>1. lock[c] \in {t, NoTask} /\ lock' = [lock EXCEPT ![c] = t] /\ gap' = gap
      BY <1>1, <2>2 DEF Creation!Free
    <3> QED BY <1>2, <2>0, <2>2, <3>1, TaskFacts
  <2> QED BY <2>1, <2>2
<1>5. task[t].job \notin {"accrue", "refund"}
  BY <1>1, TaskFacts DEF TaskInv, JobInv, Effects
<1>6. c # NoCoupon => coupons'[c].status = "AVAILABLE"
  BY <1>1 DEF Creation!CouponFree, Creation!tables
<1>7. sequence' = sequence
  BY <1>1 DEF Creation!tables
<1>8. at = "finish" => Creation!Baht(t)' = 0
  BY <1>3, TaskFacts DEF Creation!Redeemed, Creation!Baht, Goes
<1>9. Quiet(t)
  <2>1. \A u \in Tasks : task[u].at = "first" => lock["sequence"] = NoTask
    BY DEF CreationInv, TaskInv, HoldsSequence
  <2> QED BY <1>1, <1>3, <1>4, <1>5, <2>1, TaskFacts DEF Quiet, Writing, Goes
<1>10. TaskInv(t)'
  BY <1>1, <1>3, <1>4, <1>5, <1>6, <1>7, <1>8, TaskFacts
     DEF TaskInv, HoldsKey, HoldsSequence, HoldsCoupon, HoldsAccount, Charged, JobInv,
         Writing, Numbered, Quoted, Effects, Goes
<1> QED BY <1>9, <1>10, QuietStep

(* What is taken from the account is not negative; nor is the account.     *)
LEMMA BahtType ==
  ASSUME CreationInv, NEW t \in Tasks
  PROVE  Creation!Baht(t) \in Nat /\ account.balance \in Nat
<1>1. task[t].mileage \in Nat
  BY TaskFacts
<1>2. Creation!Baht(t) \in Nat
  BY <1>1 DEF Creation!Baht
<1> QED BY <1>2 DEF CreationInv, BalanceInv, Creation!TypeOK, Creation!AccountRow

(* The mileage is redeemed.                                                *)
LEMMA RedeemStep ==
  ASSUME CreationInv, NEW t \in Tasks, Creation!Redeem(t)
  PROVE  CreationInv'
<1>1. /\ task[t].at = "redeem" /\ account.balance >= Creation!Baht(t)
      /\ Creation!Go(t, "finish")
      /\ IF Creation!Baht(t) = 0 THEN UNCHANGED Creation!locks ELSE Creation!LockRead(t, "account")
      /\ UNCHANGED <<Creation!tables, faults>>
  BY DEF Creation!Redeem, Creation!Affordable
<1>2. TasksType' /\ Goes(t, "finish")
  BY <1>1, TaskFacts, GoEffect DEF Creation!At
<1>3. Creation!Baht(t) > 0 => Creation!Stored("account")
  BY <1>1, BahtType, StoredRows, TaskFacts DEF CreationInv, BalanceInv
<1>4. /\ lock' \in [Creation!Rows -> Tasks \cup {NoTask}] /\ gap' = gap
      /\ \A x \in Creation!Rows : lock'[x] = lock[x] \/ (lock[x] = NoTask /\ lock'[x] = t)
      /\ \A x \in Creation!Rows \ {"account"} : lock'[x] = lock[x]
      /\ Creation!Baht(t) > 0 => lock'["account"] = t
  <2>1. CASE Creation!Baht(t) = 0
    BY <1>1, <2>1, TaskFacts DEF Creation!locks
  <2>2. CASE Creation!Baht(t) > 0
    <3>1. gap' \in [Creation!Rows -> SUBSET Tasks] /\ gap \in [Creation!Rows -> SUBSET Tasks]
          /\ gap' = gap
      BY <1>1, <1>3, <2>2, TaskFacts, LockEffect, StoredRows DEF Creation!LockRead
    <3> QED BY <1>1, <1>3, <2>2, <3>1, TaskFacts, LockEffect, StoredRows
  <2> QED BY <2>1, <2>2, BahtType
<1>5. lock'["sequence"] = lock["sequence"] /\ (\A k \in Keys : lock'[k] = lock[k])
      /\ (\A c \in Coupons : lock'[c] = lock[c])
  BY <1>4, StoredRows, TaskFacts, CreationAssumption
<1>6. task[t].job \notin {"accrue", "refund"}
  BY <1>1, TaskFacts DEF TaskInv, JobInv, Effects
<1>7. sequence' = sequence /\ account' = account /\ coupons' = coupons /\ Creation!Baht(t)' = Creation!Baht(t)
  <2>1. task'[t].mileage = task[t].mileage
    BY <1>2 DEF Goes
  <2>2. Creation!Baht(t)' = Creation!Baht(t)
    BY <2>1, Zenon DEF Creation!Baht
  <2> QED BY <1>1, <2>2 DEF Creation!tables
<1>8. Quiet(t)
  <2>1. \A u \in Tasks : task[u].at = "first" => lock["sequence"] = NoTask
    BY DEF CreationInv, TaskInv, HoldsSequence
  <2>2. task[t].at = "redeem" /\ UNCHANGED <<Creation!tables, faults>>
    BY <1>1
  <2>3. \A r \in Creation!Rows : gap[r] \subseteq gap'[r]
    BY <1>4
  <2> QED BY <1>2, <2>2, <2>3, <1>4, <1>5, <1>6, <2>1, TaskFacts DEF Quiet, Writing,
       Goes
<1>9. TaskInv(t)'
  BY <1>1, <1>2, <1>4, <1>5, <1>6, <1>7, TaskFacts
     DEF TaskInv, HoldsKey, HoldsSequence, HoldsCoupon, HoldsAccount, Charged, JobInv,
         Writing, Numbered, Quoted, Effects, Goes
<1> QED BY <1>8, <1>9, QuietStep

(* An answer is sent, an effect is skipped.                                *)
LEMMA IdleStep ==
  ASSUME CreationInv, NEW t \in Tasks, Creation!Answer(t) \/ Creation!Skip(t)
  PROVE  CreationInv'
<1>1. task[t].at \in {"answered", "account"} /\ task' = [task EXCEPT ![t] = Creation!Idle]
      /\ UNCHANGED <<Creation!tables, Creation!locks, faults>>
  BY DEF Creation!Answer, Creation!Skip
<1>2. TasksType' /\ Idles(t)
  BY <1>1, TaskFacts, IdleEffect
<1>3. lock' = lock /\ gap' = gap
  BY <1>1 DEF Creation!locks
<1>4. Quiet(t)
  <2>1. \A u \in Tasks : task[u].at = "first" => lock["sequence"] = NoTask
    BY DEF CreationInv, TaskInv, HoldsSequence
  <2> QED BY <1>1, <1>2, <1>3, <2>1, TaskFacts DEF Quiet, Writing, Idles
<1>5. TaskInv(t)'
  BY <1>1, <1>2, <1>3, TaskFacts
     DEF TaskInv, HoldsKey, HoldsSequence, HoldsCoupon, HoldsAccount, Charged, JobInv,
         Writing, Numbered, Quoted, Effects,
         Idles, Creation!NoRequest
<1> QED BY <1>4, <1>5, QuietStep

(* The account's row is locked, or its gap, and then inserted.             *)
LEMMA AccountStep ==
  ASSUME CreationInv, NEW t \in Tasks, Creation!LockAccount(t) \/ Creation!OpenAccount(t)
  PROVE  CreationInv'
<1>1. /\ task[t].at \in {"account", "open"}
      /\ Creation!LockRead(t, "account") \/ Creation!InsertRow(t, "account")
      /\ UNCHANGED <<Creation!tables, faults>>
  BY DEF Creation!LockAccount, Creation!OpenAccount
<1>2. PICK at \in {"open", "post"} : Creation!Go(t, at)
  BY DEF Creation!LockAccount, Creation!OpenAccount
<1>3. TasksType' /\ Goes(t, at)
  BY <1>2, TaskFacts, GoEffect DEF Creation!At
<1>4. /\ lock' \in [Creation!Rows -> Tasks \cup {NoTask}]
      /\ gap' \in [Creation!Rows -> SUBSET Tasks]
      /\ \A x \in Creation!Rows : /\ lock'[x] = lock[x] \/ (lock[x] = NoTask /\ lock'[x] = t)
                                  /\ gap[x] \subseteq gap'[x]
      /\ \A x \in Creation!Rows \ {"account"} : lock'[x] = lock[x]
  <2>1. CASE Creation!LockRead(t, "account")
    <3>1. /\ lock' \in [Creation!Rows -> Tasks \cup {NoTask}]
          /\ gap' \in [Creation!Rows -> SUBSET Tasks]
          /\ lock["account"] \in {t, NoTask}
          /\ \A x \in Creation!Rows \ {"account"} : lock'[x] = lock[x] /\ gap'[x] = gap[x]
          /\ lock'["account"] = t \/ lock'["account"] = lock["account"]
          /\ gap["account"] \subseteq gap'["account"]
      BY <2>1, TaskFacts, LockEffect, StoredRows
    <3> QED BY <3>1
  <2>2. CASE Creation!InsertRow(t, "account")
    BY <2>2, TaskFacts, InsertEffect, StoredRows
  <2> QED BY <1>1, <2>1, <2>2
<1>5. lock'["sequence"] = lock["sequence"] /\ (\A k \in Keys : lock'[k] = lock[k])
  BY <1>4, StoredRows, TaskFacts, CreationAssumption
<1>6. Quiet(t)
  <2>1. \A u \in Tasks : task[u].at = "first" => lock["sequence"] = NoTask
    BY DEF CreationInv, TaskInv, HoldsSequence
  <2> QED BY <1>1, <1>3, <1>4, <1>5, <2>1, TaskFacts DEF Quiet, Writing, Goes
<1>7. TaskInv(t)'
  BY <1>1, <1>3, <1>4, <1>5, TaskFacts
     DEF TaskInv, HoldsKey, HoldsSequence, HoldsCoupon, HoldsAccount, Charged, JobInv,
         Writing, Numbered, Quoted, Effects, Goes
<1> QED BY <1>6, <1>7, QuietStep

-----------------------------------------------------------------------------
(* Steps of one task that change a table.                                  *)

(* The invariant from its parts; the task that moves is looked at alone.   *)
LEMMA Assemble ==
  ASSUME CreationInv, Creation!TypeOK', NEW t \in Tasks,
         \A u \in Tasks \ {t} : Undisturbed(u), TaskInv(t)',
         \A k \in Keys : KeyInv(k)',
         \A n \in Creation!RowIds : OrderInv(n)', Creation!CouponSpentOnce', BalanceInv',
         \A n \in Creation!RowIds : LedgerInv(n)', \A u \in Tasks : EffectInv(u)'
  PROVE  CreationInv'
<1>1. ASSUME NEW u \in Tasks
      PROVE  TaskInv(u)'
  <2>1. Creation!TypeOK /\ TaskInv(u)
    BY DEF CreationInv
  <2> QED BY <2>1, TaskKept
<1> QED BY <1>1 DEF CreationInv

(* The invariant from its parts, every task undisturbed.                   *)
LEMMA AssembleAll ==
  ASSUME CreationInv, Creation!TypeOK',
         \A u \in Tasks : Undisturbed(u),
         \A k \in Keys : KeyInv(k)',
         \A n \in Creation!RowIds : OrderInv(n)', Creation!CouponSpentOnce', BalanceInv',
         \A n \in Creation!RowIds : LedgerInv(n)', \A u \in Tasks : EffectInv(u)'
  PROVE  CreationInv'
<1>1. ASSUME NEW u \in Tasks
      PROVE  TaskInv(u)'
  <2>1. Creation!TypeOK /\ TaskInv(u)
    BY DEF CreationInv
  <2> QED BY <2>1, TaskKept
<1> QED BY <1>1 DEF CreationInv

(* The key's row is inserted: keys whose gap a request holds have none.    *)
LEMMA InsertPendingStep ==
  ASSUME CreationInv, NEW t \in Tasks, Creation!InsertPending(t)
  PROVE  CreationInv'
<1> DEFINE key == task[t].request.key
           row == [Creation!NoRow EXCEPT !.status = "PENDING", !.body = task[t].request.body]
<1>1. task[t].at = "insert" /\ Creation!InsertRow(t, key) /\ keys' = [keys EXCEPT ![key] = row]
      /\ Creation!Go(t, "quote")
      /\ UNCHANGED <<coupons, sequence, bookings, account, ledger, faults>>
  BY DEF Creation!InsertPending
<1>2. key \in Keys /\ key \in Creation!Rows /\ key # NoKey /\ keys[key].status = "NONE"
      /\ key # "sequence" /\ key # "account" /\ key \notin Coupons
  BY <1>1, TaskFacts, StoredRows, CreationAssumption DEF TaskInv, JobInv, HoldsKey
<1>3. TasksType' /\ Goes(t, "quote")
  BY <1>1, TaskFacts, GoEffect DEF Creation!At
<1>4. /\ lock' \in [Creation!Rows -> Tasks \cup {NoTask}] /\ gap' = gap
      /\ gap[key] \subseteq {t} /\ lock[key] = NoTask /\ lock'[key] = t
      /\ \A x \in Creation!Rows \ {key} : lock'[x] = lock[x]
  BY <1>1, <1>2, TaskFacts, InsertEffect
<1>5. row \in Creation!KeyRow /\ row.status = "PENDING" /\ row.body = task[t].request.body
      /\ row.expired = FALSE
  BY TaskFacts DEF Creation!NoRow, Creation!KeyRow
<1>6. /\ keys' \in [Keys -> Creation!KeyRow] /\ keys'[key] = row
      /\ \A k \in Keys \ {key} : keys'[k] = keys[k]
  BY <1>1, <1>2, <1>5, TaskFacts DEF Creation!TypeOK
<1> HIDE DEF key, row
<1>7. Creation!TypeOK'
  BY <1>1, <1>3, <1>4, <1>6, TaskFacts DEF Creation!TypeOK, TasksType
<1>8. ASSUME NEW u \in Tasks \ {t}
      PROVE  Undisturbed(u)
  <2>1. task'[u] = task[u]
    BY <1>3 DEF Goes, Others
  <2>2. task[u].at = "insert" => keys'[task[u].request.key].status = "NONE"
    <3>1. task[u].at = "insert" =>
            /\ task[u].request.key \in Keys
            /\ keys[task[u].request.key].status = "NONE"
            /\ u \in gap[task[u].request.key]
      BY TaskFacts DEF TaskInv, JobInv, HoldsKey
    <3> QED BY <3>1, <1>4, <1>6
  <2>3. lock'["sequence"] = lock["sequence"]
    BY <1>2, <1>4, StoredRows, TaskFacts
  <2>4. task[u].at = "first" => lock["sequence"] = NoTask
    BY TaskFacts DEF TaskInv, HoldsSequence
  <2>5. sequence \in Nat /\ account.balance \in Int
    BY TaskFacts, CreationAssumption DEF Creation!TypeOK, Creation!AccountRow
  <2>6. \A r \in Creation!Rows : lock[r] = u => lock'[r] = u
    BY <1>4, CreationAssumption
  <2> QED BY <1>1, <1>4, <2>1, <2>2, <2>3, <2>4, <2>5, <2>6 DEF Undisturbed
<1>9. TaskInv(t)'
  <2>1. lock'["sequence"] = lock["sequence"]
    BY <1>2, <1>4, StoredRows, TaskFacts
  <2> QED BY <1>1, <1>2, <1>3, <1>4, <2>1, TaskFacts
     DEF TaskInv, HoldsKey, HoldsSequence, HoldsCoupon, HoldsAccount, Charged, JobInv,
         Writing, Numbered, Quoted, Effects,
         Goes, key
<1>10. ASSUME NEW k \in Keys
       PROVE  KeyInv(k)'
  <2>1. CASE k = key
    <3>1. \A n \in Creation!RowIds : ~(bookings[n].recent /\ bookings[n].key = key)
      BY <1>2 DEF CreationInv, KeyInv
    <3> QED BY <1>1, <1>3, <1>4, <1>5, <1>6, <2>1, <3>1, CreationAssumption
            DEF KeyInv, Goes, Writing, key
  <2>2. CASE k # key
    <3>1. keys'[k] = keys[k] /\ lock'[k] = lock[k] /\ lock[k] \in Tasks \cup {NoTask}
      BY <1>4, <1>6, <2>2, StoredRows, TaskFacts
    <3>2. lock[k] # NoTask =>
            /\ task'[lock[k]].at \in Writing
            /\ task'[lock[k]].request = task[lock[k]].request
      BY <1>1, <1>3, <3>1 DEF CreationInv, KeyInv, Goes, Others, Writing
    <3> QED BY <1>1, <3>1, <3>2, KeysKept, TaskFacts,
         CreationAssumption DEF Creation!TypeOK
  <2> QED BY <2>1, <2>2
<1>11. \A u \in Tasks : task'[u].job \in {"accrue", "refund"} =>
         task'[u].job = task[u].job /\ task'[u].number = task[u].number
  BY <1>3 DEF Goes, Others
<1> QED BY <1>1, <1>7, <1>8, <1>9, <1>10, <1>11, TablesKept, Assemble

(* releasePending and ROLLBACK, of whatever the task was at.               *)
LEMMA RollbackStep ==
  ASSUME CreationInv, NEW t \in Tasks, Creation!Rollback(t), faults' \in 0..MaxFaults
  PROVE  CreationInv'
<1>1. keys' = Creation!RolledBack({t}) /\ Creation!Release(t) /\ task' = [task EXCEPT ![t] = Creation!Idle]
      /\ UNCHANGED <<coupons, sequence, bookings, account, ledger>>
  BY DEF Creation!Rollback
<1>2. TasksType' /\ Idles(t)
  BY <1>1, TaskFacts, IdleEffect
<1>3. /\ lock' \in [Creation!Rows -> Tasks \cup {NoTask}]
      /\ gap' \in [Creation!Rows -> SUBSET Tasks]
      /\ \A r \in Creation!Rows : lock'[r] = IF lock[r] = t THEN NoTask ELSE lock[r]
      /\ \A r \in Creation!Rows : gap'[r] = gap[r] \ {t}
  BY <1>1, TaskFacts, ReleaseEffect
<1>4. Creation!NoRow \in Creation!KeyRow /\ Creation!NoRow.status = "NONE" /\ ~Creation!NoRow.expired
  BY BodyType DEF Creation!NoRow, Creation!KeyRow
<1>5. /\ keys' \in [Keys -> Creation!KeyRow]
      /\ \A k \in Keys : keys'[k] = IF lock[k] = t /\ keys[k].status = "PENDING"
                                    THEN Creation!NoRow ELSE keys[k]
  BY <1>1, <1>4, TaskFacts DEF Creation!RolledBack, Creation!TypeOK
<1>6. Creation!TypeOK'
  BY <1>1, <1>2, <1>3, <1>5, TaskFacts DEF Creation!TypeOK, TasksType
<1>7. ASSUME NEW u \in Tasks \ {t}
      PROVE  Undisturbed(u)
  <2>1. task'[u] = task[u]
    BY <1>2 DEF Idles, Others
  <2>2. task[u].at = "insert" => keys'[task[u].request.key].status = "NONE"
    <3>1. task[u].at = "insert" =>
            task[u].request.key \in Keys /\ keys[task[u].request.key].status = "NONE"
      BY TaskFacts DEF TaskInv, JobInv, HoldsKey
    <3> QED BY <3>1, <1>4, <1>5
  <2>3. /\ task[u].at = "first" => lock'["sequence"] = NoTask
        /\ lock'["sequence"] = u => lock["sequence"] = u
    BY <1>3, StoredRows, TaskFacts, CreationAssumption DEF TaskInv, HoldsSequence
  <2>5. sequence \in Nat /\ account.balance \in Int
    BY TaskFacts, CreationAssumption DEF Creation!TypeOK, Creation!AccountRow
  <2>6. \A r \in Creation!Rows : lock[r] = u => lock'[r] = u
    BY <1>3, CreationAssumption
  <2> QED BY <1>1, <1>3, <2>1, <2>2, <2>3, <2>5, <2>6 DEF Undisturbed
<1>8. TaskInv(t)'
  <2>1. lock'["sequence"] # t
    BY <1>3, StoredRows, TaskFacts, CreationAssumption
  <2> QED BY <1>2, <2>1
     DEF TaskInv, HoldsKey, HoldsSequence, HoldsCoupon, HoldsAccount, Charged, JobInv,
         Writing, Numbered, Quoted, Effects,
         Idles, Creation!NoRequest
<1>9. ASSUME NEW k \in Keys
      PROVE  KeyInv(k)'
  <2>0. KeyInv(k) /\ k \in Creation!Rows /\ lock[k] \in Tasks \cup {NoTask}
    BY StoredRows, TaskFacts DEF CreationInv
  <2>1. CASE lock[k] = t
    <3>1. keys'[k] = Creation!NoRow /\ lock'[k] = NoTask
      BY <1>3, <1>5, <2>0, <2>1, CreationAssumption DEF KeyInv
    <3>2. \A n \in Creation!RowIds : ~(bookings[n].recent /\ bookings[n].key = k)
      BY <2>0, <2>1, CreationAssumption DEF KeyInv
    <3> QED BY <1>1, <1>4, <3>1, <3>2 DEF KeyInv
  <2>2. CASE lock[k] # t
    <3>1. keys'[k] = keys[k] /\ lock'[k] = lock[k]
      BY <1>3, <1>5, <2>0, <2>2
    <3>2. lock[k] # NoTask =>
            /\ task'[lock[k]].at \in Writing
            /\ task'[lock[k]].request = task[lock[k]].request
      BY <1>2, <2>0, <2>2 DEF KeyInv, Idles, Others
    <3>3. sequence \in Nat /\ sequence' = sequence /\ bookings' = bookings
      BY <1>1, TaskFacts, CreationAssumption DEF Creation!TypeOK
    <3> QED BY <3>1, <3>2, <3>3, KeysKept
  <2> QED BY <2>1, <2>2
<1>10. \A u \in Tasks : task'[u].job \in {"accrue", "refund"} =>
         task'[u].job = task[u].job /\ task'[u].number = task[u].number
  BY <1>2 DEF Idles, Others
<1> QED BY <1>1, <1>6, <1>7, <1>8, <1>9, <1>10, TablesKept, Assemble

(* The commit of a booking.                                                *)
LEMMA DraftType ==
  ASSUME CreationInv, NEW t \in Tasks, task[t].at = "finish"
  PROVE  /\ Creation!Drafted(t) \in Creation!Booking
         /\ Creation!Drafted(t).status = "OPEN"
         /\ Creation!Drafted(t).key = task[t].request.key
         /\ Creation!Drafted(t).body = task[t].request.body
         /\ Creation!Drafted(t).coupon = task[t].request.coupon
         /\ Creation!Drafted(t).mileage = task[t].mileage
<1> DEFINE total == task[t].request.fare - task[t].discount - task[t].mileage
<1>1. total \in Nat
  BY TaskFacts DEF TaskInv, Charged, Quoted
<1>2. Creation!Drafted(t) = [status |-> "OPEN", key |-> task[t].request.key,
                             body |-> task[t].request.body, member |-> task[t].request.member,
                             coupon |-> task[t].request.coupon, discount |-> task[t].discount,
                             mileage |-> task[t].mileage, total |-> total,
                             exhausted |-> FALSE, recent |-> TRUE]
  BY DEF Creation!Drafted
<1> HIDE DEF total
<1> QED BY <1>1, <1>2, TaskFacts DEF Creation!Booking

(* What Finish does, row by row.                                           *)
Finished(t) ==
  /\ task[t].at = "finish" /\ task[t].job \notin {"accrue", "refund"}
  /\ task[t].number = sequence + 1 /\ task[t].number \in Creation!RowIds
  /\ sequence' = task[t].number
  /\ bookings' \in [Creation!RowIds -> Creation!Booking]
  /\ bookings'[task[t].number] = Creation!Drafted(t)
  /\ \A m \in Creation!RowIds \ {task[t].number} :
       bookings'[m] = bookings[m] /\ ledger'[m] = ledger[m]
  /\ account' \in Creation!AccountRow /\ account'.exists = account.exists
  /\ account'.balance = account.balance - Creation!Baht(t)
  /\ account'.opening = account.opening
  /\ ledger' \in [Creation!RowIds -> Creation!LedgerRow]
  /\ ledger[task[t].number].redeem = 0
  /\ ledger'[task[t].number].redeem = Creation!Baht(t)
  /\ ledger[task[t].number].accrue = 0 /\ ledger'[task[t].number].accrue = 0
  /\ ledger[task[t].number].reversal = 0 /\ ledger'[task[t].number].reversal = 0
  /\ TasksType' /\ Goes(t, "answered") /\ faults' = faults
  /\ lock' \in [Creation!Rows -> Tasks \cup {NoTask}]
  /\ gap' \in [Creation!Rows -> SUBSET Tasks]
  /\ \A r \in Creation!Rows : lock'[r] = IF lock[r] = t THEN NoTask ELSE lock[r]
  /\ \A r \in Creation!Rows : gap'[r] = gap[r] \ {t}

(* What the commit makes visible.                                          *)
LEMMA FinishEffect ==
  ASSUME CreationInv, NEW t \in Tasks, Creation!Finish(t)
  PROVE  Finished(t)
<1> DEFINE n == task[t].number
<1>1. /\ task[t].at = "finish" /\ sequence' = n
      /\ bookings' = [bookings EXCEPT ![n] = Creation!Drafted(t)]
      /\ account' = [account EXCEPT !.balance = @ - Creation!Baht(t)]
      /\ ledger' = [ledger EXCEPT ![n].redeem = Creation!Baht(t)]
      /\ Creation!Release(t) /\ Creation!Go(t, "answered") /\ faults' = faults
  BY DEF Creation!Finish
<1>2. n = sequence + 1 /\ n \in Creation!RowIds /\ task[t].job \notin {"accrue", "refund"}
  <2>1. n = sequence + 1 /\ sequence < MaxBookings /\ sequence \in 0..MaxBookings
    BY <1>1, TaskFacts DEF TaskInv, HoldsSequence, Numbered, Creation!TypeOK
  <2> QED BY <1>1, <2>1, TaskFacts, CreationAssumption DEF Creation!RowIds, TaskInv,
       JobInv, Effects
<1>3. TasksType' /\ Goes(t, "answered")
  BY <1>1, TaskFacts, GoEffect DEF Creation!At
<1>4. /\ lock' \in [Creation!Rows -> Tasks \cup {NoTask}]
      /\ gap' \in [Creation!Rows -> SUBSET Tasks]
      /\ \A r \in Creation!Rows : lock'[r] = IF lock[r] = t THEN NoTask ELSE lock[r]
      /\ \A r \in Creation!Rows : gap'[r] = gap[r] \ {t}
  BY <1>1, TaskFacts, ReleaseEffect
<1>5. ledger[n] = Creation!NoLedger
  <2>1. sequence \in Nat
    BY TaskFacts, CreationAssumption DEF Creation!TypeOK
  <2> QED BY <1>2, <2>1 DEF CreationInv, OrderInv
<1>6. /\ bookings' \in [Creation!RowIds -> Creation!Booking]
      /\ bookings'[n] = Creation!Drafted(t)
      /\ \A m \in Creation!RowIds \ {n} : bookings'[m] = bookings[m]
  BY <1>1, <1>2, DraftType, TaskFacts DEF Creation!TypeOK
<1>7. /\ ledger' \in [Creation!RowIds -> Creation!LedgerRow]
      /\ \A m \in Creation!RowIds \ {n} : ledger'[m] = ledger[m]
      /\ ledger[n].redeem = 0 /\ ledger[n].accrue = 0 /\ ledger[n].reversal = 0
      /\ ledger'[n].redeem = Creation!Baht(t) /\ ledger'[n].accrue = 0
      /\ ledger'[n].reversal = 0
  <2> DEFINE row == [ledger[n] EXCEPT !.redeem = Creation!Baht(t)]
  <2>1. ledger' = [ledger EXCEPT ![n] = row] /\ ledger \in [Creation!RowIds -> Creation!LedgerRow]
    BY <1>1, TaskFacts DEF Creation!TypeOK
  <2>2. row \in Creation!LedgerRow /\ row.redeem = Creation!Baht(t) /\ row.accrue = 0 /\ row.reversal = 0
    BY <1>5, BahtType DEF Creation!LedgerRow, Creation!NoLedger
  <2> HIDE DEF row
  <2> QED BY <1>2, <1>5, <2>1, <2>2 DEF Creation!NoLedger
<1>8. /\ account' \in Creation!AccountRow /\ account'.exists = account.exists
      /\ account'.balance = account.balance - Creation!Baht(t)
      /\ account'.opening = account.opening
  BY <1>1, BahtType, TaskFacts DEF Creation!TypeOK, Creation!AccountRow
<1> QED BY <1>1, <1>2, <1>3, <1>4, <1>6, <1>7, <1>8 DEF Finished

(* The balance moves with the ledger.                                      *)
LEMMA BalanceMoves ==
  ASSUME Creation!TypeOK, Creation!TypeOK', BalanceInv, NEW n \in Creation!RowIds,
         \A m \in Creation!RowIds \ {n} : ledger'[m] = ledger[m],
         account'.opening = account.opening,
         account'.balance - account.balance =
             (ledger'[n].accrue + ledger'[n].reversal - ledger'[n].redeem)
           - (ledger[n].accrue + ledger[n].reversal - ledger[n].redeem)
  PROVE  account'.balance = account'.opening + Creation!SumFunction(Creation!Movement)'
<1>1. IsFiniteSet(Creation!RowIds)
  BY FS_Interval, CreationAssumption DEF Creation!RowIds
<1>2. Creation!Movement \in [Creation!RowIds -> Int] /\ Creation!Movement' \in [Creation!RowIds -> Int]
  BY DEF Creation!Movement, Creation!TypeOK, Creation!LedgerRow
<1>3. \A m \in Creation!RowIds \ {n} : Creation!Movement'[m] = Creation!Movement[m]
  BY DEF Creation!Movement
<1>4. Creation!SumFunction(Creation!Movement) \in Int
      /\ Creation!SumFunction(Creation!Movement') = Creation!SumFunction(Creation!Movement) + Creation!Movement'[n] - Creation!Movement[n]
  BY <1>1, <1>2, <1>3, SumChanges
<1>5. /\ Creation!Movement[n] = ledger[n].accrue + ledger[n].reversal - ledger[n].redeem
      /\ Creation!Movement'[n] = ledger'[n].accrue + ledger'[n].reversal - ledger'[n].redeem
      /\ Creation!Movement[n] \in Int /\ Creation!Movement'[n] \in Int
  BY <1>2 DEF Creation!Movement
<1>6. account.balance = account.opening + Creation!SumFunction(Creation!Movement)
  BY DEF BalanceInv
<1>7. account.balance \in Int /\ account'.balance \in Int /\ account.opening \in Int
  BY DEF Creation!TypeOK, Creation!AccountRow
<1> QED BY <1>4, <1>5, <1>6, <1>7

(* The commit.                                                             *)
LEMMA FinishStep ==
  ASSUME CreationInv, NEW t \in Tasks, Creation!Finish(t)
  PROVE  CreationInv'
<1> DEFINE n == task[t].number
           key == task[t].request.key
           c == task[t].request.coupon
<1>1. Finished(t) /\ keys' = Creation!CompletedKey(t) /\ coupons' = Creation!UsedCoupon(t)
  BY FinishEffect DEF Creation!Finish
<1>2. n = sequence + 1 /\ n \in Creation!RowIds /\ sequence' = n /\ sequence \in Nat
      /\ account.balance \in Int /\ Creation!Baht(t) \in Nat
  BY <1>1, TaskFacts, BahtType, CreationAssumption DEF Finished, Creation!TypeOK
<1>0. \A m \in 1..sequence : m \in Creation!RowIds \ {n} /\ m \in 1..sequence'
  <2> HIDE DEF n
  <2> QED BY <1>2, CreationAssumption DEF Creation!RowIds
<1>3. key \in Keys \cup {NoKey} /\ c \in Coupons \cup {NoCoupon}
  BY TaskFacts
<1>4. /\ lock["sequence"] = t
      /\ key # NoKey => lock[key] = t
      /\ c # NoCoupon => lock[c] = t /\ coupons[c].status = "AVAILABLE"
      /\ Creation!Baht(t) > 0 => lock["account"] = t /\ account.balance >= Creation!Baht(t)
  BY <1>1, TaskFacts
     DEF TaskInv, HoldsKey, HoldsSequence, HoldsCoupon, HoldsAccount, Finished, Writing,
         Numbered
<1>5. /\ keys' \in [Keys -> Creation!KeyRow]
      /\ \A k \in Keys : k # key => keys'[k] = keys[k]
      /\ key # NoKey => /\ keys'[key].status = "COMPLETED" /\ keys'[key].booking = n
                        /\ keys'[key].body = keys[key].body
                        /\ keys'[key].expired = keys[key].expired
  <2>1. CASE key = NoKey
    BY <1>1, <2>1, TaskFacts, CreationAssumption DEF Creation!CompletedKey,
       Creation!TypeOK
  <2>2. CASE key # NoKey
    <3> DEFINE row == [keys[key] EXCEPT !.status = "COMPLETED", !.booking = n]
    <3>1. keys' = [keys EXCEPT ![key] = row] /\ keys \in [Keys -> Creation!KeyRow]
      BY <1>1, <2>2, TaskFacts DEF Creation!CompletedKey, Creation!TypeOK
    <3>2. row \in Creation!KeyRow /\ row.status = "COMPLETED" /\ row.booking = n
          /\ row.body = keys[key].body /\ row.expired = keys[key].expired
      <4>1. keys[key] \in Creation!KeyRow
        BY <1>3, <2>2, <3>1
      <4> HIDE DEF n, key
      <4> QED BY <1>2, <4>1 DEF Creation!KeyRow
    <3> HIDE DEF row, n, key
    <3> QED BY <1>3, <2>2, <3>1, <3>2
  <2> QED BY <2>1, <2>2
<1>6. /\ coupons' \in [Coupons -> Creation!CouponRow]
      /\ \A x \in Coupons : x # c => coupons'[x] = coupons[x]
      /\ c # NoCoupon => coupons'[c] = [status |-> "USED", booking |-> n]
  <2>1. [status |-> "USED", booking |-> n] \in Creation!CouponRow
    BY <1>2 DEF Creation!CouponRow
  <2> QED BY <1>1, <1>3, <2>1, TaskFacts DEF Creation!UsedCoupon, Creation!TypeOK
<1>7. Creation!TypeOK'
  <2>1. sequence' \in 0..MaxBookings
    BY <1>2, CreationAssumption DEF Creation!RowIds
  <2> QED BY <1>1, <1>5, <1>6, <2>1, TaskFacts DEF Finished, Creation!TypeOK, TasksType
<1>8. ASSUME NEW u \in Tasks \ {t}
      PROVE  Undisturbed(u)
  <2>1. task'[u] = task[u]
    BY <1>1 DEF Finished, Goes, Others
  <2>2. task[u].at \notin Numbered \cup {"first"}
    BY <1>4, TaskFacts, CreationAssumption DEF TaskInv, HoldsSequence
  <2>3. task[u].at = "insert" => keys'[task[u].request.key].status = "NONE"
    <3>1. task[u].at = "insert" =>
            /\ task[u].request.key \in Keys
            /\ keys[task[u].request.key].status = "NONE"
      BY TaskFacts DEF TaskInv, JobInv, HoldsKey
    <3>2. key # NoKey => keys[key].status = "PENDING"
      BY <1>3, <1>4, CreationAssumption DEF CreationInv, KeyInv
    <3> QED BY <1>5, <3>1, <3>2, CreationAssumption
  <2>4. \A r \in Creation!Rows : /\ lock[r] = u => lock'[r] = u
                                 /\ u \in gap[r] => u \in gap'[r]
    BY <1>1 DEF Finished
  <2>5. lock'["sequence"] # u
    BY <1>1, <1>4, StoredRows, TaskFacts, CreationAssumption DEF Finished
  <2>6. \A m \in 1..sequence : bookings'[m] = bookings[m]
    BY <1>0, <1>1 DEF Finished
  <2>7. \A x \in Coupons : lock[x] = u /\ coupons[x].status = "AVAILABLE" =>
                             coupons'[x].status = "AVAILABLE"
    BY <1>4, <1>6, CreationAssumption
  <2>8. lock["account"] = u => account'.balance >= account.balance
    BY <1>1, <1>2, <1>4 DEF Finished
  <2> QED BY <1>2, <2>1, <2>2, <2>3, <2>4, <2>5, <2>6, <2>7, <2>8 DEF Undisturbed
<1>9. /\ task'[t].at = "answered" /\ task'[t].request = task[t].request
      /\ task'[t].number = n /\ task'[t].job = task[t].job
      /\ task[t].job \notin {"accrue", "refund"}
  BY <1>1 DEF Finished, Goes
<1>10. bookings'[n] = Creation!Drafted(t) /\ task[t].at = "finish"
  BY <1>1 DEF Finished
<1>11. TaskInv(t)'
  <2>1. lock'["sequence"] # t
    BY <1>1, StoredRows, TaskFacts, CreationAssumption DEF Finished
  <2>2. n \in 1..sequence'
    BY <1>2
  <2>3. HoldsKey(t)'
    BY <1>9, <1>10, <2>2, DraftType DEF HoldsKey, Writing
  <2>4. HoldsSequence(t)'
    BY <1>9, <2>1 DEF HoldsSequence, Numbered
  <2>5. HoldsCoupon(t)' /\ HoldsAccount(t)' /\ Charged(t)'
    BY <1>9 DEF HoldsCoupon, HoldsAccount, Charged, Quoted
  <2>6. JobInv(t)'
    BY <1>9 DEF JobInv, Effects
  <2> QED BY <2>3, <2>4, <2>5, <2>6 DEF TaskInv
<1>12. ASSUME NEW k \in Keys
       PROVE  KeyInv(k)'
  <2>0. KeyInv(k) /\ k \in Creation!Rows /\ lock[k] \in Tasks \cup {NoTask}
    BY StoredRows, TaskFacts DEF CreationInv
  <2>1. CASE k = key
    <3>0. lock[k] = t /\ lock'[k] = NoTask
      BY <1>1, <1>4, <2>0, <2>1, CreationAssumption DEF Finished
    <3>1. lock[k] = t /\ lock'[k] = NoTask /\ keys[k].status = "PENDING"
      BY <2>0, <3>0, CreationAssumption DEF KeyInv
    <3>2. keys[k].body = task[t].request.body /\ ~keys[k].expired
      BY <2>0, <3>1, CreationAssumption DEF KeyInv
    <3>3. \A m \in Creation!RowIds : bookings'[m].recent /\ bookings'[m].key = k => m = n
      BY <1>1, <2>0, <3>1 DEF Finished, KeyInv
    <3>4. /\ keys'[k].status = "COMPLETED" /\ keys'[k].booking = n
          /\ keys'[k].body = keys[k].body /\ keys'[k].expired = keys[k].expired
      BY <1>5, <2>1, CreationAssumption
    <3>5. /\ bookings'[n].key = k /\ bookings'[n].body = keys[k].body
      BY <1>10, <2>1, <3>2, DraftType
    <3>6. n \in 1..sequence'
      BY <1>2
    <3> HIDE DEF n, key
    <3> QED BY <3>1, <3>2, <3>3, <3>4, <3>5, <3>6 DEF KeyInv
  <2>2. CASE k # key
    <3>1. lock[k] # t
      BY <2>0, <2>2, CreationAssumption DEF KeyInv
    <3>2. keys'[k] = keys[k] /\ lock'[k] = lock[k]
      BY <1>1, <1>5, <2>0, <2>2, <3>1 DEF Finished
    <3>3. lock[k] # NoTask =>
            /\ task'[lock[k]].at \in Writing
            /\ task'[lock[k]].request = task[lock[k]].request
      BY <1>1, <2>0, <3>1 DEF KeyInv, Finished, Goes, Others
    <3>4. \A m \in 1..sequence : bookings'[m] = bookings[m]
      BY <1>0, <1>1 DEF Finished
    <3>5. \A m \in Creation!RowIds : bookings'[m].recent /\ bookings'[m].key = k =>
                                       bookings[m].recent /\ bookings[m].key = k
      BY <1>1, <1>10, <2>2, DraftType DEF Finished
    <3> QED BY <1>2, <3>2, <3>3, <3>4, <3>5, KeysKept
  <2> QED BY <2>1, <2>2
<1>13. ASSUME NEW m \in Creation!RowIds
       PROVE  OrderInv(m)'
  <2>1. m > sequence' => m # n /\ m > sequence
    BY <1>2 DEF Creation!RowIds
  <2> QED BY <1>1, <2>1 DEF CreationInv, OrderInv, Finished
<1>14. Creation!CouponSpentOnce'
  <2> SUFFICES ASSUME NEW m \in Creation!RowIds, NEW x \in Coupons,
                      bookings'[m].coupon = x, bookings'[m].status # "NONE"
               PROVE  coupons'[x] = [status |-> "USED", booking |-> m]
    BY DEF Creation!CouponSpentOnce
  <2>1. CASE m = n
    <3>1. x = c /\ c # NoCoupon
      BY <1>10, <2>1, DraftType, CreationAssumption
    <3> QED BY <1>6, <2>1, <3>1
  <2>2. CASE m # n
    <3>1. coupons[x] = [status |-> "USED", booking |-> m]
      BY <1>1, <2>2 DEF Finished, CreationInv, Creation!CouponSpentOnce
    <3>2. x # c
      BY <1>4, <3>1, CreationAssumption
    <3> QED BY <1>6, <3>1, <3>2
  <2> QED BY <2>1, <2>2
<1>15. BalanceInv'
  <2>1. BalanceInv /\ Creation!TypeOK
    BY DEF CreationInv
  <2>2. account'.balance = account.balance - Creation!Baht(t) /\ account'.exists = account.exists
        /\ account'.opening = account.opening
    BY <1>1 DEF Finished
  <2>3. account'.balance = account'.opening + Creation!SumFunction(Creation!Movement)'
    <3>1. account'.balance - account.balance =
             (ledger'[n].accrue + ledger'[n].reversal - ledger'[n].redeem)
           - (ledger[n].accrue + ledger[n].reversal - ledger[n].redeem)
      BY <1>1, <1>2, <2>2 DEF Finished
    <3>2. \A m \in Creation!RowIds \ {n} : ledger'[m] = ledger[m]
      BY <1>1 DEF Finished
    <3> HIDE DEF n
    <3> QED BY <1>2, <1>7, <2>1, <2>2, <3>1, <3>2, BalanceMoves
  <2>4. account'.balance >= 0 /\ (~account'.exists => account'.balance = 0)
    BY <1>2, <1>4, <2>1, <2>2 DEF BalanceInv
  <2> QED BY <2>3, <2>4 DEF BalanceInv
<1>16. ASSUME NEW m \in Creation!RowIds
       PROVE  LedgerInv(m)'
  <2>1. CASE m = n
    BY <1>1, <2>1 DEF Finished, LedgerInv
  <2>2. CASE m # n
    BY <1>1, <2>2 DEF Finished, LedgerInv, CreationInv, Creation!Accrual
  <2> QED BY <2>1, <2>2
<1>17. ASSUME NEW u \in Tasks
       PROVE  EffectInv(u)'
  <2>1. EffectInv(u) /\ sequence \in 0..MaxBookings
    BY TaskFacts DEF CreationInv, Creation!TypeOK
  <2>2. task'[u].job = task[u].job
    BY <1>1, <1>9 DEF Finished, Goes, Others
  <2>3. CASE task[u].job \in {"accrue", "refund"}
    <3>1. u # t /\ task'[u] = task[u] /\ task[u].number \in 1..sequence
      BY <1>1, <1>9, <2>1, <2>3 DEF Finished, Goes, Others, EffectInv
    <3>2. task[u].number \in 1..sequence' /\ task[u].number \in Creation!RowIds \ {n}
      BY <1>0, <3>1
    <3>3. bookings'[task[u].number] = bookings[task[u].number]
          /\ ledger'[task[u].number] = ledger[task[u].number]
      BY <1>1, <3>2 DEF Finished
    <3>4. \A v \in Tasks \ {u} :
            ~(task'[v].job \in {"accrue", "refund"} /\ task'[v].number = task[u].number)
      BY <1>1, <1>9, <2>1, <2>3 DEF Finished, Goes, Others, EffectInv
    <3> QED BY <2>1, <2>3, <3>1, <3>2, <3>3, <3>4 DEF EffectInv
  <2>4. CASE task[u].job \notin {"accrue", "refund"}
    BY <2>2, <2>4 DEF EffectInv
  <2> QED BY <2>3, <2>4
<1> QED BY <1>7, <1>8, <1>11, <1>12, <1>13, <1>14, <1>15, <1>16, <1>17, Assemble

(* A booking ends or is cancelled.                                         *)
Closed(n) ==
  /\ bookings[n].status = "OPEN" /\ bookings' \in [Creation!RowIds -> Creation!Booking]
  /\ \A m \in Creation!RowIds \ {n} : bookings'[m] = bookings[m]
  /\ bookings'[n].status \in {"ENDED", "CANCELLED"}
  /\ bookings'[n].key = bookings[n].key /\ bookings'[n].body = bookings[n].body
  /\ bookings'[n].coupon = bookings[n].coupon
  /\ bookings'[n].mileage = bookings[n].mileage
  /\ bookings'[n].total = bookings[n].total /\ bookings'[n].recent = bookings[n].recent
  /\ bookings'[n].member = bookings[n].member
  /\ UNCHANGED <<keys, coupons, sequence, account, ledger, Creation!locks, faults>>

(* The end of a booking changes its status alone: the tables are in order, *)
LEMMA ClosedTables ==
  ASSUME CreationInv, NEW n \in Creation!RowIds, Closed(n)
  PROVE  /\ n \in 1..sequence
         /\ keys' = keys /\ coupons' = coupons /\ sequence' = sequence
         /\ account' = account /\ ledger' = ledger /\ lock' = lock /\ gap' = gap
         /\ faults' = faults
         /\ \A m \in Creation!RowIds : OrderInv(m)'
         /\ Creation!CouponSpentOnce' /\ BalanceInv'
         /\ \A m \in Creation!RowIds : LedgerInv(m)'
<1>0. Creation!TypeOK /\ sequence \in Nat
  BY CreationAssumption DEF CreationInv, Creation!TypeOK
<1>1. n \in 1..sequence
  <2>1. OrderInv(n)
    BY DEF CreationInv
  <2> QED BY <1>0, <2>1, CreationAssumption DEF OrderInv, Closed, Creation!RowIds
<1>2. /\ keys' = keys /\ coupons' = coupons /\ sequence' = sequence
      /\ account' = account /\ ledger' = ledger /\ lock' = lock /\ gap' = gap
      /\ faults' = faults
  BY DEF Closed, Creation!locks
<1>3. ASSUME NEW m \in Creation!RowIds
      PROVE  OrderInv(m)'
  <2>1. m > sequence => m # n
    BY <1>0, <1>1 DEF Creation!RowIds
  <2> QED BY <1>2, <2>1 DEF CreationInv, OrderInv, Closed
<1>4. Creation!CouponSpentOnce'
  BY <1>2 DEF CreationInv, Creation!CouponSpentOnce, Closed
<1>5. BalanceInv'
  <2>1. Creation!Movement' = Creation!Movement
    BY <1>2 DEF Creation!Movement
  <2> QED BY <1>2, <2>1 DEF CreationInv, BalanceInv
<1>6. ASSUME NEW m \in Creation!RowIds
      PROVE  LedgerInv(m)'
  <2>1. Creation!Accrual(m)' = Creation!Accrual(m)
    BY DEF Creation!Accrual, Closed
  <2> QED BY <1>2, <2>1 DEF CreationInv, LedgerInv, Closed
<1> QED BY <1>1, <1>2, <1>3, <1>4, <1>5, <1>6

(* the other tasks are undisturbed,                                        *)
LEMMA ClosedTasks ==
  ASSUME CreationInv, NEW n \in Creation!RowIds, Closed(n), NEW u \in Tasks, task'[u] = task[u]
  PROVE  Undisturbed(u)
<1>0. sequence \in Nat /\ account.balance \in Int
  BY CreationAssumption DEF CreationInv, Creation!TypeOK, Creation!AccountRow
<1>1. /\ keys' = keys /\ coupons' = coupons /\ sequence' = sequence
      /\ account' = account /\ lock' = lock /\ gap' = gap
  BY ClosedTables
<1>2. \A m \in 1..sequence : bookings'[m].key = bookings[m].key
                             /\ bookings'[m].body = bookings[m].body
  <2>1. \A m \in 1..sequence : m \in Creation!RowIds
    BY CreationAssumption DEF CreationInv, Creation!TypeOK, Creation!RowIds
  <2> QED BY <2>1 DEF Closed
<1>3. task[u].at = "insert" => keys[task[u].request.key].status = "NONE"
  BY DEF CreationInv, TaskInv, HoldsKey, JobInv
<1>4. task[u].at = "first" => lock["sequence"] = NoTask
  BY DEF CreationInv, TaskInv, HoldsSequence
<1> QED BY <1>0, <1>1, <1>2, <1>3, <1>4 DEF Undisturbed

(* and so are the keys.                                                    *)
LEMMA ClosedKeys ==
  ASSUME CreationInv, NEW n \in Creation!RowIds, Closed(n), NEW k \in Keys,
         lock[k] # NoTask =>
           /\ task'[lock[k]].at \in Writing
           /\ task'[lock[k]].request = task[lock[k]].request
  PROVE  KeyInv(k)'
<1>0. sequence \in Nat
  BY CreationAssumption DEF CreationInv, Creation!TypeOK
<1>1. keys' = keys /\ sequence' = sequence /\ lock' = lock
  BY ClosedTables
<1>2. \A m \in 1..sequence : bookings'[m].key = bookings[m].key
                             /\ bookings'[m].body = bookings[m].body
  <2>1. \A m \in 1..sequence : m \in Creation!RowIds
    BY CreationAssumption DEF CreationInv, Creation!TypeOK, Creation!RowIds
  <2> QED BY <2>1 DEF Closed
<1>3. \A m \in Creation!RowIds : bookings'[m].recent /\ bookings'[m].key = k =>
                                   bookings[m].recent /\ bookings[m].key = k
  BY DEF Closed
<1> QED BY <1>0, <1>1, <1>2, <1>3, KeysKept

(* The trip ends, or the booking is cancelled.                             *)
LEMMA EndStep ==
  ASSUME CreationInv, NEW t \in Tasks, NEW n \in Creation!RowIds, Creation!EndTrip(t, n) \/ Creation!Cancel(t, n)
  PROVE  CreationInv'
<1>1. PICK job \in {"accrue", "refund"}, status \in {"ENDED", "CANCELLED"} :
        /\ task[t].at = "idle" /\ bookings[n].status = "OPEN"
        /\ bookings' = [bookings EXCEPT ![n].status = status]
        /\ task' = [task EXCEPT ![t] = [Creation!Idle EXCEPT !.at = "account", !.job = job,
                                                             !.number = n]]
        /\ UNCHANGED <<keys, coupons, sequence, account, ledger, Creation!locks, faults>>
        /\ status = "ENDED" <=> job = "accrue"
  BY DEF Creation!EndTrip, Creation!Cancel, Creation!CloseAs, Creation!Effect
<1>2. Closed(n) /\ bookings'[n].status = status
  <2> DEFINE b == [bookings[n] EXCEPT !.status = status]
  <2>1. bookings[n] \in Creation!Booking /\ bookings \in [Creation!RowIds -> Creation!Booking]
    BY TaskFacts DEF Creation!TypeOK
  <2>2. /\ b \in Creation!Booking /\ b.status = status
        /\ b.key = bookings[n].key /\ b.body = bookings[n].body
        /\ b.coupon = bookings[n].coupon /\ b.mileage = bookings[n].mileage
        /\ b.total = bookings[n].total /\ b.recent = bookings[n].recent
        /\ b.member = bookings[n].member
    BY <2>1 DEF Creation!Booking
  <2>3. bookings' = [bookings EXCEPT ![n] = b]
    BY <1>1
  <2> HIDE DEF b
  <2> QED BY <1>1, <2>1, <2>2, <2>3 DEF Closed
<1>3. /\ TasksType' /\ Others(t)
      /\ task'[t].at = "account" /\ task'[t].job = job
      /\ task'[t].request = Creation!NoRequest
      /\ task'[t].number = n
  <2> DEFINE s == [Creation!Idle EXCEPT !.at = "account", !.job = job, !.number = n]
  <2>1. s \in Creation!TaskState /\ s.at = "account" /\ s.job = job /\ s.request = Creation!NoRequest
        /\ s.number = n
    BY DEF Creation!Idle, Creation!TaskState, Creation!At
  <2>2. task' = [task EXCEPT ![t] = s]
    BY <1>1
  <2> HIDE DEF s
  <2> QED BY <2>1, <2>2, TaskFacts DEF TasksType, Others
<1>4. Creation!TypeOK'
  BY <1>2, <1>3, ClosedTables, TaskFacts DEF Creation!TypeOK, TasksType, Closed
<1>5. \A u \in Tasks \ {t} : Undisturbed(u)
  BY <1>2, <1>3, ClosedTasks DEF Others
<1>6. TaskInv(t)'
  <2>1. lock'["sequence"] # t
    BY <1>1, <1>2, ClosedTables, TaskFacts DEF TaskInv, HoldsSequence, Numbered
  <2> QED BY <1>3, <2>1
     DEF TaskInv, HoldsKey, HoldsSequence, HoldsCoupon, HoldsAccount, Charged, JobInv,
         Writing, Numbered, Quoted, Effects,
         Creation!NoRequest
<1>7. ASSUME NEW k \in Keys
      PROVE  KeyInv(k)'
  <2>1. lock[k] \in Tasks \cup {NoTask}
    BY TaskFacts, StoredRows
  <2>2. lock[k] # NoTask =>
          /\ task'[lock[k]].at \in Writing
          /\ task'[lock[k]].request = task[lock[k]].request
    BY <1>1, <1>3, <2>1 DEF CreationInv, KeyInv, Others, Writing
  <2> QED BY <1>2, <2>2, ClosedKeys
<1>8. ASSUME NEW u \in Tasks
      PROVE  EffectInv(u)'
  <2>0. ledger' = ledger /\ sequence' = sequence /\ n \in 1..sequence
    BY <1>2, ClosedTables
  <2>1. \A v \in Tasks \ {t} : task'[v] = task[v] /\ EffectInv(v)
    BY <1>3 DEF CreationInv, Others
  <2>2. \A v \in Tasks \ {t} : task[v].job \in {"accrue", "refund"} =>
          task[v].number # n /\ task[v].number \in 1..sequence
    BY <1>1, <2>1 DEF EffectInv
  <2>3. CASE u = t
    <3>1. ledger[n].accrue = 0 /\ ledger[n].reversal = 0
      BY <1>1 DEF CreationInv, LedgerInv
    <3> QED BY <1>1, <1>2, <1>3, <2>0, <2>1, <2>2, <2>3, <3>1 DEF EffectInv
  <2>4. CASE u # t
    <3>1. \A m \in 1..sequence : m # n => bookings'[m] = bookings[m]
      <4>1. \A m \in 1..sequence : m \in Creation!RowIds
        BY TaskFacts, CreationAssumption DEF Creation!TypeOK, Creation!RowIds
      <4> QED BY <1>2, <4>1 DEF Closed
    <3> QED BY <1>3, <2>0, <2>1, <2>2, <2>4, <3>1 DEF EffectInv
  <2> QED BY <2>3, <2>4
<1> QED BY <1>2, <1>4, <1>5, <1>6, <1>7, <1>8, ClosedTables, Assemble

(* The negotiation of the booking has used up its attempts.                *)
LEMMA ExhaustStep ==
  ASSUME CreationInv, NEW n \in Creation!RowIds, Creation!Exhaust(n)
  PROVE  CreationInv'
<1>1. Closed(n) /\ task' = task
  <2> DEFINE b == [bookings[n] EXCEPT !.status = "CANCELLED", !.exhausted = TRUE]
  <2>1. bookings[n] \in Creation!Booking /\ bookings \in [Creation!RowIds -> Creation!Booking]
    BY DEF Creation!TypeOK, CreationInv
  <2>2. /\ b \in Creation!Booking /\ b.status = "CANCELLED"
        /\ b.key = bookings[n].key /\ b.body = bookings[n].body
        /\ b.coupon = bookings[n].coupon /\ b.mileage = bookings[n].mileage
        /\ b.total = bookings[n].total /\ b.recent = bookings[n].recent
        /\ b.member = bookings[n].member
    BY <2>1 DEF Creation!Booking
  <2>3. bookings' = [bookings EXCEPT ![n] = b]
    BY DEF Creation!Exhaust
  <2> HIDE DEF b
  <2> QED BY <2>1, <2>2, <2>3 DEF Closed, Creation!Exhaust
<1>2. Creation!TypeOK'
  BY <1>1, ClosedTables DEF CreationInv, Creation!TypeOK, Closed
<1>3. \A u \in Tasks : Undisturbed(u)
  BY <1>1, ClosedTasks
<1>4. ASSUME NEW k \in Keys
      PROVE  KeyInv(k)'
  <2>1. lock[k] # NoTask => task[lock[k]].at \in Writing
    BY DEF CreationInv, KeyInv
  <2> QED BY <1>1, <2>1, ClosedKeys
<1>5. ASSUME NEW u \in Tasks
      PROVE  EffectInv(u)'
  <2>0. ledger' = ledger /\ sequence' = sequence
    BY <1>1, ClosedTables
  <2>1. EffectInv(u) /\ bookings[n].status = "OPEN"
    BY <1>1 DEF CreationInv, Closed
  <2>2. \A m \in 1..sequence : m # n => bookings'[m] = bookings[m]
    <3>1. \A m \in 1..sequence : m \in Creation!RowIds
      BY CreationAssumption DEF CreationInv, Creation!TypeOK, Creation!RowIds
    <3> QED BY <1>1, <3>1 DEF Closed
  <2> QED BY <1>1, <2>0, <2>1, <2>2 DEF EffectInv
<1> QED BY <1>1, <1>2, <1>3, <1>4, <1>5, ClosedTables, AssembleAll

(* Mileage is posted: accrueForBooking, reverseRedemptionForBooking.       *)
Posted(t, n, amount) ==
  /\ task[t].at = "post" /\ n = task[t].number /\ n \in Creation!RowIds
  /\ amount \in Nat
  /\ \/ /\ task[t].job = "accrue" /\ ledger[n].accrue = 0 /\ ledger'[n].accrue = amount
        /\ bookings[n].status = "ENDED" /\ amount \in {0, Creation!Accrual(n)}
        /\ bookings[n].member => amount = Creation!Accrual(n)
        /\ ledger'[n].reversal = ledger[n].reversal
     \/ /\ task[t].job = "refund" /\ ledger[n].reversal = 0 /\ ledger'[n].reversal = amount
        /\ bookings[n].status = "CANCELLED" /\ amount = ledger[n].redeem
        /\ ledger'[n].accrue = ledger[n].accrue
  /\ ledger' \in [Creation!RowIds -> Creation!LedgerRow]
  /\ ledger'[n].redeem = ledger[n].redeem
  /\ \A m \in Creation!RowIds \ {n} : ledger'[m] = ledger[m]
  /\ account' \in Creation!AccountRow /\ account'.exists
  /\ account'.opening = account.opening
  /\ account'.balance = account.balance + amount
  /\ Creation!Release(t) /\ task' = [task EXCEPT ![t] = Creation!Idle]
  /\ UNCHANGED <<keys, coupons, sequence, bookings, faults>>

(* What an effect posts to the ledger, it deposits in the account.         *)
LEMMA PostEffect ==
  ASSUME CreationInv, NEW t \in Tasks, Creation!Credit(t) \/ Creation!Return(t)
  PROVE  Posted(t, task[t].number, Creation!Amount(t))
<1> DEFINE n == task[t].number
           a == Creation!Amount(t)
<1>0. bookings \in [Creation!RowIds -> Creation!Booking] /\ ledger \in [Creation!RowIds -> Creation!LedgerRow]
      /\ account \in Creation!AccountRow
  BY TaskFacts DEF Creation!TypeOK
<1>1. /\ task[t].at = "post"
      /\ account' = [account EXCEPT !.exists = TRUE, !.balance = @ + a]
      /\ Creation!Release(t) /\ task' = [task EXCEPT ![t] = Creation!Idle]
      /\ UNCHANGED <<keys, coupons, sequence, bookings, faults>>
      /\ \/ task[t].job = "accrue" /\ ledger' = [ledger EXCEPT ![n].accrue = a]
         \/ task[t].job = "refund" /\ ledger' = [ledger EXCEPT ![n].reversal = a]
  BY DEF Creation!Credit, Creation!Return, Creation!Deposit
<1>2. EffectInv(t)
  BY DEF CreationInv
<1>3. n \in Creation!RowIds
  <2>1. n \in 1..sequence /\ sequence \in 0..MaxBookings
    BY <1>1, <1>2, TaskFacts DEF EffectInv, Creation!TypeOK
  <2> QED BY <2>1, CreationAssumption DEF Creation!RowIds
<1>4. ledger[n] \in Creation!LedgerRow /\ bookings[n] \in Creation!Booking
  BY <1>0, <1>3
<1>5. Creation!Accrual(n) \in Nat
  <2>1. bookings[n].total \in Nat
    BY <1>4 DEF Creation!Booking
  <2> QED BY <2>1 DEF Creation!Accrual
<1>8. ASSUME a \in Nat
      PROVE  /\ account' \in Creation!AccountRow /\ account'.exists
             /\ account'.opening = account.opening
             /\ account'.balance = account.balance + a
  <2>1. account' = [account EXCEPT !.exists = TRUE, !.balance = account.balance + a]
    BY <1>1
  <2>2. account.balance + a \in Int
    BY <1>0, <1>8 DEF Creation!AccountRow
  <2>3. account' = [exists |-> TRUE, balance |-> account.balance + a,
                    opening |-> account.opening]
    BY <1>0, <2>1 DEF Creation!AccountRow
  <2> HIDE DEF a
  <2> QED BY <1>0, <2>2, <2>3 DEF Creation!AccountRow
<1>6. CASE task[t].job = "accrue"
  <2>1. bookings[n].status = "ENDED" /\ ledger[n].accrue = 0
    BY <1>2, <1>6 DEF EffectInv
  <2>2. a \in Nat /\ a \in {0, Creation!Accrual(n)} /\ (bookings[n].member => a = Creation!Accrual(n))
    BY <1>5, <1>6, <2>1 DEF Creation!Amount
  <2> DEFINE row == [ledger[n] EXCEPT !.accrue = a]
  <2>3. ledger' = [ledger EXCEPT ![n] = row]
    BY <1>1, <1>6
  <2> HIDE DEF a
  <2>4. row \in Creation!LedgerRow /\ row.accrue = a /\ row.reversal = ledger[n].reversal
        /\ row.redeem = ledger[n].redeem
    BY <1>4, <2>2 DEF Creation!LedgerRow
  <2>5. account' \in Creation!AccountRow /\ account'.exists /\ account'.opening = account.opening
        /\ account'.balance = account.balance + a
    BY <1>8, <2>2
  <2> HIDE DEF row
  <2>6. /\ ledger' \in [Creation!RowIds -> Creation!LedgerRow] /\ ledger'[n] = row
        /\ \A m \in Creation!RowIds \ {n} : ledger'[m] = ledger[m]
    BY <1>0, <1>3, <2>3, <2>4
  <2>7. Posted(t, n, a)
    BY <1>1, <1>3, <1>6, <2>1, <2>2, <2>4, <2>5, <2>6 DEF Posted
  <2> QED BY <2>7 DEF a
<1>7. CASE task[t].job = "refund"
  <2>1. bookings[n].status = "CANCELLED" /\ ledger[n].reversal = 0
    BY <1>2, <1>7 DEF EffectInv
  <2>2. a \in Nat /\ a = ledger[n].redeem
    BY <1>4, <1>7, <2>1 DEF Creation!Amount, Creation!LedgerRow
  <2> DEFINE row == [ledger[n] EXCEPT !.reversal = a]
  <2>3. ledger' = [ledger EXCEPT ![n] = row]
    BY <1>1, <1>7
  <2> HIDE DEF a
  <2>4. row \in Creation!LedgerRow /\ row.reversal = a /\ row.accrue = ledger[n].accrue
        /\ row.redeem = ledger[n].redeem
    BY <1>4, <2>2 DEF Creation!LedgerRow
  <2>5. account' \in Creation!AccountRow /\ account'.exists /\ account'.opening = account.opening
        /\ account'.balance = account.balance + a
    BY <1>8, <2>2
  <2> HIDE DEF row
  <2>6. /\ ledger' \in [Creation!RowIds -> Creation!LedgerRow] /\ ledger'[n] = row
        /\ \A m \in Creation!RowIds \ {n} : ledger'[m] = ledger[m]
    BY <1>0, <1>3, <2>3, <2>4
  <2>7. Posted(t, n, a)
    BY <1>1, <1>3, <1>7, <2>1, <2>2, <2>4, <2>5, <2>6 DEF Posted
  <2> QED BY <2>7 DEF a
<1> QED BY <1>1, <1>6, <1>7

(* Mileage is credited or returned.                                        *)
LEMMA PostStep ==
  ASSUME CreationInv, NEW t \in Tasks, Creation!Credit(t) \/ Creation!Return(t)
  PROVE  CreationInv'
<1> DEFINE n == task[t].number
           a == Creation!Amount(t)
<1>1. Posted(t, n, a)
  BY PostEffect
<1> HIDE DEF n, a
<1>2. /\ n \in Creation!RowIds /\ a \in Nat /\ n = task[t].number /\ task[t].at = "post"
      /\ task[t].job \in {"accrue", "refund"}
      /\ keys' = keys /\ coupons' = coupons /\ sequence' = sequence
      /\ bookings' = bookings /\ faults' = faults
      /\ account'.balance = account.balance + a
  BY <1>1 DEF Posted
<1>3. TasksType' /\ Idles(t)
  BY <1>1, TaskFacts, IdleEffect DEF Posted
<1>4. /\ lock' \in [Creation!Rows -> Tasks \cup {NoTask}]
      /\ gap' \in [Creation!Rows -> SUBSET Tasks]
      /\ \A r \in Creation!Rows : lock'[r] = IF lock[r] = t THEN NoTask ELSE lock[r]
      /\ \A r \in Creation!Rows : gap'[r] = gap[r] \ {t}
  BY <1>1, TaskFacts, ReleaseEffect DEF Posted
<1>5. Creation!TypeOK'
  BY <1>1, <1>2, <1>3, <1>4, TaskFacts DEF Creation!TypeOK, TasksType, Posted
<1>6. sequence \in Nat /\ account.balance \in Int
  BY TaskFacts, CreationAssumption DEF Creation!TypeOK, Creation!AccountRow
<1>7. ASSUME NEW u \in Tasks \ {t}
      PROVE  Undisturbed(u)
  <2>1. task'[u] = task[u]
    BY <1>3 DEF Idles, Others
  <2>2. task[u].at = "insert" => keys[task[u].request.key].status = "NONE"
    BY TaskFacts DEF TaskInv, JobInv, HoldsKey
  <2>3. /\ task[u].at = "first" => lock'["sequence"] = NoTask
        /\ lock'["sequence"] = u => lock["sequence"] = u
    BY <1>4, StoredRows, TaskFacts, CreationAssumption DEF TaskInv, HoldsSequence
  <2>4. \A r \in Creation!Rows : lock[r] = u => lock'[r] = u
    BY <1>4, CreationAssumption
  <2> QED BY <1>2, <1>4, <1>6, <2>1, <2>2, <2>3, <2>4 DEF Undisturbed
<1>8. TaskInv(t)'
  <2>1. lock'["sequence"] # t
    BY <1>4, StoredRows, TaskFacts, CreationAssumption
  <2> QED BY <1>3, <2>1
     DEF TaskInv, HoldsKey, HoldsSequence, HoldsCoupon, HoldsAccount, Charged, JobInv,
         Writing, Numbered, Quoted, Effects,
         Idles, Creation!NoRequest
<1>9. ASSUME NEW k \in Keys
      PROVE  KeyInv(k)'
  <2>0. KeyInv(k) /\ k \in Creation!Rows /\ lock[k] \in Tasks \cup {NoTask}
    BY StoredRows, TaskFacts DEF CreationInv
  <2>1. lock[k] # t
    BY <1>2, <2>0, CreationAssumption DEF KeyInv, Writing
  <2>2. keys'[k] = keys[k] /\ lock'[k] = lock[k]
    BY <1>2, <1>4, <2>0, <2>1
  <2>3. lock[k] # NoTask =>
          /\ task'[lock[k]].at \in Writing
          /\ task'[lock[k]].request = task[lock[k]].request
    BY <1>3, <2>0, <2>1 DEF KeyInv, Idles, Others
  <2> QED BY <1>2, <1>6, <2>2, <2>3, KeysKept
<1>10. ASSUME NEW m \in Creation!RowIds
       PROVE  OrderInv(m)'
  <2>1. n \in 1..sequence
    BY <1>2 DEF CreationInv, EffectInv
  <2>2. m > sequence => m # n
    BY <1>6, <2>1
  <2> QED BY <1>1, <1>2, <2>2 DEF CreationInv, OrderInv, Posted
<1>11. Creation!CouponSpentOnce'
  BY <1>2 DEF CreationInv, Creation!CouponSpentOnce
<1>12. BalanceInv'
  <2>1. /\ account'.opening = account.opening /\ account'.exists
        /\ \A m \in Creation!RowIds \ {n} : ledger'[m] = ledger[m]
    BY <1>1 DEF Posted
  <2>2. account'.balance - account.balance =
             (ledger'[n].accrue + ledger'[n].reversal - ledger'[n].redeem)
           - (ledger[n].accrue + ledger[n].reversal - ledger[n].redeem)
    <3>1. ledger[n] \in Creation!LedgerRow /\ ledger'[n] \in Creation!LedgerRow
      BY <1>1, <1>2, TaskFacts DEF Posted, Creation!TypeOK
    <3>2. /\ ledger[n].accrue \in Nat /\ ledger[n].reversal \in Nat
          /\ ledger[n].redeem \in Nat
          /\ ledger'[n].redeem = ledger[n].redeem
      BY <1>1, <3>1 DEF Creation!LedgerRow, Posted
    <3>3. \/ ledger'[n].accrue = ledger[n].accrue + a /\ ledger'[n].reversal = ledger[n].reversal
          \/ ledger'[n].accrue = ledger[n].accrue /\ ledger'[n].reversal = ledger[n].reversal + a
      BY <1>1, <1>2 DEF Posted
    <3> QED BY <1>2, <1>6, <3>2, <3>3
  <2>3. Creation!TypeOK /\ BalanceInv
    BY DEF CreationInv
  <2>4. account'.balance = account'.opening + Creation!SumFunction(Creation!Movement)'
    BY <1>2, <1>5, <2>1, <2>2, <2>3, BalanceMoves
  <2>5. account'.balance >= 0
    BY <1>2, <1>6, <2>3 DEF BalanceInv
  <2> QED BY <2>1, <2>4, <2>5 DEF BalanceInv
<1>13. ASSUME NEW m \in Creation!RowIds
       PROVE  LedgerInv(m)'
  <2>0. LedgerInv(m) /\ Creation!Accrual(m)' = Creation!Accrual(m)
    BY <1>2 DEF CreationInv, Creation!Accrual
  <2>1. CASE m = n
    BY <1>1, <1>2, <2>0, <2>1 DEF Posted, LedgerInv
  <2>2. CASE m # n
    BY <1>1, <1>2, <2>0, <2>2 DEF Posted, LedgerInv
  <2> QED BY <2>1, <2>2
<1>14. ASSUME NEW u \in Tasks
       PROVE  EffectInv(u)'
  <2>1. \A v \in Tasks : EffectInv(v)
    BY DEF CreationInv
  <2>2. CASE u = t
    BY <1>3, <2>2 DEF EffectInv, Idles
  <2>3. CASE u # t
    <3>1. task'[u] = task[u]
      BY <1>3, <2>3 DEF Idles, Others
    <3>2. task[u].job \in {"accrue", "refund"} =>
            /\ task[u].number # n /\ task[u].number \in 1..sequence
            /\ task[u].number \in Creation!RowIds
      <4>1. \A m \in 1..sequence : m \in Creation!RowIds
        BY TaskFacts, CreationAssumption DEF Creation!TypeOK, Creation!RowIds
      <4> QED BY <1>2, <2>1, <2>3, <4>1 DEF EffectInv
    <3>3. task[u].job \in {"accrue", "refund"} =>
            ledger'[task[u].number] = ledger[task[u].number]
      BY <1>1, <3>2 DEF Posted
    <3>4. task[u].job \in {"accrue", "refund"} =>
            \A v \in Tasks \ {u} :
              ~(task'[v].job \in {"accrue", "refund"} /\ task'[v].number = task[u].number)
      BY <1>3, <2>1 DEF EffectInv, Idles, Others
    <3> QED BY <1>2, <2>1, <3>1, <3>3, <3>4 DEF EffectInv
  <2> QED BY <2>2, <2>3
<1> QED BY <1>5, <1>7, <1>8, <1>9, <1>10, <1>11, <1>12, <1>13, <1>14, Assemble

-----------------------------------------------------------------------------
(* Steps of nobody's task.                                                 *)

(* What the steps use of the invariant, fact by fact.                      *)
LEMMA InvFacts ==
  ASSUME CreationInv
  PROVE  /\ Creation!TypeOK /\ sequence \in Nat /\ account.balance \in Int
         /\ keys \in [Keys -> Creation!KeyRow]
         /\ coupons \in [Coupons -> Creation!CouponRow]
         /\ bookings \in [Creation!RowIds -> Creation!Booking]
         /\ task \in [Tasks -> Creation!TaskState]
         /\ lock \in [Creation!Rows -> Tasks \cup {NoTask}]
         /\ gap \in [Creation!Rows -> SUBSET Tasks]
         /\ \A m \in 1..sequence : m \in Creation!RowIds
         /\ \A k \in Keys : KeyInv(k) /\ lock[k] \in Tasks \cup {NoTask}
         /\ \A u \in Tasks : TaskInv(u) /\ EffectInv(u)
<1>1. Creation!TypeOK
  BY DEF CreationInv
<1>2. /\ sequence \in 0..MaxBookings /\ account.balance \in Int
      /\ keys \in [Keys -> Creation!KeyRow]
      /\ coupons \in [Coupons -> Creation!CouponRow]
      /\ bookings \in [Creation!RowIds -> Creation!Booking]
      /\ task \in [Tasks -> Creation!TaskState]
      /\ lock \in [Creation!Rows -> Tasks \cup {NoTask}]
      /\ gap \in [Creation!Rows -> SUBSET Tasks]
  BY <1>1 DEF Creation!TypeOK, Creation!AccountRow
<1>3. sequence \in Nat /\ \A m \in 1..sequence : m \in Creation!RowIds
  BY <1>2, CreationAssumption DEF Creation!RowIds
<1>4. \A k \in Keys : KeyInv(k) /\ lock[k] \in Tasks \cup {NoTask}
  BY <1>1, <1>2, StoredRows DEF CreationInv
<1> QED BY <1>1, <1>2, <1>3, <1>4 DEF CreationInv

(* What a task is at when no table but one changes.                        *)
LEMMA AtRest ==
  ASSUME CreationInv, NEW u \in Tasks, UNCHANGED <<sequence, account, Creation!locks, task>>,
         task[u].at = "insert" => keys'[task[u].request.key].status = "NONE",
         \A n \in 1..sequence : bookings'[n].key = bookings[n].key
                                /\ bookings'[n].body = bookings[n].body,
         \A c \in Coupons : lock[c] = u /\ coupons[c].status = "AVAILABLE" =>
                              coupons'[c].status = "AVAILABLE"
  PROVE  Undisturbed(u)
<1>1. task[u].at = "first" => lock["sequence"] = NoTask
  BY InvFacts DEF TaskInv, HoldsSequence
<1>2. lock' = lock /\ gap' = gap /\ sequence' = sequence /\ account' = account /\ task' = task
  BY DEF Creation!locks
<1> QED BY <1>1, <1>2, InvFacts DEF Undisturbed

(* Who is about to insert a key's row has a key, and there is no row for   *)
(* it.                                                                     *)
LEMMA Inserts ==
  ASSUME CreationInv, NEW u \in Tasks, task[u].at = "insert"
  PROVE  /\ task[u].request.key \in Keys
         /\ keys[task[u].request.key].status = "NONE"
  BY TaskFacts DEF TaskInv, JobInv, HoldsKey

(* An administrator issues a coupon or takes it back.                      *)
LEMMA CouponStep ==
  ASSUME CreationInv, NEW c \in Coupons, Creation!IssueCoupon(c) \/ Creation!CancelCoupon(c)
  PROVE  CreationInv'
<1>1. PICK status \in {"AVAILABLE", "DELETED"} :
        /\ coupons' = [coupons EXCEPT ![c].status = status]
        /\ coupons[c].status # "USED"
        /\ lock[c] # NoTask /\ coupons[c].status = "AVAILABLE" => status = "AVAILABLE"
        /\ UNCHANGED <<keys, sequence, bookings, account, ledger, Creation!locks, task, faults>>
  BY DEF Creation!IssueCoupon, Creation!CancelCoupon
<1>2. /\ keys' = keys /\ sequence' = sequence /\ bookings' = bookings
      /\ account' = account /\ ledger' = ledger /\ lock' = lock /\ gap' = gap
      /\ task' = task /\ faults' = faults
  BY <1>1 DEF Creation!locks
<1>3. /\ coupons' \in [Coupons -> Creation!CouponRow] /\ coupons'[c].status = status
      /\ \A x \in Coupons \ {c} : coupons'[x] = coupons[x]
  <2> DEFINE row == [coupons[c] EXCEPT !.status = status]
  <2>1. coupons' = [coupons EXCEPT ![c] = row]
    BY <1>1
  <2>2. row \in Creation!CouponRow /\ row.status = status
    BY InvFacts DEF Creation!CouponRow
  <2> HIDE DEF row
  <2> QED BY <2>1, <2>2, InvFacts
<1>4. Creation!TypeOK'
  BY <1>2, <1>3, InvFacts DEF Creation!TypeOK
<1>5. ASSUME NEW u \in Tasks
      PROVE  Undisturbed(u)
  <2>1. \A x \in Coupons : lock[x] = u /\ coupons[x].status = "AVAILABLE" =>
                             coupons'[x].status = "AVAILABLE"
    BY <1>1, <1>3, CreationAssumption
  <2> QED BY <1>1, <1>2, <2>1, AtRest, Inserts
<1>6. \A k \in Keys : KeyInv(k)'
  BY <1>2, InvFacts DEF KeyInv
<1>7. /\ \A n \in Creation!RowIds : OrderInv(n)'
      /\ \A n \in Creation!RowIds : LedgerInv(n)'
      /\ \A u \in Tasks : EffectInv(u)'
  BY <1>2 DEF CreationInv, OrderInv, LedgerInv, EffectInv, Creation!Accrual
<1>8. Creation!CouponSpentOnce'
  <2> SUFFICES ASSUME NEW m \in Creation!RowIds, NEW x \in Coupons,
                      bookings[m].coupon = x, bookings[m].status # "NONE"
               PROVE  coupons'[x] = [status |-> "USED", booking |-> m]
    BY <1>2 DEF Creation!CouponSpentOnce
  <2>1. coupons[x] = [status |-> "USED", booking |-> m]
    BY DEF CreationInv, Creation!CouponSpentOnce
  <2> QED BY <1>1, <1>3, <2>1
<1>9. BalanceInv'
  <2>1. Creation!Movement' = Creation!Movement
    BY <1>2 DEF Creation!Movement
  <2> QED BY <1>2, <2>1 DEF CreationInv, BalanceInv
<1> QED BY <1>4, <1>5, <1>6, <1>7, <1>8, <1>9, AssembleAll

(* The invariants that speak neither of keys nor of the recent.            *)
LEMMA BooksKept ==
  ASSUME CreationInv, bookings' \in [Creation!RowIds -> Creation!Booking],
         \A n \in Creation!RowIds :
           /\ bookings'[n].status = bookings[n].status
           /\ bookings'[n].coupon = bookings[n].coupon
           /\ bookings'[n].total = bookings[n].total
           /\ bookings'[n].recent => bookings[n].recent,
         UNCHANGED <<coupons, sequence, account, ledger, task>>
  PROVE  /\ \A n \in Creation!RowIds : OrderInv(n)'
         /\ Creation!CouponSpentOnce' /\ BalanceInv'
         /\ \A n \in Creation!RowIds : LedgerInv(n)'
         /\ \A u \in Tasks : EffectInv(u)'
<1>1. \A n \in Creation!RowIds : OrderInv(n)'
  BY DEF CreationInv, OrderInv
<1>2. Creation!CouponSpentOnce'
  BY DEF CreationInv, Creation!CouponSpentOnce
<1>3. BalanceInv'
  <2>1. Creation!Movement' = Creation!Movement
    BY DEF Creation!Movement
  <2> QED BY <2>1 DEF CreationInv, BalanceInv
<1>4. ASSUME NEW n \in Creation!RowIds
      PROVE  LedgerInv(n)'
  <2>1. Creation!Accrual(n)' = Creation!Accrual(n)
    BY DEF Creation!Accrual
  <2> QED BY <2>1 DEF CreationInv, LedgerInv
<1>5. ASSUME NEW u \in Tasks
      PROVE  EffectInv(u)'
  BY InvFacts DEF EffectInv
<1> QED BY <1>1, <1>2, <1>3, <1>4, <1>5

(* A key's row expires.                                                    *)
LEMMA ExpireStep ==
  ASSUME CreationInv, NEW k \in Keys, Creation!Expire(k)
  PROVE  CreationInv'
<1> DEFINE b == keys[k].booking
<1>1. /\ keys[k].status = "COMPLETED" /\ ~keys[k].expired
      /\ keys' = [keys EXCEPT ![k].expired = TRUE]
      /\ bookings' = [bookings EXCEPT ![b].recent = FALSE]
      /\ coupons' = coupons /\ sequence' = sequence /\ account' = account
      /\ ledger' = ledger /\ lock' = lock /\ gap' = gap /\ task' = task
      /\ faults' = faults
  BY DEF Creation!Expire, Creation!locks
<1>2. b \in 1..sequence /\ b \in Creation!RowIds
  BY <1>1, InvFacts DEF KeyInv
<1>3. /\ keys' \in [Keys -> Creation!KeyRow] /\ keys'[k].expired = TRUE
      /\ keys'[k].status = keys[k].status /\ keys'[k].body = keys[k].body
      /\ keys'[k].booking = b
      /\ \A x \in Keys \ {k} : keys'[x] = keys[x]
  <2> DEFINE row == [keys[k] EXCEPT !.expired = TRUE]
  <2>1. keys' = [keys EXCEPT ![k] = row]
    BY <1>1
  <2>2. row \in Creation!KeyRow /\ row.expired = TRUE /\ row.status = keys[k].status
        /\ row.body = keys[k].body /\ row.booking = b
    BY InvFacts DEF Creation!KeyRow
  <2> HIDE DEF row, b
  <2> QED BY <2>1, <2>2, InvFacts
<1>4. /\ bookings' \in [Creation!RowIds -> Creation!Booking] /\ ~bookings'[b].recent
      /\ bookings'[b].key = bookings[b].key /\ bookings'[b].body = bookings[b].body
      /\ bookings'[b].status = bookings[b].status
      /\ bookings'[b].coupon = bookings[b].coupon
      /\ bookings'[b].total = bookings[b].total
      /\ \A n \in Creation!RowIds \ {b} : bookings'[n] = bookings[n]
  <2> DEFINE row == [bookings[b] EXCEPT !.recent = FALSE]
  <2>1. bookings' = [bookings EXCEPT ![b] = row]
    BY <1>1
  <2> HIDE DEF b
  <2>0. bookings[b] \in Creation!Booking
    BY <1>2, InvFacts
  <2>2. /\ row \in Creation!Booking /\ row.recent = FALSE
        /\ row.key = bookings[b].key /\ row.body = bookings[b].body
        /\ row.status = bookings[b].status /\ row.coupon = bookings[b].coupon
        /\ row.total = bookings[b].total
    BY <2>0 DEF Creation!Booking
  <2> HIDE DEF row
  <2> QED BY <1>2, <2>1, <2>2, InvFacts
<1> HIDE DEF b
<1>5. \A n \in Creation!RowIds :
        /\ bookings'[n].key = bookings[n].key /\ bookings'[n].body = bookings[n].body
        /\ bookings'[n].status = bookings[n].status
        /\ bookings'[n].coupon = bookings[n].coupon
        /\ bookings'[n].total = bookings[n].total
        /\ bookings'[n].recent => bookings[n].recent /\ n # b
  BY <1>4
<1>6. Creation!TypeOK'
  BY <1>1, <1>3, <1>4, InvFacts DEF Creation!TypeOK
<1>7. ASSUME NEW u \in Tasks
      PROVE  Undisturbed(u)
  <2>1. task[u].at = "insert" => keys'[task[u].request.key].status = "NONE"
    BY <1>1, <1>3, Inserts
  <2> QED BY <1>1, <1>5, <2>1, AtRest, InvFacts DEF Creation!locks
<1>8. ASSUME NEW x \in Keys
      PROVE  KeyInv(x)'
  <2>0. lock[x] # NoTask => task[lock[x]].at \in Writing
    BY InvFacts DEF KeyInv
  <2>1. CASE x = k
    <3>1. keys[k].booking = b /\ KeyInv(k) /\ lock[k] = NoTask
      BY <1>1, InvFacts DEF b, KeyInv
    <3>2. \A n \in Creation!RowIds : ~(bookings'[n].recent /\ bookings'[n].key = k)
      BY <1>5, <3>1 DEF KeyInv
    <3>3. bookings'[b].key = k /\ bookings'[b].body = keys[k].body
      BY <1>1, <1>4, <3>1 DEF KeyInv
    <3> QED BY <1>1, <1>2, <1>3, <2>1, <3>1, <3>2, <3>3 DEF KeyInv
  <2>2. CASE x # k
    BY <1>1, <1>3, <1>5, <2>0, <2>2, InvFacts, KeysKept
  <2> QED BY <2>1, <2>2
<1> QED BY <1>1, <1>4, <1>5, <1>6, <1>7, <1>8, BooksKept, AssembleAll

(* A key's expired row is deleted.                                         *)
LEMMA CleanupStep ==
  ASSUME CreationInv, NEW k \in Keys, Creation!Cleanup(k)
  PROVE  CreationInv'
<1>1. /\ keys[k].expired /\ lock[k] = NoTask
      /\ keys' = [keys EXCEPT ![k] = Creation!NoRow]
      /\ coupons' = coupons /\ sequence' = sequence /\ account' = account
      /\ bookings' = bookings
      /\ ledger' = ledger /\ lock' = lock /\ gap' = gap /\ task' = task
      /\ faults' = faults
  BY DEF Creation!Cleanup, Creation!locks
<1>2. Creation!NoRow \in Creation!KeyRow /\ Creation!NoRow.status = "NONE" /\ ~Creation!NoRow.expired
  BY BodyType DEF Creation!NoRow, Creation!KeyRow
<1>3. /\ keys' \in [Keys -> Creation!KeyRow] /\ keys'[k] = Creation!NoRow
      /\ \A x \in Keys \ {k} : keys'[x] = keys[x]
  BY <1>1, <1>2, InvFacts
<1>4. Creation!TypeOK'
  BY <1>1, <1>3, InvFacts DEF Creation!TypeOK
<1>5. ASSUME NEW u \in Tasks
      PROVE  Undisturbed(u)
  <2>1. task[u].at = "insert" => keys'[task[u].request.key].status = "NONE"
    BY <1>2, <1>3, Inserts
  <2> QED BY <1>1, <2>1, AtRest, InvFacts DEF Creation!locks
<1>6. ASSUME NEW x \in Keys
      PROVE  KeyInv(x)'
  <2>0. lock[x] # NoTask => task[lock[x]].at \in Writing
    BY InvFacts DEF KeyInv
  <2>1. CASE x = k
    <3>1. \A n \in Creation!RowIds : ~(bookings[n].recent /\ bookings[n].key = k)
      BY <1>1, InvFacts DEF KeyInv
    <3> QED BY <1>1, <1>2, <1>3, <2>1, <3>1 DEF KeyInv
  <2>2. CASE x # k
    BY <1>1, <1>3, <2>0, <2>2, InvFacts, KeysKept
  <2> QED BY <2>1, <2>2
<1> QED BY <1>1, <1>4, <1>5, <1>6, InvFacts, BooksKept, AssembleAll

(* The server crashes.                                                     *)
LEMMA CrashStep ==
  ASSUME CreationInv, Creation!Crash
  PROVE  CreationInv'
<1>1. /\ keys' = Creation!RolledBack(Tasks)
      /\ lock' = [r \in Creation!Rows |-> NoTask] /\ gap' = [r \in Creation!Rows |-> {}]
      /\ task' = [t \in Tasks |-> Creation!Idle] /\ faults' = faults + 1
      /\ faults < MaxFaults
      /\ coupons' = coupons /\ sequence' = sequence /\ account' = account
      /\ bookings' = bookings /\ ledger' = ledger
  BY DEF Creation!Crash
<1>2. Creation!NoRow \in Creation!KeyRow /\ Creation!NoRow.status = "NONE" /\ ~Creation!NoRow.expired
  BY BodyType DEF Creation!NoRow, Creation!KeyRow
<1>3. \A k \in Keys : keys'[k] = IF lock[k] \in Tasks /\ keys[k].status = "PENDING"
                                 THEN Creation!NoRow ELSE keys[k]
  BY <1>1 DEF Creation!RolledBack
<1>4. keys' \in [Keys -> Creation!KeyRow]
  BY <1>1, <1>2, InvFacts DEF Creation!RolledBack
<1>5. /\ task' \in [Tasks -> Creation!TaskState]
      /\ lock' \in [Creation!Rows -> Tasks \cup {NoTask}]
      /\ gap' \in [Creation!Rows -> SUBSET Tasks]
  BY <1>1, IdleType
<1>6. Creation!TypeOK'
  <2>1. faults' \in 0..MaxFaults
    BY <1>1, InvFacts, CreationAssumption DEF Creation!TypeOK
  <2> QED BY <1>1, <1>4, <1>5, <2>1, InvFacts DEF Creation!TypeOK
<1>7. \A u \in Tasks : /\ task'[u].at = "idle" /\ task'[u].job = "none"
                       /\ task'[u].request.key = NoKey
  BY <1>1 DEF Creation!Idle, Creation!NoRequest
<1>8. ASSUME NEW u \in Tasks
      PROVE  TaskInv(u)'
  <2>1. lock'["sequence"] # u
    BY <1>1, StoredRows, InvFacts, CreationAssumption
  <2> QED BY <1>7, <2>1
     DEF TaskInv, HoldsKey, HoldsSequence, HoldsCoupon, HoldsAccount, Charged, JobInv,
         Writing, Numbered, Quoted, Effects
<1>9. ASSUME NEW k \in Keys
      PROVE  KeyInv(k)'
  <2>0. KeyInv(k) /\ lock'[k] = NoTask /\ lock[k] \in Tasks \cup {NoTask}
    BY <1>1, InvFacts, StoredRows
  <2>1. CASE lock[k] \in Tasks
    <3>1. keys'[k] = Creation!NoRow
      BY <1>3, <2>0, <2>1, CreationAssumption DEF KeyInv
    <3>2. \A n \in Creation!RowIds : ~(bookings[n].recent /\ bookings[n].key = k)
      BY <2>0, <2>1, CreationAssumption DEF KeyInv
    <3> QED BY <1>1, <1>2, <2>0, <3>1, <3>2 DEF KeyInv
  <2>2. CASE lock[k] = NoTask
    <3>1. keys'[k] = keys[k]
      BY <1>3, <2>0, <2>2, CreationAssumption
    <3> QED BY <1>1, <2>0, <2>2, <3>1 DEF KeyInv
  <2> QED BY <2>0, <2>1, <2>2
<1>10. \A u \in Tasks : task'[u].job \in {"accrue", "refund"} =>
         task'[u].job = task[u].job /\ task'[u].number = task[u].number
  BY <1>7
<1> QED BY <1>1, <1>6, <1>8, <1>9, <1>10, TablesKept DEF CreationInv

-----------------------------------------------------------------------------
(* Each step of a task keeps the invariant,                                *)
LEMMA StepKeeps ==
  ASSUME CreationInv, NEW t \in Tasks, Creation!Step(t) \/ Creation!Deadlock(t) \/ Creation!Fail(t)
  PROVE  CreationInv'
<1>1. faults \in 0..MaxFaults /\ MaxFaults \in Nat
  BY InvFacts, CreationAssumption DEF Creation!TypeOK
<1>2. CASE Creation!Rollback(t) /\ faults' = faults
  BY <1>1, <1>2, RollbackStep
<1>3. CASE Creation!Rollback(t) /\ faults < MaxFaults /\ faults' = faults + 1
  <2>1. faults' \in 0..MaxFaults
    BY <1>1, <1>3
  <2> QED BY <1>3, <2>1, RollbackStep
<1>4. CASE \/ Creation!BeginNew(t) \/ Creation!InsertPending(t) \/ Creation!Replay(t)
           \/ Creation!Quote(t) \/ Creation!TakeNumber(t)
           \/ Creation!FirstNumber(t) \/ Creation!WriteBooking(t) \/ Creation!Redeem(t)
           \/ Creation!Finish(t)
  BY <1>4, BeginNewStep, InsertPendingStep, ReplayStep, QuoteStep, TakeNumberStep,
     FirstNumberStep, WriteBookingStep, RedeemStep, FinishStep
<1>5. CASE \/ Creation!Answer(t) \/ Creation!Skip(t) \/ Creation!LockAccount(t)
           \/ Creation!OpenAccount(t)
           \/ Creation!Credit(t) \/ Creation!Return(t)
  BY <1>5, IdleStep, AccountStep, PostStep
<1> QED
  BY <1>2, <1>3, <1>4, <1>5
     DEF Creation!Step, Creation!RefuseKey, Creation!RefuseQuote, Creation!RefuseCoupon,
         Creation!RefuseRedemption, Creation!Deadlock, Creation!Fail

(* and so does each step of the creation.                                  *)
LEMMA CreationKeeps ==
  ASSUME CreationInv, Creation!Next
  PROVE  CreationInv'
<1>1. CASE \E t \in Tasks, r \in Requests : Creation!Start(t, r)
  BY <1>1, StartStep
<1>2. CASE \E t \in Tasks : Creation!Step(t) \/ Creation!Deadlock(t) \/ Creation!Fail(t)
  BY <1>2, StepKeeps
<1>3. CASE \E t \in Tasks, n \in Creation!RowIds : Creation!EndTrip(t, n) \/ Creation!Cancel(t, n)
  BY <1>3, EndStep
<1>4. CASE \E n \in Creation!RowIds : Creation!Exhaust(n)
  BY <1>4, ExhaustStep
<1>5. CASE \E c \in Coupons : Creation!IssueCoupon(c) \/ Creation!CancelCoupon(c)
  BY <1>5, CouponStep
<1>6. CASE \E k \in Keys : Creation!Expire(k) \/ Creation!Cleanup(k)
  BY <1>6, ExpireStep, CleanupStep
<1>7. CASE Creation!Crash
  BY <1>7, CrashStep
<1> QED BY <1>1, <1>2, <1>3, <1>4, <1>5, <1>6, <1>7 DEF Creation!Next

(* The creation starts in the invariant.                                   *)
LEMMA CreationStarts ==
  ASSUME Creation!Init
  PROVE  CreationInv
<1>1. Creation!NoRow \in Creation!KeyRow /\ Creation!NoRow.status = "NONE" /\ ~Creation!NoRow.expired
  BY BodyType DEF Creation!NoRow, Creation!KeyRow
<1>2. /\ Creation!NoBooking \in Creation!Booking
      /\ Creation!NoBooking.status = "NONE" /\ Creation!NoBooking.key = NoKey
      /\ ~Creation!NoBooking.recent /\ Creation!NoBooking.coupon = NoCoupon
      /\ Creation!NoBooking.mileage = 0
  BY BodyType DEF Creation!NoBooking, Creation!Booking
<1>3. Creation!NoLedger \in Creation!LedgerRow /\ Creation!NoLedger.accrue = 0 /\ Creation!NoLedger.reversal = 0
      /\ Creation!NoLedger.redeem = 0
  BY DEF Creation!NoLedger, Creation!LedgerRow
<1>4. account \in Creation!AccountRow /\ account.balance \in Nat /\ account.opening = account.balance
      /\ (~account.exists => account.balance = 0)
  <2>1. CASE account = [exists |-> FALSE, balance |-> 0, opening |-> 0]
    BY <2>1 DEF Creation!AccountRow
  <2>2. CASE \E b \in Balances : account = [exists |-> TRUE, balance |-> b, opening |-> b]
    <3>1. PICK b \in Balances : account = [exists |-> TRUE, balance |-> b, opening |-> b]
      BY <2>2
    <3>2. b \in Nat
      BY CreationAssumption
    <3> QED BY <3>1, <3>2 DEF Creation!AccountRow
  <2> QED BY <2>1, <2>2 DEF Creation!Init
<1>5. Creation!TypeOK
  <2>1. 0 \in 0..MaxBookings /\ 0 \in 0..MaxFaults
    BY CreationAssumption
  <2>2. [status |-> "NONE", booking |-> Creation!Unset] \in Creation!CouponRow
    BY DEF Creation!CouponRow
  <2> QED BY <1>1, <1>2, <1>3, <1>4, <2>1, <2>2, IdleType DEF Creation!Init,
       Creation!TypeOK
<1>6. \A u \in Tasks : /\ task[u].at = "idle" /\ task[u].job = "none"
                       /\ task[u].request.key = NoKey
  BY DEF Creation!Init, Creation!Idle, Creation!NoRequest
<1>7. \A u \in Tasks : TaskInv(u) /\ EffectInv(u)
  <2>1. \A u \in Tasks : lock["sequence"] # u
    BY <1>5, StoredRows, CreationAssumption DEF Creation!Init
  <2> QED BY <1>6, <2>1
     DEF TaskInv, HoldsKey, HoldsSequence, HoldsCoupon, HoldsAccount, Charged, JobInv,
         Writing, Numbered, Quoted, Effects, EffectInv
<1>8. \A k \in Keys : KeyInv(k)
  BY <1>1, <1>2, <1>5, StoredRows DEF Creation!Init, KeyInv
<1>9. (\A n \in Creation!RowIds : OrderInv(n)) /\ Creation!CouponSpentOnce
  BY <1>2, <1>3, CreationAssumption DEF Creation!Init, OrderInv,
     Creation!CouponSpentOnce
<1>10. \A n \in Creation!RowIds : LedgerInv(n)
  BY <1>3 DEF Creation!Init, LedgerInv
<1>11. BalanceInv
  <2>1. IsFiniteSet(Creation!RowIds)
    BY FS_Interval, CreationAssumption DEF Creation!RowIds
  <2>2. Creation!Movement \in [Creation!RowIds -> Int] /\ \A n \in Creation!RowIds : Creation!Movement[n] = 0
    BY <1>3 DEF Creation!Movement, Creation!Init
  <2>3. Creation!SumFunction(Creation!Movement) = 0
    BY <2>1, <2>2, SumOfZeros
  <2> QED BY <1>4, <2>3 DEF BalanceInv, Creation!AccountRow
<1> QED BY <1>5, <1>7, <1>8, <1>9, <1>10, <1>11 DEF CreationInv

(* A step that leaves the creation alone keeps it.                         *)
LEMMA RestKeeps ==
  ASSUME CreationInv, UNCHANGED Creation!vars
  PROVE  CreationInv'
<1>1. /\ UNCHANGED <<keys, coupons, sequence, bookings, account, ledger, Creation!locks, task>>
      /\ lock' = lock /\ gap' = gap /\ faults' = faults
  BY DEF Creation!vars, Creation!tables, Creation!locks
<1>2. Creation!TypeOK'
  BY <1>1, InvFacts DEF Creation!TypeOK
<1>3. \A u \in Tasks : Undisturbed(u)
  BY <1>1, AtRest, Inserts
<1>4. \A k \in Keys : KeyInv(k)'
  BY <1>1, InvFacts DEF KeyInv
<1>5. bookings' \in [Creation!RowIds -> Creation!Booking]
  BY <1>1, InvFacts
<1> QED BY <1>1, <1>2, <1>3, <1>4, <1>5, BooksKept, AssembleAll

-----------------------------------------------------------------------------
(* What the steps do to charges and to effects under way.                  *)

(* No booking's end, member, charge or ledger changes.                     *)
BooksStand ==
  /\ ledger' = ledger
  /\ \A n \in Creation!RowIds :
       /\ bookings'[n].status = bookings[n].status
       /\ bookings'[n].member = bookings[n].member
       /\ bookings'[n].mileage = bookings[n].mileage
       /\ bookings'[n].total = bookings[n].total
       /\ bookings'[n].exhausted = bookings[n].exhausted

(* No price is worked out.                                                 *)
QuotesStand ==
  \A u \in Tasks :
    task'[u].at \in Quoted => task[u].at \in Quoted /\ task'[u].mileage = task[u].mileage

(* No effect comes to its end.                                             *)
EffectsGoOn ==
  \A u \in Tasks :
    task[u].job \in {"accrue", "refund"} =>
      task'[u].job = task[u].job /\ task'[u].number = task[u].number

Plain == BooksStand /\ QuotesStand /\ EffectsGoOn

(* The steps of a request but its quote and its commit are plain,          *)
LEMMA RequestPlain ==
  ASSUME CreationInv, NEW t \in Tasks,
         \/ Creation!BeginNew(t) \/ Creation!InsertPending(t) \/ Creation!Replay(t)
         \/ Creation!RefuseKey(t) \/ Creation!RefuseQuote(t)
         \/ Creation!TakeNumber(t) \/ Creation!FirstNumber(t)
         \/ Creation!WriteBooking(t) \/ Creation!RefuseCoupon(t)
         \/ Creation!Redeem(t) \/ Creation!RefuseRedemption(t) \/ Creation!Answer(t)
  PROVE  Plain
<1>1. /\ bookings' = bookings /\ ledger' = ledger
      /\ task[t].at \notin Effects \cup {"idle", "quote"} \/ Creation!RefuseQuote(t)
      /\ task[t].at \notin Effects \cup {"idle"}
  BY DEF Creation!BeginNew, Creation!InsertPending, Creation!Replay,
     Creation!RefuseKey, Creation!RefuseQuote, Creation!TakeNumber, Creation!FirstNumber,
     Creation!WriteBooking, Creation!RefuseCoupon, Creation!Redeem,
         Creation!RefuseRedemption, Creation!Answer, Creation!Rollback, Creation!tables,
         Effects
<1>2. task[t].job \notin {"accrue", "refund"}
  BY <1>1, TaskFacts DEF TaskInv, JobInv
<1>3. CASE task' = [task EXCEPT ![t] = Creation!Idle]
  <2>1. Idles(t)
    BY <1>3, IdleEffect, TaskFacts
  <2> QED BY <1>1, <1>2, <2>1
          DEF Plain, BooksStand, QuotesStand, EffectsGoOn, Idles, Others, Quoted
<1>4. CASE \E at \in Creation!At : Creation!Go(t, at) /\ (at \in Quoted => task[t].at \in Quoted)
  BY <1>1, <1>2, <1>4, GoEffect, TaskFacts
     DEF Plain, BooksStand, QuotesStand, EffectsGoOn, Goes, Others
<1>5. CASE \E at \in Creation!At, n \in Nat :
             /\ task' = [task EXCEPT ![t].at = at, ![t].number = n]
             /\ at \in Quoted => task[t].at \in Quoted
  <2>1. PICK at \in Creation!At, n \in Nat :
          /\ task' = [task EXCEPT ![t].at = at, ![t].number = n]
          /\ at \in Quoted => task[t].at \in Quoted
    BY <1>5
  <2> DEFINE s == [task[t] EXCEPT !.at = at, !.number = n]
  <2>2. s.at = at /\ s.mileage = task[t].mileage
    BY TaskFacts DEF Creation!TaskState
  <2>3. task' = [task EXCEPT ![t] = s]
    BY <2>1
  <2> HIDE DEF s
  <2>4. Others(t) /\ task'[t] = s
    BY <2>3, TaskFacts DEF Others, TasksType
  <2> QED BY <1>1, <1>2, <2>1, <2>2, <2>4
          DEF Plain, BooksStand, QuotesStand, EffectsGoOn, Others
<1>6. Creation!BeginNew(t) => Creation!Go(t, "insert")
  BY DEF Creation!BeginNew
<1>7. Creation!InsertPending(t) => Creation!Go(t, "quote")
  BY DEF Creation!InsertPending
<1>8. Creation!Replay(t) =>
                 /\ task' = [task EXCEPT ![t].at = "answered", ![t].number = keys[task[t].request.key].booking]
                 /\ keys[task[t].request.key].booking \in Nat
  <2> SUFFICES ASSUME Creation!Replay(t)
               PROVE  keys[task[t].request.key].booking \in Nat
    BY DEF Creation!Replay
  <2>1. task[t].request.key \in Keys
    BY TaskFacts DEF Creation!Replay, TaskInv, JobInv
  <2>2. keys[task[t].request.key] \in Creation!KeyRow
    BY <2>1, InvFacts
  <2> QED BY <2>2, CreationAssumption DEF Creation!KeyRow, Creation!RowIds,
       Creation!Unset
<1>9. Creation!TakeNumber(t) =>
                 \/ Creation!Go(t, "first") /\ task[t].at \in Quoted
                 \/ /\ task' = [task EXCEPT ![t].at = "write", ![t].number = sequence + 1]
                    /\ sequence + 1 \in Nat /\ task[t].at \in Quoted
  BY InvFacts DEF Creation!TakeNumber, Quoted
<1>10. Creation!FirstNumber(t) =>
                  task' = [task EXCEPT ![t].at = "write", ![t].number = 1] /\ task[t].at \in Quoted
  BY DEF Creation!FirstNumber, Quoted
<1>11. Creation!WriteBooking(t) =>
                  task[t].at \in Quoted /\ (Creation!Go(t, "redeem") \/ Creation!Go(t, "finish"))
  BY DEF Creation!WriteBooking, Quoted
<1>12. Creation!Redeem(t) => task[t].at \in Quoted /\ Creation!Go(t, "finish")
  BY DEF Creation!Redeem, Quoted
<1>13. "insert" \notin Quoted /\ "quote" \notin Quoted /\ "answered" \notin Quoted
       /\ {"insert", "quote", "answered", "first", "write", "redeem", "finish"} \subseteq Creation!At
  BY DEF Quoted, Creation!At
<1>14. CASE Creation!RefuseKey(t) \/ Creation!RefuseQuote(t) \/ Creation!RefuseCoupon(t) \/ Creation!RefuseRedemption(t) \/ Creation!Answer(t)
  BY <1>3, <1>14 DEF Creation!RefuseKey, Creation!RefuseQuote, Creation!RefuseCoupon,
     Creation!RefuseRedemption, Creation!Answer, Creation!Rollback
<1>15. CASE Creation!BeginNew(t) \/ Creation!InsertPending(t) \/ Creation!WriteBooking(t) \/ Creation!Redeem(t)
  BY <1>4, <1>6, <1>7, <1>11, <1>12, <1>13, <1>15
<1>16. CASE Creation!Replay(t) \/ Creation!FirstNumber(t)
  BY <1>5, <1>8, <1>10, <1>13, <1>16
<1>17. CASE Creation!TakeNumber(t)
  BY <1>4, <1>5, <1>9, <1>13, <1>17
<1> QED BY <1>14, <1>15, <1>16, <1>17

(* so are these of the others.                                             *)
LEMMA OtherPlain ==
  ASSUME CreationInv,
         \/ \E t \in Tasks, r \in Requests : Creation!Start(t, r)
         \/ \E t \in Tasks : Creation!LockAccount(t) \/ Creation!OpenAccount(t)
         \/ \E c \in Coupons : Creation!IssueCoupon(c) \/ Creation!CancelCoupon(c)
         \/ \E k \in Keys : Creation!Expire(k) \/ Creation!Cleanup(k)
  PROVE  Plain
<1>1. ASSUME NEW t \in Tasks, NEW r \in Requests, Creation!Start(t, r)
      PROVE  Plain
  <2> DEFINE s == [Creation!Idle EXCEPT !.at = IF r.key = NoKey THEN "quote" ELSE "begin",
                                        !.job = "create", !.request = r]
  <2>1. task[t].at = "idle" /\ task' = [task EXCEPT ![t] = s]
        /\ bookings' = bookings /\ ledger' = ledger
    BY <1>1 DEF Creation!Start, Creation!tables
  <2>2. s.at \notin Quoted
    BY DEF Creation!Idle, Quoted
  <2> HIDE DEF s
  <2>3. Others(t) /\ task'[t] = s
    BY <2>1, TaskFacts DEF Others, TasksType
  <2>4. task[t].job \notin {"accrue", "refund"}
    BY <2>1, TaskFacts DEF TaskInv, JobInv
  <2> QED BY <2>1, <2>2, <2>3, <2>4
          DEF Plain, BooksStand, QuotesStand, EffectsGoOn, Others
<1>2. ASSUME NEW t \in Tasks, Creation!LockAccount(t) \/ Creation!OpenAccount(t)
      PROVE  Plain
  <2>1. PICK at \in {"open", "post"} : Creation!Go(t, at)
    BY <1>2 DEF Creation!LockAccount, Creation!OpenAccount
  <2>2. bookings' = bookings /\ ledger' = ledger
    BY <1>2 DEF Creation!LockAccount, Creation!OpenAccount, Creation!tables
  <2>3. Goes(t, at)
    BY <2>1, GoEffect, TaskFacts DEF Creation!At
  <2> QED BY <2>2, <2>3 DEF Plain, BooksStand, QuotesStand, EffectsGoOn, Goes, Others,
       Quoted
<1>3. ASSUME NEW c \in Coupons, Creation!IssueCoupon(c) \/ Creation!CancelCoupon(c)
      PROVE  Plain
  BY <1>3 DEF Creation!IssueCoupon, Creation!CancelCoupon, Plain, BooksStand,
     QuotesStand, EffectsGoOn
<1>4. ASSUME NEW k \in Keys, Creation!Cleanup(k)
      PROVE  Plain
  BY <1>4 DEF Creation!Cleanup, Plain, BooksStand, QuotesStand, EffectsGoOn
<1>5. ASSUME NEW k \in Keys, Creation!Expire(k)
      PROVE  Plain
  <2> DEFINE b == keys[k].booking
             row == [bookings[b] EXCEPT !.recent = FALSE]
  <2>1. bookings' = [bookings EXCEPT ![b] = row] /\ ledger' = ledger /\ task' = task
        /\ keys[k].status = "COMPLETED"
    BY <1>5 DEF Creation!Expire
  <2>2. b \in Creation!RowIds
    BY <2>1, InvFacts DEF KeyInv
  <2>3. /\ row.status = bookings[b].status /\ row.member = bookings[b].member
        /\ row.mileage = bookings[b].mileage /\ row.total = bookings[b].total
        /\ row.exhausted = bookings[b].exhausted
    BY <2>2, InvFacts DEF Creation!Booking
  <2> HIDE DEF row, b
  <2> QED BY <2>1, <2>2, <2>3, InvFacts DEF Plain, BooksStand, QuotesStand, EffectsGoOn
<1> QED BY <1>1, <1>2, <1>3, <1>4, <1>5

(* Every step is plain, or one of a few, or a fault.                       *)
LEMMA StepsAre ==
  ASSUME CreationInv, Creation!Next
  PROVE  \/ Plain /\ faults' = faults
         \/ \E t \in Tasks : Creation!Quote(t) \/ Creation!Finish(t) \/ Creation!Skip(t) \/ Creation!Credit(t) \/ Creation!Return(t)
         \/ \E t \in Tasks, n \in Creation!RowIds : Creation!EndTrip(t, n) \/ Creation!Cancel(t, n)
         \/ \E n \in Creation!RowIds : Creation!Exhaust(n)
         \/ \E t \in Tasks : Creation!Rollback(t) /\ faults' = faults + 1
         \/ Creation!Crash
<1>1. ASSUME NEW t \in Tasks, Creation!Step(t)
      PROVE  \/ Plain /\ faults' = faults
             \/ Creation!Quote(t) \/ Creation!Finish(t) \/ Creation!Skip(t)
             \/ Creation!Credit(t) \/ Creation!Return(t)
  <2>1. CASE \/ Creation!BeginNew(t) \/ Creation!InsertPending(t) \/ Creation!Replay(t)
             \/ Creation!RefuseKey(t)
             \/ Creation!RefuseQuote(t) \/ Creation!TakeNumber(t) \/ Creation!FirstNumber(t)
             \/ Creation!WriteBooking(t) \/ Creation!RefuseCoupon(t)
             \/ Creation!Redeem(t) \/ Creation!RefuseRedemption(t)
             \/ Creation!Answer(t)
    BY <2>1, RequestPlain
       DEF Creation!BeginNew, Creation!InsertPending, Creation!Replay,
           Creation!RefuseKey, Creation!RefuseQuote, Creation!TakeNumber,
           Creation!FirstNumber,
           Creation!WriteBooking, Creation!RefuseCoupon, Creation!Redeem,
           Creation!RefuseRedemption, Creation!Answer
  <2>2. CASE Creation!LockAccount(t) \/ Creation!OpenAccount(t)
    BY <2>2, OtherPlain DEF Creation!LockAccount, Creation!OpenAccount
  <2> QED BY <1>1, <2>1, <2>2 DEF Creation!Step
<1>2. ASSUME NEW t \in Tasks, Creation!Deadlock(t) \/ Creation!Fail(t)
      PROVE  Creation!Rollback(t) /\ faults' = faults + 1
  BY <1>2 DEF Creation!Deadlock, Creation!Fail
<1>3. ASSUME \/ \E t \in Tasks, r \in Requests : Creation!Start(t, r)
             \/ \E c \in Coupons : Creation!IssueCoupon(c) \/ Creation!CancelCoupon(c)
             \/ \E k \in Keys : Creation!Expire(k) \/ Creation!Cleanup(k)
      PROVE  Plain /\ faults' = faults
  BY <1>3, OtherPlain DEF Creation!Start, Creation!IssueCoupon, Creation!CancelCoupon,
     Creation!Expire, Creation!Cleanup
<1> QED BY <1>1, <1>2, <1>3 DEF Creation!Next

-----------------------------------------------------------------------------
(* Mileage follows the trip.                                               *)

(* A booking that is settled stays so while its rows do.                   *)
LEMMA SettledStands ==
  ASSUME NEW n \in Creation!RowIds, Creation!Settled(n), ledger'[n] = ledger[n],
         bookings'[n].status = bookings[n].status,
         bookings'[n].member = bookings[n].member,
         bookings'[n].total = bookings[n].total,
         bookings'[n].exhausted = bookings[n].exhausted
  PROVE  Creation!Settled(n)'
  BY DEF Creation!Settled, Creation!Accrual

(* An open booking has nothing to settle.                                  *)
LEMMA Unclosed ==
  ASSUME NEW n, bookings[n].status \notin {"ENDED", "CANCELLED"}
  PROVE  Creation!Settled(n)
  BY DEF Creation!Settled

(* The effects of the other tasks go on.                                   *)
LEMMA PendingStands ==
  ASSUME NEW t \in Tasks, Others(t), NEW n, Creation!Pending(n),
         \/ task[t].number # n
         \/ task[t].job \notin {"accrue", "refund"}
         \/ task'[t].job = task[t].job /\ task'[t].number = task[t].number
  PROVE  Creation!Pending(n)'
<1>1. PICK u \in Tasks : task[u].job \in {"accrue", "refund"} /\ task[u].number = n
  BY DEF Creation!Pending
<1>2. task'[u].job = task[u].job /\ task'[u].number = task[u].number
  BY <1>1 DEF Others
<1> QED BY <1>1, <1>2 DEF Creation!Pending

(* Plain steps change neither how a trip ended nor its mileage.            *)
LEMMA FollowsPlainly ==
  ASSUME CreationInv, Creation!MileageFollowsTrip, Plain, faults' = faults
  PROVE  Creation!MileageFollowsTrip'
<1> SUFFICES ASSUME faults = 0, NEW n \in Creation!RowIds
             PROVE  Creation!Settled(n)' \/ Creation!Pending(n)'
  BY DEF Creation!MileageFollowsTrip
<1>1. CASE Creation!Settled(n)
  BY <1>1, SettledStands DEF Plain, BooksStand
<1>2. CASE Creation!Pending(n)
  BY <1>2 DEF Creation!Pending, Plain, EffectsGoOn
<1> QED BY <1>1, <1>2 DEF Creation!MileageFollowsTrip

(* The end of an effect leaves the booking settled.                        *)
LEMMA SkipSettles ==
  ASSUME CreationInv, NEW t \in Tasks, Creation!Skip(t)
  PROVE  Creation!Settled(task[t].number)
<1>1. task[t].at = "account" /\ Creation!Amount(t) = 0
  BY DEF Creation!Skip
<1>2. task[t].job \in {"accrue", "refund"} /\ EffectInv(t)
  BY <1>1, TaskFacts, InvFacts DEF TaskInv, JobInv, Effects
<1> QED BY <1>1, <1>2 DEF EffectInv, Creation!Amount, Creation!Settled

(* Posting settles the booking it is for.                                  *)
LEMMA PostSettles ==
  ASSUME CreationInv, NEW t \in Tasks, Creation!Credit(t) \/ Creation!Return(t),
         NEW n \in Creation!RowIds, n = task[t].number
  PROVE  Creation!Settled(n)'
<1> DEFINE a == Creation!Amount(t)
<1>1. Posted(t, n, a)
  BY PostEffect
<1> HIDE DEF a
<1>2. bookings' = bookings /\ ledger'[n].redeem = ledger[n].redeem
  BY <1>1 DEF Posted
<1>3. Creation!Accrual(n)' = Creation!Accrual(n)
  BY <1>2 DEF Creation!Accrual
<1>4. Creation!Settled(n)'
  BY <1>1, <1>2, <1>3 DEF Posted, Creation!Settled
<1> QED BY <1>4

(* A step that is no fault settles what it ends, or leaves it to its task. *)
LEMMA FollowsStep ==
  ASSUME CreationInv, Creation!MileageFollowsTrip, Creation!Next
  PROVE  Creation!MileageFollowsTrip'
<1>1. CASE Plain /\ faults' = faults
  BY <1>1, FollowsPlainly
<1>2. ASSUME NEW t \in Tasks, Creation!Quote(t)
      PROVE  Creation!MileageFollowsTrip'
  <2> DEFINE s == [task[t] EXCEPT !.at = "number", !.discount = Creation!CouponItem(task[t].request),
                                  !.mileage = Creation!MileageItem(task[t].request)]
  <2>1. task[t].at = "quote" /\ task' = [task EXCEPT ![t] = s] /\ ledger' = ledger
        /\ bookings' = bookings /\ faults' = faults
    BY <1>2 DEF Creation!Quote, Creation!tables
  <2> HIDE DEF s
  <2>2. Others(t) /\ task[t].job \notin {"accrue", "refund"}
    BY <2>1, TaskFacts DEF Others, TasksType, TaskInv, JobInv, Effects
  <2> SUFFICES ASSUME faults = 0, NEW n \in Creation!RowIds
               PROVE  Creation!Settled(n)' \/ Creation!Pending(n)'
    BY <2>1 DEF Creation!MileageFollowsTrip
  <2>3. CASE Creation!Settled(n)
    BY <2>1, <2>3, SettledStands
  <2>4. CASE Creation!Pending(n)
    BY <2>2, <2>4, PendingStands
  <2> QED BY <2>3, <2>4 DEF Creation!MileageFollowsTrip
<1>3. ASSUME NEW t \in Tasks, Creation!Finish(t)
      PROVE  Creation!MileageFollowsTrip'
  <2>1. Finished(t)
    BY <1>3, FinishEffect
  <2> SUFFICES ASSUME faults = 0, NEW n \in Creation!RowIds
               PROVE  Creation!Settled(n)' \/ Creation!Pending(n)'
    BY <2>1 DEF Creation!MileageFollowsTrip, Finished
  <2>2. CASE n = task[t].number
    <3>1. bookings'[n].status = "OPEN"
      BY <2>1, <2>2, DraftType DEF Finished
    <3> QED BY <3>1 DEF Creation!Settled
  <2>3. CASE n # task[t].number /\ Creation!Settled(n)
    BY <2>1, <2>3, SettledStands DEF Finished
  <2>4. CASE Creation!Pending(n)
    BY <2>1, <2>4, PendingStands DEF Finished, Goes
  <2> QED BY <2>2, <2>3, <2>4 DEF Creation!MileageFollowsTrip
<1>4. ASSUME NEW t \in Tasks, Creation!Skip(t)
      PROVE  Creation!MileageFollowsTrip'
  <2>1. Others(t) /\ ledger' = ledger /\ bookings' = bookings /\ faults' = faults
    BY <1>4, IdleEffect, TaskFacts DEF Creation!Skip, Creation!tables, Idles
  <2> SUFFICES ASSUME faults = 0, NEW n \in Creation!RowIds
               PROVE  Creation!Settled(n)' \/ Creation!Pending(n)'
    BY <2>1 DEF Creation!MileageFollowsTrip
  <2>2. CASE Creation!Settled(n) \/ n = task[t].number
    BY <1>4, <2>1, <2>2, SkipSettles, SettledStands
  <2>3. CASE Creation!Pending(n) /\ n # task[t].number
    BY <2>1, <2>3, PendingStands
  <2> QED BY <2>2, <2>3 DEF Creation!MileageFollowsTrip
<1>5. ASSUME NEW t \in Tasks, Creation!Credit(t) \/ Creation!Return(t)
      PROVE  Creation!MileageFollowsTrip'
  <2>1. Posted(t, task[t].number, Creation!Amount(t))
    BY <1>5, PostEffect
  <2>2. /\ bookings' = bookings /\ faults' = faults
        /\ \A m \in Creation!RowIds \ {task[t].number} : ledger'[m] = ledger[m]
    BY <2>1 DEF Posted
  <2>3. Others(t)
    BY <2>1, IdleEffect, TaskFacts DEF Posted, Idles
  <2> SUFFICES ASSUME faults = 0, NEW n \in Creation!RowIds
               PROVE  Creation!Settled(n)' \/ Creation!Pending(n)'
    BY <2>2 DEF Creation!MileageFollowsTrip
  <2>4. CASE n = task[t].number
    BY <1>5, <2>4, PostSettles
  <2>5. CASE n # task[t].number /\ Creation!Settled(n)
    BY <2>2, <2>5, SettledStands
  <2>6. CASE n # task[t].number /\ Creation!Pending(n)
    BY <2>3, <2>6, PendingStands
  <2> QED BY <2>4, <2>5, <2>6 DEF Creation!MileageFollowsTrip
<1>6. ASSUME NEW t \in Tasks, NEW m \in Creation!RowIds, Creation!EndTrip(t, m) \/ Creation!Cancel(t, m)
      PROVE  Creation!MileageFollowsTrip'
  <2>1. PICK job \in {"accrue", "refund"}, status \in {"ENDED", "CANCELLED"} :
        /\ task[t].at = "idle" /\ bookings[m].status = "OPEN"
        /\ bookings' = [bookings EXCEPT ![m].status = status]
        /\ task' = [task EXCEPT ![t] = [Creation!Idle EXCEPT !.at = "account", !.job = job,
                                                             !.number = m]]
        /\ ledger' = ledger /\ faults' = faults
    BY <1>6 DEF Creation!EndTrip, Creation!Cancel, Creation!CloseAs, Creation!Effect
  <2>2. /\ Others(t) /\ task'[t].job = job /\ task'[t].number = m
        /\ task[t].job = "none"
    <3> DEFINE s == [Creation!Idle EXCEPT !.at = "account", !.job = job, !.number = m]
    <3>1. s.job = job /\ s.number = m
      BY DEF Creation!Idle
    <3>2. task' = [task EXCEPT ![t] = s]
      BY <2>1
    <3> HIDE DEF s
    <3> QED BY <2>1, <3>1, <3>2, TaskFacts DEF TasksType, Others, TaskInv, JobInv
  <2> SUFFICES ASSUME faults = 0, NEW n \in Creation!RowIds
               PROVE  Creation!Settled(n)' \/ Creation!Pending(n)'
    BY <2>1 DEF Creation!MileageFollowsTrip
  <2>3. CASE n = m
    BY <2>2, <2>3 DEF Creation!Pending
  <2>4. CASE n # m /\ Creation!Settled(n)
    <3>1. bookings'[n] = bookings[n]
      BY <2>1, <2>4, InvFacts
    <3> QED BY <2>1, <2>4, <3>1, SettledStands
  <2>5. CASE Creation!Pending(n)
    BY <2>2, <2>5, PendingStands
  <2> QED BY <2>3, <2>4, <2>5 DEF Creation!MileageFollowsTrip
<1>7. ASSUME NEW m \in Creation!RowIds, Creation!Exhaust(m)
      PROVE  Creation!MileageFollowsTrip'
  <2>1. /\ bookings' = [bookings EXCEPT ![m].status = "CANCELLED", ![m].exhausted = TRUE]
        /\ ledger' = ledger /\ faults' = faults /\ task' = task
    BY <1>7 DEF Creation!Exhaust
  <2> SUFFICES ASSUME faults = 0, NEW n \in Creation!RowIds
               PROVE  Creation!Settled(n)' \/ Creation!Pending(n)'
    BY <2>1 DEF Creation!MileageFollowsTrip
  <2>2. CASE n = m
    <3> DEFINE row == [bookings[m] EXCEPT !.status = "CANCELLED", !.exhausted = TRUE]
    <3>1. row.status = "CANCELLED" /\ row.exhausted = TRUE
      BY InvFacts DEF Creation!Booking
    <3>2. bookings' = [bookings EXCEPT ![m] = row]
      BY <2>1
    <3> HIDE DEF row
    <3>3. bookings'[n] = row
      BY <2>2, <3>2, InvFacts
    <3> QED BY <3>1, <3>3 DEF Creation!Settled
  <2>3. CASE n # m /\ Creation!Settled(n)
    <3>1. bookings'[n] = bookings[n]
      BY <2>1, <2>3, InvFacts
    <3> QED BY <2>1, <2>3, <3>1, SettledStands
  <2>4. CASE Creation!Pending(n)
    BY <2>1, <2>4 DEF Creation!Pending
  <2> QED BY <2>2, <2>3, <2>4 DEF Creation!MileageFollowsTrip
<1>8. CASE faults' = faults + 1
  <2>1. faults \in Nat
    BY InvFacts, CreationAssumption DEF Creation!TypeOK
  <2> QED BY <1>8, <2>1 DEF Creation!MileageFollowsTrip
<1>9. Creation!Crash => faults' = faults + 1
  BY DEF Creation!Crash
<1> QED BY <1>1, <1>2, <1>3, <1>4, <1>5, <1>6, <1>7, <1>8, <1>9, StepsAre

-----------------------------------------------------------------------------
(* Prices in whole baht: a booking's discount is what it took.             *)
WholeFares == \A r \in Requests : r.fare % 2 = 0
WholeBaht ==
  /\ \A t \in Tasks : task[t].at \in Quoted => task[t].mileage % 2 = 0
  /\ \A n \in Creation!RowIds : bookings[n].mileage = 2 * ledger[n].redeem

(* The lesser of two even amounts is even.                                 *)
LEMMA EvenLesser ==
  ASSUME NEW x \in Nat, NEW y \in Nat, x % 2 = 0, y % 2 = 0
  PROVE  Creation!Lesser(x, y) \in Nat /\ Creation!Lesser(x, y) % 2 = 0 /\ Creation!Lesser(x, y) <= x
         /\ Creation!Lesser(x, y) <= y
  BY DEF Creation!Lesser

(* With fares in whole baht, the mileage of a quote is in whole baht.      *)
LEMMA QuoteIsWhole ==
  ASSUME CreationInv, WholeFares, NEW t \in Tasks
  PROVE  Creation!MileageItem(task[t].request) % 2 = 0
<1> DEFINE r == task[t].request
<1>1. r.fare \in Nat /\ r.mileage \in Nat /\ account.balance \in Nat
  BY TaskFacts DEF CreationInv, BalanceInv, Creation!TypeOK, Creation!AccountRow
<1>2. r.mileage # 0 => r.fare % 2 = 0
  BY TaskFacts DEF WholeFares, Creation!NoRequest
<1> HIDE DEF r
<1>3. CASE r.mileage = 0
  <2>1. Creation!MileageItem(r) = 0
    BY <1>3 DEF Creation!MileageItem
  <2> QED BY <2>1 DEF r
<1>4. CASE r.mileage # 0
  <2>1. (2 * Discount) \in Nat /\ (2 * Discount) % 2 = 0
        /\ (2 * r.mileage) \in Nat /\ (2 * r.mileage) % 2 = 0
        /\ (2 * account.balance) \in Nat /\ (2 * account.balance) % 2 = 0
    BY <1>1, CreationAssumption
  <2>2. Creation!CouponItem(r) \in Nat /\ Creation!CouponItem(r) % 2 = 0 /\ Creation!CouponItem(r) <= r.fare
    <3>1. CASE r.coupon = NoCoupon
      <4>1. Creation!CouponItem(r) = 0
        BY <3>1 DEF Creation!CouponItem
      <4> QED BY <1>1, <4>1
    <3>2. CASE r.coupon # NoCoupon
      <4> DEFINE twice == 2 * Discount
      <4>1. Creation!CouponItem(r) = Creation!Lesser(twice, r.fare)
        BY <3>2 DEF Creation!CouponItem
      <4>2. twice \in Nat /\ twice % 2 = 0
        BY <2>1
      <4> HIDE DEF twice
      <4>3. Creation!Lesser(twice, r.fare) \in Nat /\ Creation!Lesser(twice, r.fare) % 2 = 0
            /\ Creation!Lesser(twice, r.fare) <= r.fare
        BY <1>1, <1>2, <1>4, <4>2, EvenLesser
      <4> QED BY <4>1, <4>3
    <3> QED BY <3>1, <3>2
  <2>3. r.fare - Creation!CouponItem(r) \in Nat /\ (r.fare - Creation!CouponItem(r)) % 2 = 0
    BY <1>1, <1>2, <1>4, <2>2
  <2>4. Creation!MileageItem(r) % 2 = 0
    BY <1>4, <2>1, <2>3, EvenLesser DEF Creation!MileageItem
  <2> QED BY <2>4 DEF r
<1> QED BY <1>3, <1>4

(* With fares in whole baht, bookings take whole baht from the account.    *)
LEMMA WholeStep ==
  ASSUME CreationInv, WholeFares, WholeBaht, Creation!Next
  PROVE  WholeBaht'
<1>1. CASE Plain
  BY <1>1 DEF WholeBaht, Plain, BooksStand, QuotesStand
<1>2. ASSUME NEW t \in Tasks, Creation!Quote(t)
      PROVE  WholeBaht'
  <2> DEFINE s == [task[t] EXCEPT !.at = "number", !.discount = Creation!CouponItem(task[t].request),
                                  !.mileage = Creation!MileageItem(task[t].request)]
  <2>1. task' = [task EXCEPT ![t] = s] /\ ledger' = ledger /\ bookings' = bookings
    BY <1>2 DEF Creation!Quote, Creation!tables
  <2>2. s.mileage % 2 = 0
    <3>1. s.mileage = Creation!MileageItem(task[t].request)
      BY TaskFacts DEF Creation!TaskState
    <3> QED BY <3>1, QuoteIsWhole
  <2> HIDE DEF s
  <2>3. task'[t] = s /\ Others(t)
    BY <2>1, TaskFacts DEF TasksType, Others
  <2> QED BY <2>1, <2>2, <2>3 DEF WholeBaht, Others
<1>3. ASSUME NEW t \in Tasks, Creation!Finish(t)
      PROVE  WholeBaht'
  <2>1. Finished(t)
    BY <1>3, FinishEffect
  <2>2. task[t].mileage % 2 = 0 /\ task[t].mileage \in Nat
    BY <2>1, TaskFacts DEF WholeBaht, Finished, Quoted
  <2>3. task[t].mileage = 2 * Creation!Baht(t)
    BY <2>2 DEF Creation!Baht
  <2>4. \A n \in Creation!RowIds : bookings'[n].mileage = 2 * ledger'[n].redeem
    <3> SUFFICES ASSUME NEW n \in Creation!RowIds
                 PROVE  bookings'[n].mileage = 2 * ledger'[n].redeem
      OBVIOUS
    <3>1. CASE n = task[t].number
      BY <2>1, <2>3, <3>1, DraftType DEF Finished
    <3>2. CASE n # task[t].number
      BY <2>1, <3>2 DEF Finished, WholeBaht
    <3> QED BY <3>1, <3>2
  <2>5. \A u \in Tasks : task'[u].at \in Quoted => task'[u].mileage % 2 = 0
    BY <2>1 DEF Finished, Goes, Others, WholeBaht, Quoted
  <2> QED BY <2>4, <2>5 DEF WholeBaht
<1>4. ASSUME NEW t \in Tasks, task' = [task EXCEPT ![t] = Creation!Idle],
             \A n \in Creation!RowIds : /\ bookings'[n] = bookings[n]
                                        /\ ledger'[n].redeem = ledger[n].redeem
      PROVE  WholeBaht'
  <2>1. Idles(t)
    BY <1>4, IdleEffect, TaskFacts
  <2>2. \A u \in Tasks : task'[u].at \in Quoted => task'[u].mileage % 2 = 0
    BY <2>1 DEF WholeBaht, Idles, Others, Quoted
  <2> QED BY <1>4, <2>2 DEF WholeBaht
<1>5. ASSUME NEW t \in Tasks, Creation!Skip(t) \/ Creation!Rollback(t)
      PROVE  WholeBaht'
  BY <1>4, <1>5 DEF Creation!Skip, Creation!Rollback, Creation!tables
<1>6. ASSUME NEW t \in Tasks, Creation!Credit(t) \/ Creation!Return(t)
      PROVE  WholeBaht'
  <2> DEFINE m == task[t].number
             a == Creation!Amount(t)
  <2>1. Posted(t, m, a)
    BY <1>6, PostEffect
  <2> HIDE DEF m, a
  <2>2. /\ \A n \in Creation!RowIds : /\ bookings'[n] = bookings[n]
                                      /\ ledger'[n].redeem = ledger[n].redeem
        /\ task' = [task EXCEPT ![t] = Creation!Idle]
    BY <2>1 DEF Posted
  <2> QED BY <1>4, <2>2
<1>7. ASSUME NEW t \in Tasks, NEW m \in Creation!RowIds, Creation!EndTrip(t, m) \/ Creation!Cancel(t, m)
      PROVE  WholeBaht'
  <2>1. PICK job \in {"accrue", "refund"}, status \in {"ENDED", "CANCELLED"} :
        /\ bookings' = [bookings EXCEPT ![m].status = status]
        /\ task' = [task EXCEPT ![t] = [Creation!Idle EXCEPT !.at = "account", !.job = job,
                                                             !.number = m]]
        /\ ledger' = ledger
    BY <1>7 DEF Creation!EndTrip, Creation!Cancel, Creation!CloseAs, Creation!Effect
  <2>2. \A n \in Creation!RowIds : bookings'[n].mileage = bookings[n].mileage
    <3> DEFINE row == [bookings[m] EXCEPT !.status = status]
    <3>1. row.mileage = bookings[m].mileage /\ bookings' = [bookings EXCEPT ![m] = row]
      BY <2>1, InvFacts DEF Creation!Booking
    <3> HIDE DEF row
    <3> QED BY <3>1, InvFacts
  <2>3. Others(t) /\ task'[t].at = "account"
    <3> DEFINE s == [Creation!Idle EXCEPT !.at = "account", !.job = job, !.number = m]
    <3>1. s.at = "account" /\ task' = [task EXCEPT ![t] = s]
      BY <2>1 DEF Creation!Idle
    <3> HIDE DEF s
    <3> QED BY <3>1, TaskFacts DEF TasksType, Others
  <2> QED BY <2>1, <2>2, <2>3 DEF WholeBaht, Others, Quoted
<1>8. ASSUME NEW m \in Creation!RowIds, Creation!Exhaust(m)
      PROVE  WholeBaht'
  <2> DEFINE row == [bookings[m] EXCEPT !.status = "CANCELLED", !.exhausted = TRUE]
  <2>1. row.mileage = bookings[m].mileage
    BY InvFacts DEF Creation!Booking
  <2>2. bookings' = [bookings EXCEPT ![m] = row] /\ ledger' = ledger /\ task' = task
    BY <1>8 DEF Creation!Exhaust
  <2> HIDE DEF row
  <2>3. \A n \in Creation!RowIds : bookings'[n].mileage = bookings[n].mileage
    BY <2>1, <2>2, InvFacts
  <2> QED BY <2>2, <2>3 DEF WholeBaht
<1>9. ASSUME Creation!Crash
      PROVE  WholeBaht'
  <2>1. /\ task' = [t \in Tasks |-> Creation!Idle] /\ bookings' = bookings
        /\ ledger' = ledger
    BY <1>9 DEF Creation!Crash
  <2> QED BY <2>1 DEF WholeBaht, Quoted, Creation!Idle
<1> QED BY <1>1, <1>2, <1>3, <1>5, <1>6, <1>7, <1>8, <1>9, StepsAre


(* So they do at first, when there are none.                               *)
LEMMA WholeStarts ==
  ASSUME Creation!Init
  PROVE  WholeBaht
  BY DEF Creation!Init, WholeBaht, Quoted, Creation!Idle, Creation!NoBooking,
     Creation!NoLedger

(* There is no booking yet to be settled.                                  *)
LEMMA FollowsStarts ==
  ASSUME Creation!Init
  PROVE  Creation!MileageFollowsTrip
  BY DEF Creation!Init, Creation!MileageFollowsTrip, Creation!Settled,
     Creation!NoBooking

-----------------------------------------------------------------------------
(* The customers' bookings beside the others.                              *)

CreationRests == UNCHANGED creationVars

(* A step of another part changes nothing of the creation.                 *)
LEMMA CreationStepOrRest ==
  ASSUME [BookingsNext]_bookingsVars
  PROVE  Creation!Next \/ CreationRests
  BY DEF BookingsNext, ManualStep, CreationStep, ContactStep, bookingsVars, CreationRests

(* It keeps the invariant of the creation.                                 *)
LEMMA InvAtRest ==
  ASSUME CreationInv, CreationRests
  PROVE  CreationInv'
  BY RestKeeps DEF CreationRests, creationVars, Creation!vars, Creation!tables, Creation!locks

(* The inductive invariant of the creation, which the theorems below use.  *)
THEOREM CreationInvariance == BookingsSpec => []CreationInv
<1>1. BookingsInit => CreationInv
  BY CreationStarts DEF BookingsInit
<1>2. CreationInv /\ [BookingsNext]_bookingsVars => CreationInv'
  BY CreationStepOrRest, CreationKeeps, InvAtRest
<1> QED BY <1>1, <1>2, PTL DEF BookingsSpec

(* However often a request is retried and wherever a handler fails, its    *)
(* key makes one booking, no key is left PENDING without its transaction,  *)
(* and a client is answered with a booking made from its own request.      *)
THEOREM KeysMakeOneBooking == BookingsSpec => []OneBookingPerKey
<1>1. ASSUME CreationInv
      PROVE  Creation!OneBookingPerKey
  <2>1. ASSUME NEW m \in Creation!RowIds, NEW n \in Creation!RowIds,
               bookings[m].recent, bookings[n].recent,
               bookings[m].key = bookings[n].key, bookings[m].key # NoKey
        PROVE  m = n
    <3>1. bookings[m].key \in Keys
      BY <1>1, <2>1 DEF CreationInv, Creation!TypeOK, Creation!Booking
    <3>2. KeyInv(bookings[m].key)
      BY <1>1, <3>1 DEF CreationInv
    <3> QED BY <2>1, <3>2 DEF KeyInv
  <2>2. \A k \in Keys : keys[k].status = "PENDING" => lock[k] # NoTask
    BY <1>1 DEF CreationInv, KeyInv
  <2> QED BY <2>1, <2>2 DEF Creation!OneBookingPerKey
<1>2. ASSUME CreationInv
      PROVE  Creation!AnswerIsForRequest
  BY <1>2 DEF CreationInv, TaskInv, HoldsKey, Creation!AnswerIsForRequest
<1>3. CreationInv => OneBookingPerKey
  BY <1>1, <1>2 DEF OneBookingPerKey
<1> QED BY <1>3, CreationInvariance, PTL

(* With fares in whole baht the mileage of a booking is what it took from  *)
(* the account; a fare with half a baht may end in a redemption that is    *)
(* lowered in the price and taken from nobody.  The account is its ledger, *)
(* never below zero, and a coupon is spent on the booking it is marked     *)
(* with, whatever the fares are.                                           *)
THEOREM CouponsAndMileagePayOnce ==
  ASSUME WholeFares
  PROVE  BookingsSpec => []SpentOnce
<1>1. BookingsInit => WholeBaht
  BY WholeStarts DEF BookingsInit
<1>2. WholeBaht /\ CreationRests => WholeBaht'
  BY DEF WholeBaht, CreationRests, creationVars
<1>3. CreationInv /\ WholeBaht /\ [BookingsNext]_bookingsVars => WholeBaht'
  BY <1>2, WholeFares, CreationStepOrRest, WholeStep
<1>4. CreationInv /\ WholeBaht => SpentOnce
  BY DEF CreationInv, WholeBaht, BalanceInv, SpentOnce, Creation!AccountMatchesLedger
<1> QED BY <1>1, <1>3, <1>4, CreationInvariance, PTL DEF BookingsSpec

(* The account's part of SpentOnce.                                        *)
AccountIsLedger ==
  /\ account.balance >= 0
  /\ account.balance = account.opening + Creation!SumFunction(Creation!Movement)

(* Whatever the fares, a coupon is spent on the booking it is marked with, *)
(* and the account holds what its ledger adds up to, never below zero.     *)
THEOREM AccountIsItsLedger ==
  BookingsSpec => [](Creation!CouponSpentOnce /\ AccountIsLedger)
<1>1. CreationInv => Creation!CouponSpentOnce /\ AccountIsLedger
  BY DEF CreationInv, BalanceInv, AccountIsLedger
<1> QED BY <1>1, CreationInvariance, PTL

(* Until something fails, a trip that ended has earned its mileage, and    *)
(* one that was cancelled has it back, or the handler is still at it.      *)
THEOREM MileageFollowsEveryTrip == BookingsSpec => []MileageFollowsTrip
<1>1. BookingsInit => Creation!MileageFollowsTrip
  BY FollowsStarts DEF BookingsInit
<1>2. Creation!MileageFollowsTrip /\ CreationRests => Creation!MileageFollowsTrip'
  BY DEF CreationRests, creationVars, Creation!MileageFollowsTrip, Creation!Settled,
         Creation!Pending, Creation!Accrual
<1>3. CreationInv /\ Creation!MileageFollowsTrip /\ [BookingsNext]_bookingsVars =>
        Creation!MileageFollowsTrip'
  BY <1>2, CreationStepOrRest, FollowsStep
<1> QED BY <1>1, <1>3, CreationInvariance, PTL DEF BookingsSpec, MileageFollowsTrip

-----------------------------------------------------------------------------
(* BookingCreation implements BookingDesk.  Besides CreationInv, a request *)
(* under way was sent by a client, what was worked out for it is what he   *)
(* may ask for, and a booking that was given up has no refund under way.   *)
SentInv(t) ==
  /\ task[t].at \notin Effects \cup {"idle"} => task[t].request \in Requests
  /\ task[t].at \in Quoted =>
       /\ task[t].discount = Creation!CouponItem(task[t].request)
       /\ task[t].mileage <= 2 * task[t].request.mileage
       /\ task[t].mileage > 0 => task[t].request.member
       /\ task[t].request.coupon # NoCoupon => task[t].request.member
GivenUpInv(n) ==
  bookings[n].exhausted =>
    /\ bookings[n].status = "CANCELLED"
    /\ \A t \in Tasks : ~(task[t].job = "refund" /\ task[t].number = n)
DeskInv ==
  /\ \A t \in Tasks : SentInv(t)
  /\ \A n \in Creation!RowIds : GivenUpInv(n)

(* The work of task t goes on, or ends, and nobody else's does.            *)
Moves(t) ==
  /\ Others(t)
  /\ \/ task'[t].at \in Effects \cup {"idle"}
     \/ /\ task[t].at \notin Effects \cup {"idle"}
        /\ task'[t].at \in Quoted => task[t].at \in Quoted
        /\ task'[t].request = task[t].request
        /\ task'[t].discount = task[t].discount /\ task'[t].mileage = task[t].mileage
  /\ task'[t].job = "refund" => task[t].job = "refund" /\ task'[t].number = task[t].number

(* What one task does to its own statement leaves the others' requests as  *)
(* they were sent.                                                         *)
LEMMA OneTaskSent ==
  ASSUME DeskInv, NEW t \in Tasks, Others(t), SentInv(t)',
         task'[t].job = "refund" => task[t].job = "refund" /\ task'[t].number = task[t].number,
         \A n \in Creation!RowIds : /\ bookings'[n].exhausted = bookings[n].exhausted
                                    /\ bookings'[n].status = bookings[n].status
  PROVE  DeskInv'
<1>1. ASSUME NEW u \in Tasks
      PROVE  SentInv(u)'
  <2>1. CASE u = t
    BY <2>1
  <2>2. CASE u # t
    <3>1. SentInv(u) /\ task'[u] = task[u]
      BY <2>2 DEF DeskInv, Others
    <3> QED BY <3>1 DEF SentInv, Creation!CouponItem
  <2> QED BY <2>1, <2>2
<1>2. ASSUME NEW n \in Creation!RowIds
      PROVE  GivenUpInv(n)'
  <2>1. GivenUpInv(n)
    BY DEF DeskInv
  <2>2. ASSUME NEW u \in Tasks, task'[u].job = "refund", task'[u].number = n
        PROVE  task[u].job = "refund" /\ task[u].number = n
    BY <2>2 DEF Others
  <2> QED BY <2>1, <2>2 DEF GivenUpInv
<1> QED BY <1>1, <1>2 DEF DeskInv, Creation!RowIds

(* So does a step of its work.                                             *)
LEMMA MovesSent ==
  ASSUME DeskInv, NEW t \in Tasks, Moves(t),
         \A n \in Creation!RowIds : /\ bookings'[n].exhausted = bookings[n].exhausted
                                    /\ bookings'[n].status = bookings[n].status
  PROVE  DeskInv'
<1>1. SentInv(t)'
  <2>1. SentInv(t)
    BY DEF DeskInv
  <2>2. CASE task'[t].at \in Effects \cup {"idle"}
    BY <2>2 DEF SentInv, Effects, Quoted
  <2>3. CASE task'[t].at \notin Effects \cup {"idle"}
    BY <2>1, <2>3 DEF SentInv, Moves, Creation!CouponItem
  <2> QED BY <2>2, <2>3
<1> QED BY <1>1, OneTaskSent DEF Moves

-----------------------------------------------------------------------------
(* The steps that the customer does not see.                               *)

(* The tables are as they were, but for PENDING keys, and no answer is     *)
(* given or taken.                                                         *)
Unseen ==
  /\ UNCHANGED <<coupons, sequence, bookings, account, ledger>>
  /\ \A k \in Keys : \/ keys'[k] = keys[k]
                     \/ keys[k].status # "COMPLETED" /\ keys'[k].status # "COMPLETED"
  /\ \A u \in Tasks : \/ task'[u] = task[u]
                      \/ task[u].at # "answered" /\ task'[u].at # "answered"

(* Then the desk is as it was.                                             *)
LEMMA UnseenStutters ==
  ASSUME Unseen
  PROVE  UNCHANGED Promise!deskVars
<1>1. KeptAnswers' = KeptAnswers
  BY DEF Unseen, KeptAnswers, Creation!AnyBody, Creation!Unset
<1>2. AnswersDue' = AnswersDue
  BY DEF Unseen, AnswersDue, Creation!Unset
<1> QED BY <1>1, <1>2 DEF Unseen, Promise!deskVars

(* A step that keeps the invariant and is one of the desk's, or none.      *)
Promised == DeskInv' /\ (Promise!DeskNext \/ UNCHANGED Promise!deskVars)

(* A task moves, and the customer sees nothing of it.                      *)
LEMMA Hidden ==
  ASSUME DeskInv, NEW t \in Tasks, Moves(t), Unseen
  PROVE  Promised
  BY MovesSent, UnseenStutters DEF Unseen, Promised

(* What a step of a task changes of it.                                    *)
LEMMA NumberEffect ==
  ASSUME CreationInv, NEW t \in Tasks, NEW at, NEW n,
         task' = [task EXCEPT ![t].at = at, ![t].number = n]
  PROVE  /\ Others(t) /\ task'[t].at = at /\ task'[t].number = n
         /\ task'[t].job = task[t].job /\ task'[t].request = task[t].request
         /\ task'[t].discount = task[t].discount /\ task'[t].mileage = task[t].mileage
<1> DEFINE s == [task[t] EXCEPT !.at = at, !.number = n]
<1>1. /\ s.at = at /\ s.number = n /\ s.job = task[t].job /\ s.request = task[t].request
      /\ s.discount = task[t].discount /\ s.mileage = task[t].mileage
  BY TaskFacts DEF Creation!TaskState
<1>2. task' = [task EXCEPT ![t] = s]
  OBVIOUS
<1> HIDE DEF s
<1>3. Others(t) /\ task'[t] = s
  BY <1>2, TaskFacts DEF Others, TasksType
<1> QED BY <1>1, <1>3

(* A request under way has no effect to see to.                            *)
LEMMA NoEffect ==
  ASSUME CreationInv, NEW t \in Tasks, task[t].at \notin Effects
  PROVE  task[t].job \notin {"accrue", "refund"}
  BY TaskFacts DEF TaskInv, JobInv

(* The statements of a request between its quote and its commit.           *)
LEMMA StatementHidden ==
  ASSUME CreationInv, DeskInv, NEW t \in Tasks,
         \/ Creation!BeginNew(t) \/ Creation!TakeNumber(t) \/ Creation!FirstNumber(t)
         \/ Creation!WriteBooking(t) \/ Creation!Redeem(t)
  PROVE  Promised
<1>1. /\ task[t].at \in {"begin", "number", "first", "write", "redeem"}
      /\ UNCHANGED <<keys, coupons, sequence, bookings, account, ledger>>
      /\ task[t].at = "begin" => Creation!Go(t, "insert")
  BY DEF Creation!BeginNew, Creation!TakeNumber, Creation!FirstNumber,
         Creation!WriteBooking, Creation!Redeem, Creation!tables
<1>2. task[t].job \notin {"accrue", "refund"}
  BY <1>1, NoEffect DEF Effects
<1>3. /\ Others(t) /\ task'[t].at \in {"insert", "first", "write", "redeem", "finish"}
      /\ task'[t].at \in Quoted => task[t].at \in Quoted
      /\ task'[t].job = task[t].job /\ task'[t].request = task[t].request
      /\ task'[t].discount = task[t].discount /\ task'[t].mileage = task[t].mileage
  <2>1. CASE \E at \in {"insert", "first", "redeem", "finish"} :
               Creation!Go(t, at) /\ (at \in Quoted => task[t].at \in Quoted)
    <3>1. PICK at \in {"insert", "first", "redeem", "finish"} :
            Creation!Go(t, at) /\ (at \in Quoted => task[t].at \in Quoted)
      BY <2>1
    <3>2. Goes(t, at)
      BY <3>1, GoEffect, TaskFacts DEF Creation!At
    <3> QED BY <3>1, <3>2 DEF Goes
  <2>2. CASE /\ \E n \in Nat : task' = [task EXCEPT ![t].at = "write", ![t].number = n]
             /\ task[t].at \in {"number", "first"}
    <3>1. PICK n \in Nat : task' = [task EXCEPT ![t].at = "write", ![t].number = n]
      BY <2>2
    <3>2. /\ Others(t) /\ task'[t].at = "write"
          /\ task'[t].job = task[t].job /\ task'[t].request = task[t].request
          /\ task'[t].discount = task[t].discount /\ task'[t].mileage = task[t].mileage
      BY <3>1, NumberEffect
    <3> QED BY <2>2, <3>2 DEF Quoted
  <2>3. sequence + 1 \in Nat /\ 1 \in Nat
    BY InvFacts
  <2> QED BY <1>1, <2>1, <2>2, <2>3
          DEF Creation!BeginNew, Creation!TakeNumber, Creation!FirstNumber,
              Creation!WriteBooking, Creation!Redeem, Quoted
<1>4. Moves(t)
  BY <1>1, <1>2, <1>3 DEF Moves, Effects
<1>5. Unseen
  BY <1>1, <1>3 DEF Unseen, Others
<1> QED BY <1>4, <1>5, Hidden

(* A PENDING row is not an answer that is kept.                            *)
LEMMA PendingHidden ==
  ASSUME CreationInv, DeskInv, NEW t \in Tasks, Creation!InsertPending(t)
  PROVE  Promised
<1> DEFINE k == task[t].request.key
           row == [Creation!NoRow EXCEPT !.status = "PENDING", !.body = task[t].request.body]
<1>1. /\ task[t].at = "insert" /\ keys' = [keys EXCEPT ![k] = row]
      /\ Creation!Go(t, "quote")
      /\ UNCHANGED <<coupons, sequence, bookings, account, ledger>>
  BY DEF Creation!InsertPending
<1>2. row.status = "PENDING"
  BY DEF Creation!NoRow
<1>3. k \in Keys /\ keys[k].status = "NONE"
  BY <1>1, Inserts
<1>4. Goes(t, "quote")
  BY <1>1, GoEffect, TaskFacts DEF Creation!At
<1>5. task[t].job \notin {"accrue", "refund"}
  BY <1>1, NoEffect DEF Effects
<1>6. Moves(t)
  BY <1>1, <1>4, <1>5 DEF Moves, Goes, Effects, Quoted
<1> HIDE DEF k, row
<1>7. Unseen
  BY <1>1, <1>2, <1>3, <1>4, InvFacts DEF Unseen, Goes, Others
<1> QED BY <1>6, <1>7, Hidden

(* A transaction that is rolled back leaves no trace.                      *)
LEMMA RollbackHidden ==
  ASSUME CreationInv, DeskInv, NEW t \in Tasks, Creation!Rollback(t), task[t].at # "answered"
  PROVE  Promised
<1>1. Idles(t)
  BY IdleEffect, TaskFacts DEF Creation!Rollback
<1>2. \A k \in Keys : \/ keys'[k] = keys[k]
                      \/ keys[k].status # "COMPLETED" /\ keys'[k].status # "COMPLETED"
  BY DEF Creation!Rollback, Creation!RolledBack, Creation!NoRow
<1>3. Moves(t)
  BY <1>1 DEF Moves, Idles
<1>4. Unseen
  BY <1>1, <1>2 DEF Unseen, Idles, Others, Creation!Rollback
<1> QED BY <1>3, <1>4, Hidden

(* A handler sees to its effect, or has none to see to.                    *)
LEMMA EffectHidden ==
  ASSUME CreationInv, DeskInv, NEW t \in Tasks,
         Creation!Skip(t) \/ Creation!LockAccount(t) \/ Creation!OpenAccount(t)
  PROVE  Promised
<1>1. /\ task[t].at \in Effects
      /\ UNCHANGED <<keys, coupons, sequence, bookings, account, ledger>>
  BY DEF Creation!Skip, Creation!LockAccount, Creation!OpenAccount, Creation!tables, Effects
<1>2. Moves(t) /\ task'[t].at # "answered" /\ Others(t)
  <2>1. CASE Creation!Skip(t)
    <3>1. Idles(t)
      BY <2>1, IdleEffect, TaskFacts DEF Creation!Skip
    <3> QED BY <3>1 DEF Moves, Idles
  <2>2. CASE Creation!LockAccount(t) \/ Creation!OpenAccount(t)
    <3>1. PICK at \in {"open", "post"} : Creation!Go(t, at)
      BY <2>2 DEF Creation!LockAccount, Creation!OpenAccount
    <3>2. Goes(t, at)
      BY <3>1, GoEffect, TaskFacts DEF Creation!At
    <3> QED BY <3>2 DEF Moves, Goes, Effects
  <2> QED BY <2>1, <2>2
<1>3. Unseen
  BY <1>1, <1>2 DEF Unseen, Others, Effects
<1> QED BY <1>2, <1>3, Hidden

(* A request comes in: it asks for nothing yet.                            *)
LEMMA StartHidden ==
  ASSUME CreationInv, DeskInv, NEW t \in Tasks, NEW r \in Requests, Creation!Start(t, r)
  PROVE  Promised
<1> DEFINE s == [Creation!Idle EXCEPT !.at = IF r.key = NoKey THEN "quote" ELSE "begin",
                                      !.job = "create", !.request = r]
<1>1. /\ task[t].at = "idle" /\ task' = [task EXCEPT ![t] = s]
      /\ UNCHANGED <<keys, coupons, sequence, bookings, account, ledger>>
  BY DEF Creation!Start, Creation!tables
<1>2. s.at \in {"quote", "begin"} /\ s.job = "create" /\ s.request = r
  BY DEF Creation!Idle
<1> HIDE DEF s
<1>3. Others(t) /\ task'[t] = s
  BY <1>1, TaskFacts DEF Others, TasksType
<1>4. SentInv(t)'
  BY <1>2, <1>3 DEF SentInv, Quoted
<1>5. DeskInv'
  BY <1>1, <1>2, <1>3, <1>4, OneTaskSent
<1>6. Unseen
  BY <1>1, <1>2, <1>3 DEF Unseen, Others
<1> QED BY <1>5, <1>6, UnseenStutters DEF Promised

(* A price is worked out within what may be asked for.                     *)
LEMMA QuoteHidden ==
  ASSUME CreationInv, DeskInv, NEW t \in Tasks, Creation!Quote(t)
  PROVE  Promised
<1> DEFINE r == task[t].request
           s == [task[t] EXCEPT !.at = "number", !.discount = Creation!CouponItem(r),
                                !.mileage = Creation!MileageItem(r)]
<1>1. /\ task[t].at = "quote" /\ task' = [task EXCEPT ![t] = s]
      /\ Creation!CouponApplies(r) /\ Creation!MayPay(r)
      /\ UNCHANGED <<keys, coupons, sequence, bookings, account, ledger>>
  BY DEF Creation!Quote, Creation!tables
<1>2. /\ s.at = "number" /\ s.discount = Creation!CouponItem(r)
      /\ s.mileage = Creation!MileageItem(r) /\ s.job = task[t].job /\ s.request = r
  BY TaskFacts DEF Creation!TaskState
<1>3. r \in Requests /\ r.mileage \in Nat
  BY <1>1, TaskFacts DEF DeskInv, SentInv, Effects
<1>4. r.coupon # NoCoupon => r.member
  BY <1>1 DEF Creation!CouponApplies
<1>5. Creation!MileageItem(r) <= 2 * r.mileage /\ (Creation!MileageItem(r) > 0 => r.member)
  <2>1. CASE r.mileage = 0
    <3>1. Creation!MileageItem(r) = 0
      BY <2>1 DEF Creation!MileageItem
    <3> QED BY <2>1, <3>1
  <2>2. CASE r.mileage # 0
    <3>1. r.member
      BY <1>1, <2>2 DEF Creation!MayPay
    <3> DEFINE rest == Creation!Lesser(r.fare - Creation!CouponItem(r), 2 * account.balance)
    <3>2. Creation!MileageItem(r) = Creation!Lesser(2 * r.mileage, rest)
      BY <2>2 DEF Creation!MileageItem
    <3>3. rest \in Int
      BY QuoteType, TaskFacts, InvFacts DEF Creation!Lesser
    <3> HIDE DEF rest
    <3> QED BY <1>3, <3>1, <3>2, <3>3 DEF Creation!Lesser
  <2> QED BY <2>1, <2>2
<1> HIDE DEF s
<1>6. Others(t) /\ task'[t] = s
  BY <1>1, TaskFacts DEF Others, TasksType
<1>7. SentInv(t)'
  <2>1. /\ task'[t].request = r /\ task'[t].discount = Creation!CouponItem(r)
        /\ task'[t].mileage = Creation!MileageItem(r)
    BY <1>2, <1>6
  <2> HIDE DEF r
  <2>2. Creation!CouponItem(task'[t].request) = Creation!CouponItem(r)
    BY <2>1
  <2> QED BY <1>3, <1>4, <1>5, <2>1, <2>2 DEF SentInv, Creation!CouponItem
<1>8. DeskInv'
  <2>1. task'[t].job # "refund"
    BY <1>1, <1>2, <1>6, NoEffect DEF Effects
  <2> QED BY <1>1, <1>6, <1>7, <2>1, OneTaskSent
<1>9. Unseen
  BY <1>1, <1>2, <1>6 DEF Unseen, Others
<1> QED BY <1>8, <1>9, UnseenStutters DEF Promised

-----------------------------------------------------------------------------
(* The steps that the customer sees.                                       *)

(* The answers that are due, when one task comes to its answer or has      *)
(* given it.                                                               *)
LEMMA AnswerChanges ==
  ASSUME NEW t \in Tasks, Others(t)
  PROVE  AnswersDue' = [AnswersDue EXCEPT ![t] =
           IF task'[t].at = "answered" THEN task'[t].number ELSE Creation!Unset]
  BY DEF AnswersDue, Others, Creation!Unset

(* A task that is not at its answer has none to give.                      *)
LEMMA NoAnswerDue ==
  ASSUME NEW t \in Tasks, task[t].at # "answered"
  PROVE  AnswersDue[t] = Promise!Nobody
  BY DEF AnswersDue, Creation!Unset, Promise!Nobody

(* The answer is given.                                                    *)
LEMMA AnswerSeen ==
  ASSUME CreationInv, DeskInv, NEW t \in Tasks, Creation!Answer(t)
  PROVE  Promised
<1>1. /\ task' = [task EXCEPT ![t] = Creation!Idle]
      /\ UNCHANGED <<keys, coupons, sequence, bookings, account, ledger>>
  BY DEF Creation!Answer, Creation!tables
<1>2. Idles(t)
  BY <1>1, IdleEffect, TaskFacts
<1>3. DeskInv'
  BY <1>1, <1>2, MovesSent DEF Moves, Idles
<1>4. AnswersDue' = [AnswersDue EXCEPT ![t] = Promise!Nobody]
  <2>1. task'[t].at # "answered"
    BY <1>2 DEF Idles
  <2> QED BY <1>2, <2>1, AnswerChanges DEF Idles, Creation!Unset, Promise!Nobody
<1>5. KeptAnswers' = KeptAnswers
  BY <1>1 DEF KeptAnswers
<1>6. Promise!Answered(t)
  BY <1>1, <1>4, <1>5 DEF Promise!Answered
<1> QED BY <1>3, <1>6 DEF Promised, Promise!DeskNext

(* A key that is kept is answered with its booking.                        *)
LEMMA ReplaySeen ==
  ASSUME CreationInv, DeskInv, NEW t \in Tasks, Creation!Replay(t)
  PROVE  Promised
<1> DEFINE r == task[t].request
           n == keys[r.key].booking
<1>1. /\ task[t].at = "begin" /\ keys[r.key].status = "COMPLETED" /\ ~keys[r.key].expired
      /\ keys[r.key].body = r.body
      /\ task' = [task EXCEPT ![t].at = "answered", ![t].number = n]
      /\ UNCHANGED <<keys, coupons, sequence, bookings, account, ledger>>
  BY DEF Creation!Replay, Creation!Usable, Creation!tables
<1>2. r \in Requests /\ r.key \in Keys /\ r.key # NoKey
  BY <1>1, TaskFacts, CreationAssumption DEF DeskInv, SentInv, Effects, TaskInv, JobInv
<1>3. n \in 1..sequence /\ n # Promise!Nobody
  BY <1>1, <1>2, InvFacts DEF KeyInv, Promise!Nobody
<1>4. /\ Others(t) /\ task'[t].at = "answered" /\ task'[t].number = n
      /\ task'[t].job = task[t].job /\ task'[t].request = r
      /\ task'[t].discount = task[t].discount /\ task'[t].mileage = task[t].mileage
  BY <1>1, NumberEffect
<1>5. DeskInv'
  <2>1. Moves(t)
    BY <1>1, <1>4, NoEffect DEF Moves, Effects, Quoted
  <2> QED BY <1>1, <2>1, MovesSent
<1>6. KeptAnswers[r.key] = [body |-> keys[r.key].body, booking |-> n,
                            expired |-> keys[r.key].expired]
  BY <1>1, <1>2 DEF KeptAnswers
<1>7. /\ KeptAnswers[r.key].booking = n /\ ~KeptAnswers[r.key].expired
      /\ KeptAnswers[r.key].body = r.body
  BY <1>1, <1>6
<1>8. AnswersDue' = [AnswersDue EXCEPT ![t] = KeptAnswers[r.key].booking]
  BY <1>4, <1>7, AnswerChanges
<1>9. KeptAnswers' = KeptAnswers
  BY <1>1 DEF KeptAnswers
<1>10. AnswersDue[t] = Promise!Nobody
  BY <1>1, NoAnswerDue
<1> HIDE DEF r, n
<1>11. Promise!AnswerAgain(t, r)
  BY <1>1, <1>2, <1>3, <1>7, <1>8, <1>9, <1>10 DEF Promise!AnswerAgain
<1> QED BY <1>2, <1>5, <1>11 DEF Promised, Promise!DeskNext

(* The end of a booking: its status alone changes.                         *)
LEMMA EndSeen ==
  ASSUME CreationInv, DeskInv, NEW t \in Tasks, NEW n \in Creation!RowIds,
         Creation!EndTrip(t, n) \/ Creation!Cancel(t, n)
  PROVE  Promised
<1>1. PICK job \in {"accrue", "refund"}, status \in {"ENDED", "CANCELLED"} :
        /\ bookings[n].status = "OPEN" /\ task[t].at = "idle"
        /\ bookings' = [bookings EXCEPT ![n].status = status]
        /\ task' = [task EXCEPT ![t] = [Creation!Idle EXCEPT !.at = "account", !.job = job,
                                                             !.number = n]]
        /\ UNCHANGED <<keys, coupons, sequence, account, ledger>>
  BY DEF Creation!EndTrip, Creation!Cancel, Creation!CloseAs, Creation!Effect
<1>2. /\ Others(t) /\ task'[t].at = "account" /\ task'[t].number = n
  <2> DEFINE s == [Creation!Idle EXCEPT !.at = "account", !.job = job, !.number = n]
  <2>1. s.at = "account" /\ s.number = n /\ task' = [task EXCEPT ![t] = s]
    BY <1>1 DEF Creation!Idle
  <2> HIDE DEF s
  <2> QED BY <2>1, TaskFacts DEF TasksType, Others
<1>3. \A m \in Creation!RowIds :
        /\ bookings'[m].exhausted = bookings[m].exhausted
        /\ m # n => bookings'[m].status = bookings[m].status
  <2> DEFINE row == [bookings[n] EXCEPT !.status = status]
  <2>1. row.exhausted = bookings[n].exhausted /\ bookings' = [bookings EXCEPT ![n] = row]
    BY <1>1, InvFacts DEF Creation!Booking
  <2> HIDE DEF row
  <2> QED BY <2>1, InvFacts
<1>4. ~bookings[n].exhausted
  BY <1>1 DEF DeskInv, GivenUpInv
<1>5. DeskInv'
  <2>1. ASSUME NEW u \in Tasks
        PROVE  SentInv(u)'
    <3>1. CASE u = t
      BY <1>2, <3>1 DEF SentInv, Effects, Quoted
    <3>2. CASE u # t
      <4>1. SentInv(u) /\ task'[u] = task[u]
        BY <1>2, <3>2 DEF DeskInv, Others
      <4> QED BY <4>1 DEF SentInv, Creation!CouponItem
    <3> QED BY <3>1, <3>2
  <2>2. ASSUME NEW m \in Creation!RowIds
        PROVE  GivenUpInv(m)'
    <3>1. CASE m = n
      BY <1>3, <1>4, <3>1 DEF GivenUpInv
    <3>2. CASE m # n
      <4>1. GivenUpInv(m)
        BY DEF DeskInv
      <4> QED BY <1>2, <1>3, <3>2, <4>1 DEF GivenUpInv, Others
    <3> QED BY <3>1, <3>2
  <2> QED BY <2>1, <2>2 DEF DeskInv, Creation!RowIds
<1>6. KeptAnswers' = KeptAnswers /\ AnswersDue' = AnswersDue
  <2>1. \A u \in Tasks : task'[u] = task[u]
                         \/ (task[u].at # "answered" /\ task'[u].at # "answered")
    BY <1>1, <1>2 DEF Others
  <2> QED BY <1>1, <2>1 DEF KeptAnswers, AnswersDue, Creation!Unset
<1>7. Promise!Close(n, status)
  BY <1>1, <1>6 DEF Promise!Close
<1>8. n \in Promise!RowIds
  BY DEF Creation!RowIds, Promise!RowIds
<1> QED BY <1>5, <1>7, <1>8 DEF Promised, Promise!DeskNext

(* The negotiation gives a booking up.                                     *)
LEMMA ExhaustSeen ==
  ASSUME CreationInv, DeskInv, NEW n \in Creation!RowIds, Creation!Exhaust(n)
  PROVE  Promised
<1> DEFINE row == [bookings[n] EXCEPT !.status = "CANCELLED", !.exhausted = TRUE]
<1>1. /\ bookings[n].status = "OPEN" /\ bookings' = [bookings EXCEPT ![n] = row]
      /\ bookings' = [bookings EXCEPT ![n].status = "CANCELLED", ![n].exhausted = TRUE]
      /\ UNCHANGED <<keys, coupons, sequence, account, ledger, task>>
  BY DEF Creation!Exhaust
<1>2. row.status = "CANCELLED"
  BY InvFacts DEF Creation!Booking
<1> HIDE DEF row
<1>3. DeskInv'
  <2>1. ASSUME NEW m \in Creation!RowIds
        PROVE  GivenUpInv(m)'
    <3>1. CASE m = n
      <4>1. \A t \in Tasks : ~(task[t].job = "refund" /\ task[t].number = n)
        BY <1>1, InvFacts DEF EffectInv
      <4> QED BY <1>1, <1>2, <3>1, <4>1, InvFacts DEF GivenUpInv
    <3>2. CASE m # n
      <4>1. GivenUpInv(m) /\ bookings'[m] = bookings[m]
        BY <1>1, <3>2, InvFacts DEF DeskInv
      <4> QED BY <1>1, <4>1 DEF GivenUpInv
    <3> QED BY <3>1, <3>2
  <2>2. \A u \in Tasks : SentInv(u)'
    BY <1>1 DEF DeskInv, SentInv, Creation!CouponItem
  <2> QED BY <2>1, <2>2 DEF DeskInv, Creation!RowIds
<1>4. KeptAnswers' = KeptAnswers /\ AnswersDue' = AnswersDue
  BY <1>1 DEF KeptAnswers, AnswersDue
<1>5. Promise!GiveUp(n)
  BY <1>1, <1>4 DEF Promise!GiveUp
<1>6. n \in Promise!RowIds
  BY DEF Creation!RowIds, Promise!RowIds
<1> QED BY <1>3, <1>5, <1>6 DEF Promised, Promise!DeskNext

(* What a completed row keeps.                                             *)
LEMMA KeptRow ==
  ASSUME NEW k \in Keys, keys[k].status = "COMPLETED"
  PROVE  KeptAnswers[k] = [body |-> keys[k].body, booking |-> keys[k].booking,
                           expired |-> keys[k].expired]
  BY DEF KeptAnswers

(* The answers that are kept, when one row changes.                        *)
LEMMA KeptChanges ==
  ASSUME NEW k \in Keys, \A j \in Keys \ {k} : keys'[j] = keys[j]
  PROVE  KeptAnswers' = [KeptAnswers EXCEPT ![k] =
           IF keys'[k].status = "COMPLETED"
           THEN [body |-> keys'[k].body, booking |-> keys'[k].booking,
                 expired |-> keys'[k].expired]
           ELSE Promise!NotKept]
  BY DEF KeptAnswers, Promise!NotKept, Promise!AnyBody, Promise!Nobody, Creation!AnyBody,
         Creation!Unset

(* Changing one field of what is kept.                                     *)
LEMMA Expired ==
  ASSUME NEW body \in Bodies, NEW n \in Nat, NEW old \in BOOLEAN
  PROVE  [[body |-> body, booking |-> n, expired |-> old] EXCEPT !.expired = TRUE]
           = [body |-> body, booking |-> n, expired |-> TRUE]
<1> DEFINE row == [body |-> body, booking |-> n, expired |-> old]
           new == [row EXCEPT !.expired = TRUE]
<1>1. new \in [body: Bodies, booking: Nat, expired: BOOLEAN]
  OBVIOUS
<1>2. new.body = body /\ new.booking = n /\ new.expired = TRUE
  OBVIOUS
<1> HIDE DEF new
<1>3. PICK x \in Bodies, y \in Nat, z \in BOOLEAN : new = [body |-> x, booking |-> y, expired |-> z]
  BY <1>1
<1>4. x = body /\ y = n /\ z = TRUE
  BY <1>2, <1>3
<1>5. new = [body |-> body, booking |-> n, expired |-> TRUE]
  BY <1>3, <1>4
<1> QED BY <1>5 DEF new

(* A kept answer grows old.                                                *)
LEMMA ExpireSeen ==
  ASSUME CreationInv, DeskInv, NEW k \in Keys, Creation!Expire(k)
  PROVE  Promised
<1> DEFINE n == keys[k].booking
           row == [bookings[n] EXCEPT !.recent = FALSE]
           old == [keys[k] EXCEPT !.expired = TRUE]
<1>1. /\ keys[k].status = "COMPLETED" /\ ~keys[k].expired
      /\ keys' = [keys EXCEPT ![k] = old]
      /\ bookings' = [bookings EXCEPT ![n] = row]
      /\ bookings' = [bookings EXCEPT ![n].recent = FALSE]
      /\ UNCHANGED <<coupons, sequence, account, ledger, task>>
  BY DEF Creation!Expire
<1>2. n \in 1..sequence /\ n \in Creation!RowIds
  BY <1>1, InvFacts DEF KeyInv
<1>3. row.status = bookings[n].status /\ row.exhausted = bookings[n].exhausted
  BY <1>2, InvFacts DEF Creation!Booking
<1>4. old.status = "COMPLETED" /\ old.body = keys[k].body /\ old.booking = n /\ old.expired = TRUE
  BY <1>1, InvFacts DEF Creation!KeyRow
<1> HIDE DEF row, old
<1>5. \A m \in Creation!RowIds : /\ bookings'[m].exhausted = bookings[m].exhausted
                                 /\ bookings'[m].status = bookings[m].status
  BY <1>1, <1>2, <1>3, InvFacts
<1>6. DeskInv'
  <2>1. \A u \in Tasks : SentInv(u)'
    BY <1>1 DEF DeskInv, SentInv, Creation!CouponItem
  <2>2. \A m \in Creation!RowIds : GivenUpInv(m)'
    BY <1>1, <1>5 DEF DeskInv, GivenUpInv
  <2> QED BY <2>1, <2>2 DEF DeskInv, Creation!RowIds
<1>7. KeptAnswers[k] = [body |-> keys[k].body, booking |-> n, expired |-> keys[k].expired]
  BY <1>1, KeptRow
<1>8. KeptAnswers' = [KeptAnswers EXCEPT ![k].expired = TRUE]
  <2>1. keys'[k] = old /\ \A j \in Keys \ {k} : keys'[j] = keys[j]
    BY <1>1, InvFacts
  <2>2. KeptAnswers' = [KeptAnswers EXCEPT ![k] = [body |-> keys[k].body, booking |-> n,
                                                   expired |-> TRUE]]
    BY <1>4, <2>1, KeptChanges
  <2>3. [KeptAnswers[k] EXCEPT !.expired = TRUE]
          = [body |-> keys[k].body, booking |-> n, expired |-> TRUE]
    BY <1>2, <1>7, Expired, InvFacts DEF Creation!KeyRow, Creation!RowIds
  <2>4. [KeptAnswers EXCEPT ![k].expired = TRUE]
          = [KeptAnswers EXCEPT ![k] = [KeptAnswers[k] EXCEPT !.expired = TRUE]]
    OBVIOUS
  <2> QED BY <2>2, <2>3, <2>4
<1>9. AnswersDue' = AnswersDue
  BY <1>1 DEF AnswersDue
<1>10. KeptAnswers[k].booking = n /\ ~KeptAnswers[k].expired /\ n # Promise!Nobody
  BY <1>1, <1>2, <1>7, InvFacts DEF Promise!Nobody
<1> HIDE DEF n
<1>11. Promise!Expire(k)
  BY <1>1, <1>8, <1>9, <1>10 DEF Promise!Expire
<1> QED BY <1>6, <1>11 DEF Promised, Promise!DeskNext

(* An old answer is forgotten.                                             *)
LEMMA CleanupSeen ==
  ASSUME CreationInv, DeskInv, NEW k \in Keys, Creation!Cleanup(k)
  PROVE  Promised
<1>1. /\ keys[k].expired /\ keys' = [keys EXCEPT ![k] = Creation!NoRow]
      /\ UNCHANGED <<coupons, sequence, bookings, account, ledger, task>>
  BY DEF Creation!Cleanup
<1>2. keys[k].status = "COMPLETED"
  BY <1>1, InvFacts DEF KeyInv
<1>3. DeskInv'
  BY <1>1 DEF DeskInv, SentInv, GivenUpInv, Creation!CouponItem, Creation!RowIds
<1>4. KeptAnswers' = [KeptAnswers EXCEPT ![k] = Promise!NotKept]
  <2>1. keys'[k] = Creation!NoRow /\ \A j \in Keys \ {k} : keys'[j] = keys[j]
    BY <1>1, InvFacts
  <2>2. Creation!NoRow.status # "COMPLETED"
    BY DEF Creation!NoRow
  <2> QED BY <2>1, <2>2, KeptChanges
<1>5. KeptAnswers[k].expired
  <2>1. KeptAnswers[k] = [body |-> keys[k].body, booking |-> keys[k].booking,
                          expired |-> keys[k].expired]
    BY <1>2, KeptRow
  <2>2. KeptAnswers[k].expired = keys[k].expired
    BY <2>1
  <2> QED BY <1>1, <2>2
<1>6. AnswersDue' = AnswersDue
  BY <1>1 DEF AnswersDue
<1>7. Promise!Forget(k)
  BY <1>1, <1>4, <1>5, <1>6 DEF Promise!Forget
<1> QED BY <1>3, <1>7 DEF Promised, Promise!DeskNext

(* Coupons are issued and taken back.                                      *)
LEMMA CouponSeen ==
  ASSUME CreationInv, DeskInv, NEW c \in Coupons,
         Creation!IssueCoupon(c) \/ Creation!CancelCoupon(c)
  PROVE  Promised
<1>1. UNCHANGED <<keys, sequence, bookings, account, ledger, task>>
  BY DEF Creation!IssueCoupon, Creation!CancelCoupon
<1>2. DeskInv'
  BY <1>1 DEF DeskInv, SentInv, GivenUpInv, Creation!CouponItem, Creation!RowIds
<1>3. KeptAnswers' = KeptAnswers /\ AnswersDue' = AnswersDue
  BY <1>1 DEF KeptAnswers, AnswersDue
<1>4. Promise!Mark(c, "NONE", "AVAILABLE") \/ Promise!Mark(c, "AVAILABLE", "DELETED")
  BY <1>1, <1>3 DEF Creation!IssueCoupon, Creation!CancelCoupon, Promise!Mark
<1> QED BY <1>2, <1>4 DEF Promised, Promise!DeskNext

(* A crash loses what was under way.                                       *)
LEMMA CrashSeen ==
  ASSUME CreationInv, DeskInv, Creation!Crash
  PROVE  Promised
<1>1. /\ keys' = Creation!RolledBack(Tasks) /\ task' = [t \in Tasks |-> Creation!Idle]
      /\ UNCHANGED <<coupons, sequence, bookings, account, ledger>>
  BY DEF Creation!Crash
<1>2. \A u \in Tasks : task'[u].at = "idle" /\ task'[u].job = "none"
  BY <1>1 DEF Creation!Idle
<1>3. DeskInv'
  <2>1. \A u \in Tasks : SentInv(u)'
    BY <1>2 DEF SentInv, Quoted
  <2>2. \A n \in Creation!RowIds : GivenUpInv(n)'
    BY <1>1, <1>2 DEF DeskInv, GivenUpInv
  <2> QED BY <2>1, <2>2 DEF DeskInv, Creation!RowIds
<1>4. KeptAnswers' = KeptAnswers
  <2>1. \A k \in Keys : \/ keys'[k] = keys[k]
                        \/ keys[k].status # "COMPLETED" /\ keys'[k].status # "COMPLETED"
    BY <1>1 DEF Creation!RolledBack, Creation!NoRow
  <2> QED BY <2>1 DEF KeptAnswers, Creation!AnyBody, Creation!Unset
<1>5. AnswersDue' = [t \in Tasks |-> Promise!Nobody]
  BY <1>2 DEF AnswersDue, Creation!Unset, Promise!Nobody
<1>6. Promise!Crash
  BY <1>1, <1>4, <1>5 DEF Promise!Crash
<1> QED BY <1>3, <1>6 DEF Promised, Promise!DeskNext

-----------------------------------------------------------------------------
(* A posting of nothing changes nothing.                                   *)
LEMMA NothingPosted ==
  ASSUME NEW row \in Creation!LedgerRow, row.accrue = 0
  PROVE  [row EXCEPT !.accrue = 0] = row
<1>1. PICK a \in Nat, b \in Nat, c \in Nat : row = [redeem |-> a, reversal |-> b, accrue |-> c]
  BY DEF Creation!LedgerRow
<1>2. c = 0
  BY <1>1
<1> QED BY <1>1, <1>2

(* What a booking earned is posted once,                                   *)
LEMMA CreditSeen ==
  ASSUME CreationInv, DeskInv, NEW t \in Tasks, Creation!Credit(t)
  PROVE  Promised
<1> DEFINE n == task[t].number
           a == Creation!Amount(t)
<1>1. /\ task[t].at = "post" /\ task[t].job = "accrue"
      /\ account' = [account EXCEPT !.exists = TRUE, !.balance = @ + a]
      /\ ledger' = [ledger EXCEPT ![n].accrue = a]
      /\ task' = [task EXCEPT ![t] = Creation!Idle]
      /\ UNCHANGED <<keys, coupons, sequence, bookings>>
  BY DEF Creation!Credit, Creation!Deposit
<1>2. /\ n \in 1..sequence /\ n \in Creation!RowIds /\ bookings[n].status = "ENDED"
      /\ ledger[n].accrue = 0 /\ bookings[n].member \in BOOLEAN
  BY <1>1, InvFacts DEF EffectInv, Creation!Booking
<1>3. a = IF bookings[n].member THEN bookings[n].total \div 40 ELSE 0
  BY <1>1, <1>2 DEF Creation!Amount, Creation!Accrual
<1> HIDE DEF n, a
<1>4. Idles(t)
  BY <1>1, IdleEffect, TaskFacts
<1>5. DeskInv'
  BY <1>1, <1>4, MovesSent DEF Moves, Idles
<1>6. KeptAnswers' = KeptAnswers /\ AnswersDue' = AnswersDue
  <2>1. \A u \in Tasks : task'[u] = task[u]
                         \/ (task[u].at # "answered" /\ task'[u].at # "answered")
    BY <1>1, <1>4 DEF Idles, Others
  <2> QED BY <1>1, <2>1 DEF KeptAnswers, AnswersDue, Creation!Unset
<1>7. account'.balance = account.balance + a
  BY <1>1, InvFacts DEF Creation!TypeOK, Creation!AccountRow
<1>8. CASE bookings[n].member
  <2>1. Promise!Earn(n)
    BY <1>1, <1>2, <1>3, <1>6, <1>7, <1>8 DEF Promise!Earn
  <2>2. n \in Promise!RowIds
    BY <1>2 DEF Creation!RowIds, Promise!RowIds
  <2> QED BY <1>5, <2>1, <2>2 DEF Promised, Promise!DeskNext
<1>9. CASE ~bookings[n].member
  <2>1. a = 0
    BY <1>3, <1>9
  <2>2. ledger' = ledger
    <3>1. ledger \in [Creation!RowIds -> Creation!LedgerRow]
      BY InvFacts DEF Creation!TypeOK
    <3>2. [ledger[n] EXCEPT !.accrue = 0] = ledger[n]
      BY <1>2, <3>1, NothingPosted
    <3>3. ledger' = [ledger EXCEPT ![n] = [ledger[n] EXCEPT !.accrue = 0]]
      BY <1>1, <2>1
    <3> QED BY <3>1, <3>2, <3>3
  <2>3. account'.balance = account.balance
    BY <1>7, <2>1, InvFacts
  <2> QED BY <1>1, <1>5, <1>6, <2>2, <2>3 DEF Promised, Promise!deskVars
<1> QED BY <1>2, <1>8, <1>9

(* and what it took is given back once.                                    *)
LEMMA ReturnSeen ==
  ASSUME CreationInv, DeskInv, NEW t \in Tasks, Creation!Return(t)
  PROVE  Promised
<1> DEFINE n == task[t].number
           a == Creation!Amount(t)
<1>1. /\ task[t].at = "post" /\ task[t].job = "refund"
      /\ account' = [account EXCEPT !.exists = TRUE, !.balance = @ + a]
      /\ ledger' = [ledger EXCEPT ![n].reversal = a]
      /\ task' = [task EXCEPT ![t] = Creation!Idle]
      /\ UNCHANGED <<keys, coupons, sequence, bookings>>
  BY DEF Creation!Return, Creation!Deposit
<1>2. /\ n \in 1..sequence /\ n \in Creation!RowIds /\ bookings[n].status = "CANCELLED"
      /\ ledger[n].reversal = 0
  BY <1>1, InvFacts DEF EffectInv
<1>3. a = ledger[n].redeem
  BY <1>1, <1>2 DEF Creation!Amount
<1>0. ~bookings[n].exhausted
  BY <1>1, <1>2 DEF DeskInv, GivenUpInv
<1> HIDE DEF n, a
<1>4. Idles(t)
  BY <1>1, IdleEffect, TaskFacts
<1>5. DeskInv'
  BY <1>1, <1>4, MovesSent DEF Moves, Idles
<1>6. KeptAnswers' = KeptAnswers /\ AnswersDue' = AnswersDue
  <2>1. \A u \in Tasks : task'[u] = task[u]
                         \/ (task[u].at # "answered" /\ task'[u].at # "answered")
    BY <1>1, <1>4 DEF Idles, Others
  <2> QED BY <1>1, <2>1 DEF KeptAnswers, AnswersDue, Creation!Unset
<1>7. account'.balance = account.balance + a
  BY <1>1, InvFacts DEF Creation!TypeOK, Creation!AccountRow
<1>8. Promise!GiveBack(n)
  BY <1>0, <1>1, <1>2, <1>3, <1>6, <1>7 DEF Promise!GiveBack
<1>9. n \in Promise!RowIds
  BY <1>2 DEF Creation!RowIds, Promise!RowIds
<1> QED BY <1>5, <1>8, <1>9 DEF Promised, Promise!DeskNext

-----------------------------------------------------------------------------
(* A request is placed.                                                    *)

(* What a commit finds and writes: Place, with the mileage of the quote.   *)
LEMMA FinishSeen ==
  ASSUME CreationInv, DeskInv, NEW t \in Tasks, Creation!Finish(t)
  PROVE  Promised
<1> DEFINE r == task[t].request
           n == sequence + 1
           m == task[t].mileage
<1>1. /\ task[t].at = "finish" /\ task[t].number = n /\ n \in Creation!RowIds
      /\ Others(t) /\ task'[t].at = "answered" /\ task'[t].number = n
      /\ task'[t].job = task[t].job /\ task'[t].request = r
      /\ task'[t].discount = task[t].discount /\ task'[t].mileage = m
  BY FinishEffect DEF Finished, Goes
<1>2. /\ sequence' = n
      /\ bookings' = [bookings EXCEPT ![n] = Creation!Drafted(t)]
      /\ keys' = Creation!CompletedKey(t) /\ coupons' = Creation!UsedCoupon(t)
      /\ account' = [account EXCEPT !.balance = @ - Creation!Baht(t)]
      /\ ledger' = [ledger EXCEPT ![n].redeem = Creation!Baht(t)]
  BY <1>1 DEF Creation!Finish
<1>3. /\ r \in Requests /\ r.key \in Keys \cup {NoKey} /\ r.mileage \in Nat /\ r.fare \in Nat
      /\ m \in Nat /\ task[t].discount \in Nat
      /\ task[t].discount = Creation!CouponItem(r)
      /\ m <= 2 * r.mileage /\ (m > 0 => r.member)
      /\ r.coupon # NoCoupon => r.member
  BY <1>1, TaskFacts DEF DeskInv, SentInv, Quoted, Effects
<1>4. Promise!CouponWorth(r) = task[t].discount
  BY <1>3 DEF Promise!CouponWorth, Promise!Least, Creation!CouponItem, Creation!Lesser
<1>5. Promise!WholeBaht(m) = Creation!Baht(t)
  BY DEF Promise!WholeBaht, Creation!Baht
<1>6. Creation!Drafted(t) = Promise!Made(r, m)
  BY <1>4 DEF Creation!Drafted, Promise!Made
<1>7. account'.balance = account.balance - Promise!WholeBaht(m)
  BY <1>2, <1>5, FinishEffect DEF Finished
<1>8. Promise!MayTake(r, m)
  <2>1. m <= r.fare - Promise!CouponWorth(r)
    BY <1>1, <1>3, <1>4, InvFacts DEF TaskInv, Charged, Quoted
  <2>2. account.balance >= Promise!WholeBaht(m)
    <3>1. Creation!Baht(t) \in Nat
      BY BahtType
    <3>2. account.balance >= 0
      BY DEF CreationInv, BalanceInv
    <3> QED BY <1>1, <1>5, <3>1, <3>2, InvFacts DEF TaskInv, HoldsAccount
  <2> QED BY <1>3, <2>1, <2>2 DEF Promise!MayTake
<1>9. r.key # NoKey =>
        /\ r.key \in Keys /\ keys[r.key].status = "PENDING"
        /\ keys[r.key].body = r.body /\ ~keys[r.key].expired
        /\ KeptAnswers[r.key] = Promise!NotKept
  <2> SUFFICES ASSUME r.key # NoKey
               PROVE  /\ r.key \in Keys /\ keys[r.key].status = "PENDING"
                      /\ keys[r.key].body = r.body /\ ~keys[r.key].expired
                      /\ KeptAnswers[r.key] = Promise!NotKept
    OBVIOUS
  <2>1. r.key \in Keys /\ KeyInv(r.key)
    BY <1>3, InvFacts
  <2>2. lock[r.key] = t /\ lock[r.key] # NoTask
    BY <1>1, InvFacts, CreationAssumption DEF TaskInv, HoldsKey, Writing
  <2>3. keys[r.key].status = "PENDING" /\ keys[r.key].body = r.body /\ ~keys[r.key].expired
    BY <2>1, <2>2 DEF KeyInv
  <2>4. KeptAnswers[r.key] = Promise!NotKept
    BY <2>1, <2>3 DEF KeptAnswers, Promise!NotKept, Promise!AnyBody, Promise!Nobody,
       Creation!AnyBody, Creation!Unset
  <2> QED BY <2>1, <2>3, <2>4
<1>10. Promise!MayPlace(r)
  <2>1. sequence < MaxBookings
    BY <1>1, InvFacts DEF TaskInv, HoldsSequence, Numbered
  <2>2. r.key # NoKey => KeptAnswers[r.key].booking = Promise!Nobody
    BY <1>9 DEF Promise!NotKept
  <2>3. r.coupon # NoCoupon => r.member /\ coupons[r.coupon].status = "AVAILABLE"
    BY <1>1, <1>3, InvFacts DEF TaskInv, HoldsCoupon
  <2> QED BY <2>1, <2>2, <2>3 DEF Promise!MayPlace
<1>11. Promise!Keep(r, n)
  <2>1. CASE r.key = NoKey
    BY <1>2, <2>1 DEF Creation!CompletedKey, KeptAnswers, Promise!Keep
  <2>2. CASE r.key # NoKey
    <3> DEFINE row == [keys[r.key] EXCEPT !.status = "COMPLETED", !.booking = n]
    <3>1. keys' = [keys EXCEPT ![r.key] = row]
      BY <1>1, <1>2, <2>2 DEF Creation!CompletedKey
    <3>2. row.status = "COMPLETED" /\ row.booking = n /\ row.body = r.body /\ row.expired = FALSE
      BY <1>9, <2>2, InvFacts DEF Creation!KeyRow
    <3> HIDE DEF row
    <3>3. keys'[r.key] = row /\ \A j \in Keys \ {r.key} : keys'[j] = keys[j]
      BY <1>9, <2>2, <3>1, InvFacts
    <3>4. KeptAnswers' = [KeptAnswers EXCEPT ![r.key] =
                            [body |-> r.body, booking |-> n, expired |-> FALSE]]
      BY <1>9, <2>2, <3>2, <3>3, KeptChanges
    <3> QED BY <2>2, <3>4 DEF Promise!Keep
  <2> QED BY <2>1, <2>2
<1>12. Promise!Use(r, n)
  BY <1>1, <1>2 DEF Promise!Use, Creation!UsedCoupon
<1>13. AnswersDue' = [AnswersDue EXCEPT ![t] = n]
  BY <1>1, AnswerChanges
<1>14. AnswersDue[t] = Promise!Nobody
  BY <1>1, NoAnswerDue
<1>15. m \in 0..2 * r.mileage
  BY <1>3
<1>16. DeskInv'
  <2>1. SentInv(t)'
    BY <1>1, <1>3 DEF SentInv, Quoted
  <2>2. ASSUME NEW u \in Tasks
        PROVE  SentInv(u)'
    <3>1. CASE u = t
      BY <2>1, <3>1
    <3>2. CASE u # t
      <4>1. SentInv(u) /\ task'[u] = task[u]
        BY <1>1, <3>2 DEF DeskInv, Others
      <4> QED BY <4>1 DEF SentInv, Creation!CouponItem
    <3> QED BY <3>1, <3>2
  <2>3. ASSUME NEW k \in Creation!RowIds
        PROVE  GivenUpInv(k)'
    <3>1. CASE k = n
      <4>1. bookings'[n] = Creation!Drafted(t)
        BY <1>1, <1>2, InvFacts
      <4>2. ~bookings'[n].exhausted
        BY <4>1 DEF Creation!Drafted
      <4> QED BY <3>1, <4>2 DEF GivenUpInv
    <3>2. CASE k # n
      <4>1. GivenUpInv(k) /\ bookings'[k] = bookings[k]
        BY <1>2, <3>2, InvFacts DEF DeskInv
      <4>2. task[t].job # "refund"
        BY <1>1, NoEffect DEF Effects
      <4> QED BY <1>1, <4>1, <4>2 DEF GivenUpInv, Others
    <3> QED BY <3>1, <3>2
  <2> QED BY <2>2, <2>3 DEF DeskInv, Creation!RowIds
<1> HIDE DEF r, m
<1>17. /\ bookings' = [bookings EXCEPT ![n] = Promise!Made(r, m)]
       /\ ledger' = [ledger EXCEPT ![n].redeem = Promise!WholeBaht(m)]
  BY <1>2, <1>5, <1>6
<1>18. Promise!Place(t, r)
  BY <1>2, <1>7, <1>8, <1>10, <1>11, <1>12, <1>13, <1>14, <1>15, <1>17 DEF Promise!Place
<1> QED BY <1>3, <1>16, <1>18 DEF Promised, Promise!DeskNext

-----------------------------------------------------------------------------
(* Every step of the creation is one of the desk's, or none.               *)
LEMMA EveryStepSeen ==
  ASSUME CreationInv, DeskInv, Creation!Next
  PROVE  Promised
<1>1. ASSUME NEW t \in Tasks, Creation!Step(t) \/ Creation!Deadlock(t) \/ Creation!Fail(t)
      PROVE  Promised
  <2>1. CASE Creation!Rollback(t) /\ task[t].at # "answered"
    BY <2>1, RollbackHidden
  <2>2. CASE \/ Creation!BeginNew(t) \/ Creation!TakeNumber(t) \/ Creation!FirstNumber(t)
             \/ Creation!WriteBooking(t) \/ Creation!Redeem(t)
    BY <2>2, StatementHidden
  <2>3. CASE \/ Creation!InsertPending(t) \/ Creation!Quote(t)
             \/ Creation!Skip(t) \/ Creation!LockAccount(t) \/ Creation!OpenAccount(t)
    BY <2>3, PendingHidden, QuoteHidden, EffectHidden
  <2>4. CASE \/ Creation!Replay(t) \/ Creation!Finish(t) \/ Creation!Answer(t)
             \/ Creation!Credit(t) \/ Creation!Return(t)
    BY <2>4, ReplaySeen, FinishSeen, AnswerSeen, CreditSeen, ReturnSeen
  <2>5. (Creation!Deadlock(t) \/ Creation!Fail(t)) =>
          Creation!Rollback(t) /\ task[t].at # "answered"
    BY DEF Creation!Deadlock, Creation!Fail, Creation!Inserting
  <2>6. (Creation!RefuseKey(t) \/ Creation!RefuseQuote(t) \/ Creation!RefuseCoupon(t)
           \/ Creation!RefuseRedemption(t)) =>
          Creation!Rollback(t) /\ task[t].at # "answered"
    BY DEF Creation!RefuseKey, Creation!RefuseQuote, Creation!RefuseCoupon,
           Creation!RefuseRedemption
  <2> QED BY <1>1, <2>1, <2>2, <2>3, <2>4, <2>5, <2>6 DEF Creation!Step
<1>2. CASE \E t \in Tasks, r \in Requests : Creation!Start(t, r)
  BY <1>2, StartHidden
<1>3. CASE \E t \in Tasks, n \in Creation!RowIds : Creation!EndTrip(t, n) \/ Creation!Cancel(t, n)
  BY <1>3, EndSeen
<1>4. CASE \E n \in Creation!RowIds : Creation!Exhaust(n)
  BY <1>4, ExhaustSeen
<1>5. CASE \E c \in Coupons : Creation!IssueCoupon(c) \/ Creation!CancelCoupon(c)
  BY <1>5, CouponSeen
<1>6. CASE \E k \in Keys : Creation!Expire(k) \/ Creation!Cleanup(k)
  BY <1>6, ExpireSeen, CleanupSeen
<1>7. CASE Creation!Crash
  BY <1>7, CrashSeen
<1> QED BY <1>1, <1>2, <1>3, <1>4, <1>5, <1>6, <1>7 DEF Creation!Next

(* A step of another part is none of the desk's.                           *)
LEMMA RestUnseen ==
  ASSUME CreationInv, DeskInv, CreationRests
  PROVE  Promised
<1>1. UNCHANGED <<keys, coupons, sequence, bookings, account, ledger, task>>
  BY DEF CreationRests, creationVars
<1>2. DeskInv'
  BY <1>1 DEF DeskInv, SentInv, GivenUpInv, Creation!CouponItem, Creation!RowIds
<1> QED BY <1>1, <1>2 DEF Promised, Promise!deskVars, KeptAnswers, AnswersDue

(* The creation starts with an empty desk.                                 *)
LEMMA DeskStarts ==
  ASSUME Creation!Init
  PROVE  DeskInv /\ Promise!DeskInit
<1>1. \A t \in Tasks : task[t].at = "idle"
  BY DEF Creation!Init, Creation!Idle
<1>2. \A n \in Creation!RowIds : ~bookings[n].exhausted
  BY DEF Creation!Init, Creation!NoBooking
<1>3. DeskInv
  BY <1>1, <1>2 DEF DeskInv, SentInv, GivenUpInv, Quoted
<1>4. KeptAnswers = [k \in Keys |-> Promise!NotKept]
  BY DEF Creation!Init, KeptAnswers, Creation!NoRow, Promise!NotKept, Promise!AnyBody,
         Promise!Nobody, Creation!AnyBody, Creation!Unset
<1>5. AnswersDue = [t \in Tasks |-> Promise!Nobody]
  BY <1>1 DEF AnswersDue, Creation!Unset, Promise!Nobody
<1>6. account.balance \in Balances \cup {0}
  BY DEF Creation!Init
<1>7. /\ coupons = [c \in Coupons |-> [status |-> "NONE", booking |-> Promise!Nobody]]
      /\ sequence = 0
      /\ bookings = [n \in Promise!RowIds |->
           [status |-> "NONE", key |-> NoKey, body |-> Promise!AnyBody, member |-> FALSE,
            coupon |-> NoCoupon, discount |-> 0, mileage |-> 0, total |-> 0,
            exhausted |-> FALSE, recent |-> FALSE]]
      /\ ledger = [n \in Promise!RowIds |-> [redeem |-> 0, reversal |-> 0, accrue |-> 0]]
  BY DEF Creation!Init, Creation!NoBooking, Creation!NoLedger, Creation!RowIds,
         Promise!RowIds, Creation!AnyBody, Promise!AnyBody, Creation!Unset, Promise!Nobody
<1>8. Promise!DeskInit
  BY <1>4, <1>5, <1>6, <1>7 DEF Promise!DeskInit
<1> QED BY <1>3, <1>8

(* However concurrent requests interleave, and whatever fails or crashes   *)
(* between their statements, customers see the steps of BookingDesk: a     *)
(* request is placed at once, with everything it spends, or not at all.    *)
THEOREM BookingsAreMadeAtOnce == BookingsSpec => CreationIsAtomic
<1>1. BookingsInit => DeskInv /\ Promise!DeskInit
  BY DeskStarts DEF BookingsInit
<1>2. CreationInv /\ DeskInv /\ [BookingsNext]_bookingsVars => Promised
  BY CreationStepOrRest, EveryStepSeen, RestUnseen
<1>3. CreationInv /\ DeskInv /\ [BookingsNext]_bookingsVars =>
        DeskInv' /\ [Promise!DeskNext]_(Promise!deskVars)
  BY <1>2 DEF Promised
<1> QED BY <1>1, <1>3, CreationInvariance, PTL DEF BookingsSpec, CreationIsAtomic, Promise!Desk

-----------------------------------------------------------------------------
(* The calls of customers' bookings.                                       *)

(* A request that holds the named lock.                                    *)
Section == {"locked", "checked", "read", "committed", "sent", "marking"}

(* What a request that dispatches has read of the metadata still holds of  *)
(* the markers, since only who holds the lock writes these, and what it    *)
(* has done is marked or about to be.                                      *)
DispatchInv(t) ==
  /\ request[t].pc \in Section <=> namedLock = t
  /\ request[t].pc = "read" =>
       /\ request[t].seen.completed = booking.metadata.completed
       /\ request[t].seen.delivered = booking.metadata.delivered
  /\ request[t].pc = "committed" =>
       booking.metadata.completed /\ (~request[t].seen.completed => broadcasts = 0)
  /\ request[t].pc = "sent" => booking.metadata.completed /\ attempted
  /\ request[t].pc = "marking" =>
       booking.metadata.completed /\ request[t].seen.completed /\ attempted

ContactInv ==
  /\ Contact!TypeOK
  /\ \A t \in Tasks : DispatchInv(t)
  /\ Contact!CalledOnce /\ Contact!MarkersTellTruth
  /\ Contact!SnapshotMatchesConnection

(* The booking and its metadata as the rows that a step leaves.            *)
MarkersStand ==
  /\ booking'.metadata.completed = booking.metadata.completed
  /\ booking'.metadata.delivered = booking.metadata.delivered
  /\ calls' = calls /\ broadcasts' = broadcasts /\ attempted' = attempted
ContactStands ==
  /\ connections' = connections
  /\ booking'.contact = booking.contact /\ booking'.channel = booking.channel

(* A step that leaves the connections and the booking's contact keeps the  *)
(* snapshot.                                                               *)
LEMMA SnapshotStands ==
  ASSUME Contact!SnapshotMatchesConnection, ContactStands
  PROVE  Contact!SnapshotMatchesConnection'
  BY DEF Contact!SnapshotMatchesConnection, ContactStands, Contact!Active, Contact!IsActive,
         Contact!OneActive

(* A step that leaves the markers and what was called keeps what they say. *)
LEMMA MarkersHold ==
  ASSUME ContactInv, MarkersStand
  PROVE  Contact!CalledOnce' /\ Contact!MarkersTellTruth'
  BY DEF ContactInv, MarkersStand, Contact!CalledOnce, Contact!MarkersTellTruth

(* The types of the booking, its connections and the requests.             *)
LEMMA BookingType ==
  ASSUME ContactInv
  PROVE  /\ booking \in Contact!Booking /\ booking.metadata \in Contact!Metadata
         /\ booking.metadata.messenger \in Messengers /\ booking.phone \in Phones
         /\ booking.metadata.completed \in BOOLEAN /\ booking.metadata.delivered \in BOOLEAN
         /\ connections \in Seq(Contact!Connection)
         /\ request \in [Tasks -> Contact!Task]
         /\ broadcasts \in Nat /\ attempted \in BOOLEAN
         /\ calls \in SUBSET Drivers /\ eligible \in SUBSET Drivers
         /\ \A t \in Tasks : request[t].seen \in Contact!Metadata
                             /\ request[t].drivers \in SUBSET Drivers
         /\ \A m \in Messengers : Contact!ResolveChannel(m) \in Channels
  BY ContactAssumption DEF ContactInv, Contact!TypeOK, Contact!Booking, Contact!Metadata,
     Contact!Task, Contact!ResolveChannel

(* The active row of a booking that has one: the guard of the table leaves *)
(* no other.                                                               *)
LEMMA ActiveRowIs ==
  ASSUME ContactInv, Contact!Active # {}
  PROVE  /\ Contact!ActiveRow \in 1..Len(connections)
         /\ Contact!ActiveRow \in Contact!Active
<1>1. DOMAIN connections = 1..Len(connections) /\ Len(connections) \in Nat
  BY BookingType, LenProperties
<1>2. PICK i : i \in Contact!Active
  OBVIOUS
<1>3. \A j \in Contact!Active : j = i
  BY <1>1, <1>2
     DEF ContactInv, Contact!SnapshotMatchesConnection, Contact!OneActive, Contact!Active
<1>4. i \in 1..Len(connections)
  BY <1>2 DEF Contact!Active
<1>5. i <= i
  BY <1>1, <1>4
<1>6. Contact!ActiveRow \in Contact!Active
  BY <1>2, <1>3, <1>5 DEF Contact!ActiveRow
<1> QED BY <1>6 DEF Contact!Active

(* Replacing one row of a list.                                            *)
LEMMA RowReplaced ==
  ASSUME NEW S, NEW q \in Seq(S), NEW i \in 1..Len(q), NEW e \in S
  PROVE  /\ [q EXCEPT ![i] = e] \in Seq(S)
         /\ Len([q EXCEPT ![i] = e]) = Len(q)
         /\ \A j \in 1..Len(q) : [q EXCEPT ![i] = e][j] = IF j = i THEN e ELSE q[j]
BY ExceptSeq

(* A booking's active row takes another active status, with the booking.   *)
LEMMA RowFollows ==
  ASSUME ContactInv, Contact!Active # {},
         NEW status \in {"CONFIRM_REQUESTED", "VERIFIED"},
         connections' = [connections EXCEPT ![Contact!ActiveRow].status = status],
         booking' = [booking EXCEPT !.contact = status,
                                    !.channel = connections[Contact!ActiveRow].channel]
  PROVE  /\ connections' \in Seq(Contact!Connection) /\ booking' \in Contact!Booking
         /\ Contact!SnapshotMatchesConnection'
         /\ booking'.metadata = booking.metadata /\ booking'.status = booking.status
<1> DEFINE a == Contact!ActiveRow
           row == [connections[a] EXCEPT !.status = status]
<1>1. a \in 1..Len(connections) /\ a \in Contact!Active
  BY ActiveRowIs
<1>2. connections[a] \in Contact!Connection
  BY <1>1, BookingType, ElementOfSeq
<1>3. row \in Contact!Connection /\ row.status = status /\ row.channel = connections[a].channel
  BY <1>2 DEF Contact!Connection, Contact!ContactStatus
<1>4. connections' = [connections EXCEPT ![a] = row]
  OBVIOUS
<1> HIDE DEF row
<1>5. /\ connections' \in Seq(Contact!Connection) /\ Len(connections') = Len(connections)
      /\ \A j \in 1..Len(connections) :
           connections'[j] = IF j = a THEN row ELSE connections[j]
  <2> HIDE DEF a
  <2>1. connections \in Seq(Contact!Connection)
    BY BookingType
  <2>2. /\ [connections EXCEPT ![a] = row] \in Seq(Contact!Connection)
        /\ Len([connections EXCEPT ![a] = row]) = Len(connections)
        /\ \A j \in 1..Len(connections) :
             [connections EXCEPT ![a] = row][j] = IF j = a THEN row ELSE connections[j]
    BY <1>1, <1>3, <2>1, RowReplaced
  <2> QED BY <1>4, <2>2, Zenon
<1>6. DOMAIN connections = 1..Len(connections) /\ DOMAIN connections' = 1..Len(connections)
  BY <1>5, BookingType, LenProperties
<1>7. \A j \in 1..Len(connections) :
        Contact!IsActive(connections'[j]) <=> Contact!IsActive(connections[j])
  BY <1>1, <1>3, <1>5 DEF Contact!IsActive, Contact!Active, Contact!ContactStatus
<1>8. Contact!OneActive(connections)'
  BY <1>6, <1>7 DEF ContactInv, Contact!SnapshotMatchesConnection, Contact!OneActive
<1>9. connections[a].channel \in Channels
  BY <1>2 DEF Contact!Connection
<1>10. /\ booking' \in Contact!Booking /\ booking'.contact = status
       /\ booking'.channel = connections[a].channel
       /\ booking'.metadata = booking.metadata /\ booking'.status = booking.status
  BY <1>9, BookingType DEF Contact!Booking, Contact!ContactStatus
<1>11. \E i \in Contact!Active' : /\ connections'[i].status = booking'.contact
                                  /\ connections'[i].channel = booking'.channel
  <2>1. a \in Contact!Active'
    BY <1>1, <1>5, <1>7 DEF Contact!Active
  <2>2. connections'[a] = row
    BY <1>1, <1>5
  <2> QED BY <1>3, <1>10, <2>1, <2>2
<1>12. Contact!SnapshotMatchesConnection'
  BY <1>8, <1>11 DEF Contact!SnapshotMatchesConnection
<1> QED BY <1>5, <1>10, <1>12

-----------------------------------------------------------------------------
(* Steps that leave every request where it is.                             *)
LEMMA RequestsStand ==
  ASSUME ContactInv, Contact!TypeOK', MarkersStand, request' = request,
         namedLock' = namedLock, Contact!SnapshotMatchesConnection'
  PROVE  ContactInv'
<1>1. \A t \in Tasks : DispatchInv(t)'
  BY DEF ContactInv, DispatchInv, MarkersStand
<1> QED BY <1>1, MarkersHold DEF ContactInv

(* A connection is opened only where none is active.                       *)
LEMMA StartConnectionStep ==
  ASSUME ContactInv, Contact!StartConnection
  PROVE  ContactInv'
<1> DEFINE cs == Contact!CancelActive(connections)
           new == [channel |-> Contact!ResolveChannel(booking.metadata.messenger),
                   status |-> "PENDING"]
<1>1. cs \in Seq(Contact!Connection)
  <2>1. connections \in [1..Len(connections) -> Contact!Connection]
        /\ Len(connections) \in Nat /\ DOMAIN connections = 1..Len(connections)
    BY BookingType, LenProperties
  <2>2. ASSUME NEW c \in Contact!Connection
        PROVE  [c EXCEPT !.status = "CANCELLED"] \in Contact!Connection
    BY DEF Contact!Connection
  <2>3. cs \in [1..Len(connections) -> Contact!Connection]
    BY <2>1, <2>2 DEF Contact!CancelActive
  <2> QED BY <2>1, <2>3, SeqDef
<1>2. new \in Contact!Connection
  BY BookingType DEF Contact!Connection, Contact!ContactStatus
<1>3. /\ connections' = Append(cs, new) /\ Contact!OneActive(connections')
      /\ booking' = [booking EXCEPT !.contact = "PENDING",
                       !.channel = Contact!ResolveChannel(booking.metadata.messenger)]
      /\ UNCHANGED <<calls, eligible, namedLock, request, page, saved, broadcasts, attempted,
                     customerEdits, contactFaults>>
  BY DEF Contact!StartConnection, Contact!history
<1> HIDE DEF cs, new
<1>4. connections' \in Seq(Contact!Connection)
  BY <1>1, <1>2, <1>3
<1>5. booking' \in Contact!Booking /\ booking'.contact = "PENDING"
      /\ booking'.metadata = booking.metadata
  BY <1>3, BookingType DEF Contact!Booking, Contact!ContactStatus
<1>6. Contact!TypeOK'
  BY <1>3, <1>4, <1>5 DEF ContactInv, Contact!TypeOK
<1>7. Contact!SnapshotMatchesConnection'
  BY <1>3, <1>5 DEF Contact!SnapshotMatchesConnection
<1> QED BY <1>3, <1>5, <1>6, <1>7, RequestsStand DEF MarkersStand

(* The customer's confirmation moves the active row and the booking.       *)
LEMMA ConfirmSentStep ==
  ASSUME ContactInv, Contact!ConfirmSent
  PROVE  ContactInv'
<1>1. /\ Contact!Active # {}
      /\ connections' = [connections EXCEPT ![Contact!ActiveRow].status = "CONFIRM_REQUESTED"]
      /\ booking' = [booking EXCEPT !.contact = "CONFIRM_REQUESTED",
                                    !.channel = connections[Contact!ActiveRow].channel]
      /\ UNCHANGED <<calls, eligible, namedLock, request, page, saved, broadcasts, attempted,
                     customerEdits, contactFaults>>
  BY DEF Contact!ConfirmSent, Contact!history
<1>2. /\ connections' \in Seq(Contact!Connection) /\ booking' \in Contact!Booking
      /\ Contact!SnapshotMatchesConnection' /\ booking'.metadata = booking.metadata
  BY <1>1, RowFollows
<1>3. Contact!TypeOK'
  BY <1>1, <1>2 DEF ContactInv, Contact!TypeOK
<1> QED BY <1>1, <1>2, <1>3, RequestsStand DEF MarkersStand

(* The form, the drivers' eligibility, and the steps of other components.  *)
LEMMA FormStep ==
  ASSUME ContactInv,
         Contact!OpenForm \/ Contact!ChangeEligible \/ UNCHANGED contactVars
  PROVE  ContactInv'
<1>1. /\ booking' = booking /\ connections' = connections /\ calls' = calls
      /\ request' = request /\ namedLock' = namedLock
      /\ UNCHANGED <<saved, broadcasts, attempted, customerEdits, contactFaults>>
      /\ eligible' \in SUBSET Drivers /\ page' \in Contact!Details
  BY BookingType DEF Contact!OpenForm, Contact!ChangeEligible, contactVars, Contact!rows,
     Contact!history, Contact!DetailsOf, Contact!Details, ContactInv, Contact!TypeOK
<1>2. Contact!TypeOK'
  BY <1>1 DEF ContactInv, Contact!TypeOK
<1>3. Contact!SnapshotMatchesConnection'
  BY <1>1, SnapshotStands DEF ContactStands, ContactInv
<1> QED BY <1>1, <1>2, <1>3, RequestsStand DEF MarkersStand

(* An edit writes the metadata it has just read: the markers stay.         *)
LEMMA EditStep ==
  ASSUME ContactInv, NEW d \in Contact!Details, Contact!Edit(d)
  PROVE  ContactInv'
<1> DEFINE m == [booking.metadata EXCEPT !.messenger = d.messenger]
<1>1. m \in Contact!Metadata /\ m.completed = booking.metadata.completed
      /\ m.delivered = booking.metadata.delivered
  BY BookingType DEF Contact!Metadata, Contact!Details
<1>2. /\ booking' = [booking EXCEPT !.phone = d.phone, !.metadata = m, !.contact = "PENDING",
                                    !.channel = Contact!ResolveChannel(d.messenger)]
      /\ page' = d /\ saved' = d
      /\ customerEdits' = customerEdits + 1 /\ customerEdits < MaxCustomerEdits
      /\ UNCHANGED <<connections, calls, eligible, namedLock, request, broadcasts, attempted,
                     contactFaults>>
  BY BookingType DEF Contact!Edit, Contact!Booking
<1> HIDE DEF m
<1>3. /\ booking' \in Contact!Booking /\ booking'.contact = "PENDING" /\ booking'.metadata = m
  BY <1>1, <1>2, BookingType DEF Contact!Booking, Contact!ContactStatus, Contact!Details
<1>4. Contact!TypeOK'
  BY <1>2, <1>3, ContactAssumption DEF ContactInv, Contact!TypeOK
<1>5. Contact!SnapshotMatchesConnection'
  BY <1>2, <1>3 DEF ContactInv, Contact!SnapshotMatchesConnection
<1> QED BY <1>1, <1>2, <1>3, <1>4, <1>5, RequestsStand DEF MarkersStand

(* The booking's status moves without its contact or its markers.          *)
LEMMA StatusStep ==
  ASSUME ContactInv,
         \/ Contact!AssignDriver \/ Contact!ReopenBooking \/ Contact!PickUp
         \/ Contact!CancelBooking
  PROVE  ContactInv'
<1>1. PICK s \in {"OPEN", "DRIVER_ASSIGNED", "PICKED_UP", "CANCELLED"} :
        Contact!SetStatus(s)
  BY DEF Contact!AssignDriver, Contact!ReopenBooking, Contact!PickUp, Contact!CancelBooking
<1>2. /\ booking' = [booking EXCEPT !.status = s]
      /\ UNCHANGED <<connections, calls, eligible, namedLock, request, page, saved, broadcasts,
                     attempted, customerEdits, contactFaults>>
  BY <1>1 DEF Contact!SetStatus, Contact!history
<1>3. /\ booking' \in Contact!Booking /\ booking'.metadata = booking.metadata
      /\ booking'.contact = booking.contact /\ booking'.channel = booking.channel
  BY <1>2, BookingType DEF Contact!Booking
<1>4. Contact!TypeOK'
  BY <1>2, <1>3 DEF ContactInv, Contact!TypeOK
<1>5. Contact!SnapshotMatchesConnection'
  BY <1>2, <1>3, SnapshotStands DEF ContactStands, ContactInv
<1> QED BY <1>2, <1>3, <1>4, <1>5, RequestsStand DEF MarkersStand

-----------------------------------------------------------------------------
(* Steps of one request.                                                   *)

(* A request is s now, the others are where they were.                     *)
Turns(t, s) ==
  /\ request' \in [Tasks -> Contact!Task] /\ request'[t] = s
  /\ \A u \in Tasks \ {t} : request'[u] = request[u]

(* A request replaced in the table of requests.                            *)
LEMMA PutRequest ==
  ASSUME ContactInv, NEW t \in Tasks, NEW s \in Contact!Task,
         request' = [request EXCEPT ![t] = s]
  PROVE  Turns(t, s)
  BY BookingType DEF Turns

(* A request that is free is one of the model's.                           *)
LEMMA FreeType ==
  ASSUME ContactInv
  PROVE  Contact!Free \in Contact!Task /\ Contact!Free.pc = "free"
<1>1. [messenger |-> DefaultChannel, completed |-> FALSE, delivered |-> FALSE] \in Contact!Metadata
  BY ContactAssumption DEF Contact!Metadata
<1> QED BY <1>1 DEF Contact!Free, Contact!Task

(* Of the rows a step of one request leaves alone what the others rely on: *)
(* those outside their section rely on nothing.                            *)
LEMMA OneRequest ==
  ASSUME ContactInv, NEW t \in Tasks, NEW s, Turns(t, s), Contact!TypeOK', DispatchInv(t)',
         namedLock # t => MarkersStand, namedLock' \in {namedLock, t, None},
         namedLock \in Tasks \ {t} => namedLock' = namedLock,
         namedLock' = None => namedLock \in {t, None},
         Contact!CalledOnce', Contact!MarkersTellTruth', Contact!SnapshotMatchesConnection'
  PROVE  ContactInv'
<1>1. ASSUME NEW u \in Tasks, u # t
      PROVE  DispatchInv(u)'
  <2>1. request'[u] = request[u] /\ DispatchInv(u)
    BY <1>1 DEF Turns, ContactInv
  <2>2. namedLock' = u <=> namedLock = u
    BY <1>1, ContactAssumption
  <2>3. CASE namedLock = u
    BY <1>1, <2>1, <2>2, <2>3 DEF MarkersStand, DispatchInv, Section
  <2>4. CASE namedLock # u
    BY <2>1, <2>2, <2>4 DEF DispatchInv, Section
  <2> QED BY <2>3, <2>4
<1> QED BY <1>1 DEF ContactInv

(* A request comes in, or is not dispatched: it has not got the lock yet.  *)
LEMMA AskStep ==
  ASSUME ContactInv, NEW t \in Tasks,
         \/ Contact!Verify(t) \/ Contact!VerifyAgain(t) \/ Contact!RetryDispatch(t)
  PROVE  ContactInv'
<1>1. /\ request[t].pc = "free" /\ MarkersStand /\ namedLock' = namedLock
      /\ connections' \in Seq(Contact!Connection) /\ booking' \in Contact!Booking
      /\ Contact!SnapshotMatchesConnection'
      /\ UNCHANGED <<calls, eligible, page, saved, broadcasts, attempted, customerEdits,
                     contactFaults>>
  <2>1. CASE Contact!Verify(t)
    <3>1. /\ Contact!Active # {}
          /\ connections' = [connections EXCEPT ![Contact!ActiveRow].status = "VERIFIED"]
          /\ booking' = [booking EXCEPT !.contact = "VERIFIED",
                                        !.channel = connections[Contact!ActiveRow].channel]
      BY <2>1 DEF Contact!Verify
    <3>2. /\ connections' \in Seq(Contact!Connection) /\ booking' \in Contact!Booking
          /\ Contact!SnapshotMatchesConnection' /\ booking'.metadata = booking.metadata
      BY <3>1, RowFollows
    <3> QED BY <2>1, <3>2 DEF Contact!Verify, MarkersStand, Contact!history
  <2>2. CASE Contact!VerifyAgain(t) \/ Contact!RetryDispatch(t)
    <3>1. booking' = booking /\ connections' = connections
      BY <2>2 DEF Contact!VerifyAgain, Contact!RetryDispatch, Contact!rows
    <3> QED BY <2>2, <3>1, BookingType, SnapshotStands
            DEF Contact!VerifyAgain, Contact!RetryDispatch, MarkersStand, Contact!history,
                Contact!rows, ContactStands, ContactInv
  <2> QED BY <2>1, <2>2
<1>2. PICK strict \in BOOLEAN :
        \/ request' = request
        \/ request' = [request EXCEPT ![t] = [Contact!Free EXCEPT !.pc = "asked",
                                                                 !.strict = strict]]
  BY DEF Contact!Verify, Contact!VerifyAgain, Contact!RetryDispatch, Contact!Proceed
<1>3. PICK s \in Contact!Task : /\ s.pc \in {"free", "asked"} /\ Turns(t, s)
  <2>1. CASE request' = request
    <3>1. Turns(t, request[t])
      BY <2>1, BookingType DEF Turns
    <3> QED BY <1>1, <3>1, BookingType
  <2>2. CASE request' = [request EXCEPT ![t] = [Contact!Free EXCEPT !.pc = "asked",
                                                                   !.strict = strict]]
    <3> DEFINE s == [Contact!Free EXCEPT !.pc = "asked", !.strict = strict]
    <3>1. ASSUME NEW c \in Contact!Task
          PROVE  LET d == [c EXCEPT !.pc = "asked", !.strict = strict]
                 IN  d \in Contact!Task /\ d.pc = "asked"
      BY DEF Contact!Task
    <3>2. s \in Contact!Task /\ s.pc = "asked"
      BY <3>1, FreeType
    <3>3. request' = [request EXCEPT ![t] = s]
      BY <2>2
    <3> HIDE DEF s
    <3>4. Turns(t, s)
      BY <3>2, <3>3, PutRequest
    <3> QED BY <3>2, <3>4
  <2> QED BY <1>2, <2>1, <2>2
<1>4. Contact!TypeOK'
  BY <1>1, <1>3 DEF ContactInv, Contact!TypeOK, Turns
<1>5. DispatchInv(t)'
  BY <1>1, <1>3 DEF ContactInv, DispatchInv, Section, Turns
<1>6. Contact!CalledOnce' /\ Contact!MarkersTellTruth'
  BY <1>1, MarkersHold
<1> QED BY <1>1, <1>3, <1>4, <1>5, <1>6, OneRequest

(* The lock is given up, and the request is over.                          *)
LEMMA OverStep ==
  ASSUME ContactInv, NEW t \in Tasks, Contact!Finish(t), MarkersStand, ContactStands,
         booking' \in Contact!Booking, customerEdits' = customerEdits,
         Contact!Release(t) \/ (namedLock' = namedLock /\ request[t].pc \notin Section),
         UNCHANGED <<eligible, page, saved>>, contactFaults' \in 0..MaxFaults
  PROVE  ContactInv'
<1>1. Turns(t, Contact!Free)
  BY FreeType, PutRequest DEF Contact!Finish
<1>2. DispatchInv(t)
  BY DEF ContactInv
<1>3. namedLock' # t /\ namedLock' \in {namedLock, None}
      /\ (namedLock # t => namedLock' = namedLock)
  BY <1>2, ContactAssumption DEF Contact!Release, DispatchInv
<1>4. Contact!TypeOK'
  BY <1>1, <1>3 DEF ContactInv, Contact!TypeOK, Turns, MarkersStand, ContactStands
<1>5. DispatchInv(t)'
  BY <1>1, <1>3, FreeType DEF DispatchInv, Section, Turns
<1>6. Contact!SnapshotMatchesConnection' /\ Contact!CalledOnce' /\ Contact!MarkersTellTruth'
  BY SnapshotStands, MarkersHold DEF ContactInv
<1>7. \/ namedLock' # None
      \/ namedLock \in {t, None}
  BY <1>3
<1> QED BY <1>1, <1>3, <1>4, <1>5, <1>6, <1>7, OneRequest

(* A request goes on without a change of the rows.                         *)
LEMMA OnStep ==
  ASSUME ContactInv, NEW t \in Tasks, NEW s \in Contact!Task, MarkersStand, ContactStands,
         request' = [request EXCEPT ![t] = s], DispatchInv(t)',
         booking' = booking, UNCHANGED <<eligible, page, saved, customerEdits, contactFaults>>,
         namedLock' = namedLock \/ (namedLock = None /\ namedLock' = t)
  PROVE  ContactInv'
<1>1. Turns(t, s)
  BY PutRequest
<1>2. Contact!TypeOK'
  BY <1>1 DEF ContactInv, Contact!TypeOK, Turns, MarkersStand, ContactStands
<1>3. Contact!SnapshotMatchesConnection' /\ Contact!CalledOnce' /\ Contact!MarkersTellTruth'
  BY SnapshotStands, MarkersHold DEF ContactInv
<1> QED BY <1>1, <1>2, <1>3, OneRequest, ContactAssumption

(* Setting a field of a request.                                           *)
LEMMA StepType ==
  ASSUME ContactInv, NEW t \in Tasks,
         NEW pc \in Section \cup {"free", "asked"}, Contact!Step(t, pc)
  PROVE  \E s \in Contact!Task : /\ request' = [request EXCEPT ![t] = s]
                                 /\ s.pc = pc /\ s.seen = request[t].seen
                                 /\ s.drivers = request[t].drivers /\ s.strict = request[t].strict
<1> DEFINE s == [request[t] EXCEPT !.pc = pc]
<1>1. s \in Contact!Task /\ s.pc = pc /\ s.seen = request[t].seen
      /\ s.drivers = request[t].drivers /\ s.strict = request[t].strict
  BY BookingType DEF Contact!Task, Section
<1>2. request' = [request EXCEPT ![t] = s]
  BY DEF Contact!Step
<1> HIDE DEF s
<1> QED BY <1>1, <1>2

(* A request gets the named lock only when nobody holds it.                *)
LEMMA LockStep ==
  ASSUME ContactInv, NEW t \in Tasks, Contact!Lock(t) \/ Contact!LockTimeout(t)
  PROVE  ContactInv'
<1>1. /\ booking' = booking /\ connections' = connections /\ MarkersStand /\ ContactStands
      /\ request[t].pc = "asked"
      /\ UNCHANGED <<eligible, page, saved, customerEdits, contactFaults>>
  BY DEF Contact!Lock, Contact!LockTimeout, Contact!rows, Contact!history, MarkersStand,
     ContactStands
<1>2. CASE Contact!Lock(t)
  <2>1. PICK s \in Contact!Task : request' = [request EXCEPT ![t] = s] /\ s.pc = "locked"
    BY <1>2, StepType DEF Contact!Lock, Section
  <2>2. namedLock = None /\ namedLock' = t
    BY <1>2 DEF Contact!Lock
  <2>3. request'[t] = s
    BY <2>1, BookingType
  <2>4. DispatchInv(t)'
    BY <2>1, <2>2, <2>3 DEF DispatchInv, Section
  <2> QED BY <1>1, <2>1, <2>2, <2>4, OnStep
<1>3. CASE Contact!LockTimeout(t)
  BY <1>1, <1>3, OverStep, BookingType DEF Contact!LockTimeout, Section, ContactInv, Contact!TypeOK
<1> QED BY <1>2, <1>3

(* What the holder of the lock reads under it.                             *)
LEMMA ReadStep ==
  ASSUME ContactInv, NEW t \in Tasks, Contact!Check(t) \/ Contact!ReadCall(t) \/ Contact!Reread(t)
  PROVE  ContactInv'
<1>1. /\ booking' = booking /\ connections' = connections /\ MarkersStand /\ ContactStands
      /\ request[t].pc \in {"locked", "checked", "sent"}
      /\ UNCHANGED <<eligible, page, saved, customerEdits, contactFaults>>
  BY DEF Contact!Check, Contact!ReadCall, Contact!Reread, Contact!rows, Contact!history,
     MarkersStand, ContactStands
<1>2. DispatchInv(t) /\ namedLock = t /\ Contact!MarkersTellTruth
  BY <1>1 DEF ContactInv, DispatchInv, Section
<1>3. CASE Contact!Finish(t) /\ Contact!Release(t)
  BY <1>1, <1>3, OverStep, BookingType DEF ContactInv, Contact!TypeOK
<1>4. CASE Contact!Check(t) /\ Contact!Step(t, "checked") /\ namedLock' = namedLock
  <2>1. PICK s \in Contact!Task : request' = [request EXCEPT ![t] = s] /\ s.pc = "checked"
    BY <1>4, StepType DEF Section
  <2>2. request'[t] = s
    BY <2>1, BookingType
  <2>3. DispatchInv(t)'
    BY <1>2, <1>4, <2>1, <2>2 DEF DispatchInv, Section
  <2> QED BY <1>1, <1>4, <2>1, <2>3, OnStep
<1>5. CASE /\ Contact!ReadCall(t) /\ namedLock' = namedLock
           /\ request' = [request EXCEPT ![t] = [@ EXCEPT !.pc = "read",
                                                 !.seen = booking.metadata,
                                                 !.drivers = eligible]]
  <2> DEFINE s == [request[t] EXCEPT !.pc = "read", !.seen = booking.metadata,
                                     !.drivers = eligible]
  <2>1. s \in Contact!Task /\ s.pc = "read" /\ s.seen = booking.metadata
    BY BookingType DEF Contact!Task
  <2>2. request' = [request EXCEPT ![t] = s]
    BY <1>5
  <2> HIDE DEF s
  <2>3. request'[t] = s
    BY <2>2, BookingType
  <2>4. DispatchInv(t)'
    BY <1>1, <1>2, <1>5, <2>1, <2>3 DEF DispatchInv, Section
  <2> QED BY <1>1, <1>5, <2>1, <2>2, <2>4, OnStep
<1>6. CASE Contact!Reread(t)
  <2> DEFINE s == [request[t] EXCEPT !.pc = "marking", !.seen = booking.metadata]
  <2>1. s \in Contact!Task /\ s.pc = "marking" /\ s.seen = booking.metadata
    BY BookingType DEF Contact!Task
  <2>2. request' = [request EXCEPT ![t] = s] /\ namedLock' = namedLock /\ request[t].pc = "sent"
    BY <1>6 DEF Contact!Reread
  <2> HIDE DEF s
  <2>3. request'[t] = s
    BY <2>2, BookingType
  <2>4. DispatchInv(t)'
    BY <1>1, <1>2, <2>1, <2>2, <2>3 DEF DispatchInv, Section, MarkersStand
  <2> QED BY <1>1, <2>1, <2>2, <2>4, OnStep
<1> QED BY <1>3, <1>4, <1>5, <1>6 DEF Contact!Check, Contact!ReadCall

(* The transaction writes the metadata it read with the first marker set.  *)
LEMMA PersistStep ==
  ASSUME ContactInv, NEW t \in Tasks, Contact!Persist(t)
  PROVE  ContactInv'
<1> DEFINE seen == request[t].seen
           m == [seen EXCEPT !.completed = TRUE]
<1>1. /\ request[t].pc = "read" /\ Contact!Step(t, "committed") /\ connections' = connections
      /\ UNCHANGED <<eligible, namedLock, page, saved, broadcasts, attempted, customerEdits,
                     contactFaults>>
      /\ IF seen.completed THEN booking' = booking /\ calls' = calls
         ELSE /\ calls' = calls \cup request[t].drivers
              /\ booking' = [booking EXCEPT !.metadata = m]
  BY DEF Contact!Persist, Contact!rows, Contact!history
<1>2. DispatchInv(t) /\ namedLock = t /\ Contact!MarkersTellTruth /\ Contact!CalledOnce
      /\ seen.completed = booking.metadata.completed
      /\ seen.delivered = booking.metadata.delivered
  BY <1>1 DEF ContactInv, DispatchInv, Section
<1>3. m \in Contact!Metadata /\ m.completed /\ m.delivered = seen.delivered
  BY BookingType DEF Contact!Metadata
<1>4. PICK s \in Contact!Task : /\ request' = [request EXCEPT ![t] = s]
                                /\ s.pc = "committed" /\ s.seen = seen
  BY <1>1, StepType DEF Section
<1> HIDE DEF m
<1>5. /\ booking' \in Contact!Booking /\ booking'.metadata.completed
      /\ booking'.metadata.delivered = booking.metadata.delivered /\ ContactStands
      /\ calls' \in SUBSET Drivers
  BY <1>1, <1>2, <1>3, BookingType DEF Contact!Booking, ContactStands
<1>6. Turns(t, s) /\ request'[t] = s
  BY <1>4, PutRequest DEF Turns
<1>7. Contact!TypeOK'
  BY <1>1, <1>5, <1>6 DEF ContactInv, Contact!TypeOK, Turns
<1>8. ~seen.completed => broadcasts = 0
  BY <1>2, BookingType DEF Contact!MarkersTellTruth
<1>9. DispatchInv(t)'
  BY <1>1, <1>2, <1>4, <1>5, <1>6, <1>8 DEF DispatchInv, Section
<1>10. Contact!CalledOnce' /\ Contact!MarkersTellTruth'
  BY <1>1, <1>2, <1>5 DEF Contact!CalledOnce, Contact!MarkersTellTruth
<1>11. Contact!SnapshotMatchesConnection'
  BY <1>5, SnapshotStands DEF ContactInv
<1> QED BY <1>1, <1>2, <1>6, <1>7, <1>9, <1>10, <1>11, OneRequest, ContactAssumption

(* The broadcast after the commit, skipped where the marker was read.      *)
LEMMA PostCommitStep ==
  ASSUME ContactInv, NEW t \in Tasks, Contact!PostCommit(t)
  PROVE  ContactInv'
<1> DEFINE seen == request[t].seen
<1>1. /\ request[t].pc = "committed" /\ Contact!Step(t, "sent")
      /\ booking' = booking /\ connections' = connections /\ calls' = calls
      /\ broadcasts' = IF seen.completed THEN broadcasts ELSE broadcasts + 1
      /\ attempted' = TRUE
      /\ UNCHANGED <<eligible, namedLock, page, saved, customerEdits, contactFaults>>
  BY DEF Contact!PostCommit, Contact!rows
<1>2. /\ DispatchInv(t) /\ namedLock = t /\ Contact!MarkersTellTruth /\ Contact!CalledOnce
      /\ booking.metadata.completed /\ (~seen.completed => broadcasts = 0)
  BY <1>1 DEF ContactInv, DispatchInv, Section
<1>3. PICK s \in Contact!Task : /\ request' = [request EXCEPT ![t] = s]
                                /\ s.pc = "sent" /\ s.seen = seen
  BY <1>1, StepType DEF Section
<1>4. Turns(t, s) /\ request'[t] = s
  BY <1>3, PutRequest DEF Turns
<1>5. Contact!TypeOK'
  BY <1>1, <1>4, BookingType DEF ContactInv, Contact!TypeOK, Turns
<1>6. DispatchInv(t)'
  BY <1>1, <1>2, <1>3, <1>4 DEF DispatchInv, Section
<1>7. Contact!CalledOnce' /\ Contact!MarkersTellTruth'
  BY <1>1, <1>2 DEF Contact!CalledOnce, Contact!MarkersTellTruth
<1>8. Contact!SnapshotMatchesConnection'
  BY <1>1, SnapshotStands DEF ContactInv, ContactStands
<1> QED BY <1>1, <1>2, <1>4, <1>5, <1>6, <1>7, <1>8, OneRequest, ContactAssumption

(* The second marker is written over the metadata read again.              *)
LEMMA MarkStep ==
  ASSUME ContactInv, NEW t \in Tasks, Contact!MarkDelivered(t)
  PROVE  ContactInv'
<1> DEFINE m == [request[t].seen EXCEPT !.delivered = TRUE]
<1>1. /\ request[t].pc = "marking" /\ booking' = [booking EXCEPT !.metadata = m]
      /\ Contact!Finish(t) /\ Contact!Release(t)
      /\ UNCHANGED <<connections, calls, eligible, page, saved, broadcasts, attempted,
                     customerEdits, contactFaults>>
  BY DEF Contact!MarkDelivered, Contact!history
<1>2. /\ DispatchInv(t) /\ namedLock = t /\ Contact!MarkersTellTruth /\ Contact!CalledOnce
      /\ booking.metadata.completed /\ request[t].seen.completed /\ attempted
  BY <1>1 DEF ContactInv, DispatchInv, Section
<1>3. m \in Contact!Metadata /\ m.completed /\ m.delivered
  BY <1>2, BookingType DEF Contact!Metadata
<1> HIDE DEF m
<1>4. /\ booking' \in Contact!Booking /\ booking'.metadata.completed /\ ContactStands
  BY <1>1, <1>3, BookingType DEF Contact!Booking, ContactStands
<1>5. Turns(t, Contact!Free) /\ namedLock' = None
  BY <1>1, <1>2, FreeType, PutRequest DEF Contact!Finish, Contact!Release
<1>6. Contact!TypeOK'
  BY <1>1, <1>4, <1>5 DEF ContactInv, Contact!TypeOK, Turns
<1>7. DispatchInv(t)'
  BY <1>5, FreeType, ContactAssumption DEF DispatchInv, Section, Turns
<1>8. Contact!CalledOnce' /\ Contact!MarkersTellTruth'
  BY <1>1, <1>2, <1>4 DEF Contact!CalledOnce, Contact!MarkersTellTruth
<1>9. Contact!SnapshotMatchesConnection'
  BY <1>4, SnapshotStands DEF ContactInv
<1> QED BY <1>2, <1>5, <1>6, <1>7, <1>8, <1>9, OneRequest, ContactAssumption

(* A request that fails releases the lock.                                 *)
LEMMA FailStep ==
  ASSUME ContactInv, NEW t \in Tasks, Contact!Fail(t)
  PROVE  ContactInv'
<1>1. /\ booking' = booking /\ connections' = connections /\ MarkersStand /\ ContactStands
      /\ Contact!Finish(t) /\ Contact!Release(t)
      /\ UNCHANGED <<eligible, page, saved, customerEdits>>
      /\ contactFaults' \in 0..MaxFaults
  BY CreationAssumption DEF Contact!Fail, Contact!rows, Contact!history, MarkersStand,
     ContactStands, ContactInv, Contact!TypeOK
<1> QED BY <1>1, OverStep, BookingType

(* A restart loses the requests and the lock, not the rows.                *)
LEMMA ContactCrashStep ==
  ASSUME ContactInv, Contact!Crash
  PROVE  ContactInv'
<1>1. /\ booking' = booking /\ connections' = connections /\ MarkersStand /\ ContactStands
      /\ request' = [t \in Tasks |-> Contact!Free] /\ namedLock' = None
      /\ UNCHANGED <<eligible, page, saved, customerEdits>>
      /\ contactFaults' \in 0..MaxFaults
  BY CreationAssumption DEF Contact!Crash, Contact!rows, Contact!history, MarkersStand,
     ContactStands, ContactInv, Contact!TypeOK
<1>2. Contact!TypeOK'
  BY <1>1, FreeType DEF ContactInv, Contact!TypeOK, MarkersStand
<1>3. \A t \in Tasks : DispatchInv(t)'
  BY <1>1, FreeType, ContactAssumption DEF DispatchInv, Section
<1> QED BY <1>1, <1>2, <1>3, SnapshotStands, MarkersHold DEF ContactInv

-----------------------------------------------------------------------------
(* The initial states satisfy the invariant.                               *)
LEMMA ContactStarts ==
  ASSUME Contact!Init
  PROVE  ContactInv
<1>1. PICK m \in Messengers, p \in Phones :
        /\ booking = [status |-> "OPEN", contact |-> "PENDING",
                      channel |-> Contact!ResolveChannel(m), phone |-> p,
                      metadata |-> [messenger |-> m, completed |-> FALSE,
                                    delivered |-> FALSE]]
        /\ page = [phone |-> p, messenger |-> m]
  BY DEF Contact!Init
<1>2. /\ saved = page /\ connections = <<>> /\ calls = {} /\ eligible \in SUBSET Drivers
      /\ namedLock = None /\ request = [t \in Tasks |-> Contact!Free]
      /\ broadcasts = 0 /\ attempted = FALSE /\ customerEdits = 0 /\ contactFaults = 0
  BY DEF Contact!Init
<1>3. Contact!Free \in Contact!Task /\ Contact!Free.pc = "free"
  <2>1. [messenger |-> DefaultChannel, completed |-> FALSE, delivered |-> FALSE]
          \in Contact!Metadata
    BY ContactAssumption DEF Contact!Metadata
  <2> QED BY <2>1 DEF Contact!Free, Contact!Task
<1>4. booking \in Contact!Booking /\ booking.contact = "PENDING"
      /\ booking.metadata.completed = FALSE /\ booking.metadata.delivered = FALSE
  <2>1. [messenger |-> m, completed |-> FALSE, delivered |-> FALSE] \in Contact!Metadata
    BY DEF Contact!Metadata
  <2>2. Contact!ResolveChannel(m) \in Channels
    BY ContactAssumption DEF Contact!ResolveChannel
  <2> QED BY <1>1, <2>1, <2>2 DEF Contact!Booking, Contact!ContactStatus
<1>5. page \in Contact!Details
  BY <1>1 DEF Contact!Details
<1>6. connections \in Seq(Contact!Connection) /\ DOMAIN connections = {}
  <2>1. connections \in Seq(Contact!Connection) /\ Len(connections) = 0
    BY <1>2, EmptySeq
  <2> QED BY <2>1, LenProperties
<1>7. Contact!TypeOK
  <2>1. /\ calls \in SUBSET Drivers /\ namedLock \in Tasks \cup {None}
        /\ request \in [Tasks -> Contact!Task] /\ saved \in Contact!Details
    BY <1>2, <1>3, <1>5
  <2>2. broadcasts \in Nat /\ customerEdits \in 0..MaxCustomerEdits
        /\ contactFaults \in 0..MaxFaults
    BY <1>2, ContactAssumption, CreationAssumption
  <2> QED BY <1>2, <1>4, <1>5, <1>6, <2>1, <2>2 DEF Contact!TypeOK
<1>8. \A t \in Tasks : DispatchInv(t)
  BY <1>2, <1>3, ContactAssumption DEF DispatchInv, Section
<1>9. Contact!OneActive(connections)
  BY <1>6 DEF Contact!OneActive
<1>10. Contact!CalledOnce /\ Contact!MarkersTellTruth /\ Contact!SnapshotMatchesConnection
  BY <1>2, <1>4, <1>9 DEF Contact!CalledOnce, Contact!MarkersTellTruth,
     Contact!SnapshotMatchesConnection
<1> QED BY <1>7, <1>8, <1>10 DEF ContactInv

(* Every step keeps the invariant.                                         *)
LEMMA ContactKeeps ==
  ASSUME ContactInv, Contact!Next
  PROVE  ContactInv'
<1>1. CASE \E t \in Tasks : Contact!Dispatch(t)
  BY <1>1, LockStep, ReadStep, PersistStep, PostCommitStep, MarkStep, FailStep
     DEF Contact!Dispatch
<1> QED BY <1>1, StartConnectionStep, ConfirmSentStep, FormStep, EditStep, StatusStep, AskStep,
           ContactCrashStep DEF Contact!Next

(* The inductive invariant of the calls.                                   *)
THEOREM ContactInvariance == BookingsSpec => []ContactInv
<1>1. BookingsInit => ContactInv
  BY ContactStarts DEF BookingsInit
<1>2. [BookingsNext]_bookingsVars => Contact!Next \/ UNCHANGED contactVars
  BY DEF BookingsNext, ManualStep, CreationStep, ContactStep, bookingsVars
<1>3. ContactInv /\ [BookingsNext]_bookingsVars => ContactInv'
  BY <1>2, ContactKeeps, FormStep
<1> QED BY <1>1, <1>3, PTL DEF BookingsSpec

(* However often the dispatch of a booking is repeated, by whomever, and   *)
(* whatever fails in between, its call is broadcast once, its markers tell *)
(* what was done, and its snapshot is the connection it names.             *)
THEOREM CallsAreMadeOnce == BookingsSpec => []CalledOnce
<1>1. ContactInv => CalledOnce
  BY DEF ContactInv, CalledOnce
<1> QED BY <1>1, ContactInvariance, PTL
=============================================================================
