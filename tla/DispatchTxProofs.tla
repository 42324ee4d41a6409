-------------------------- MODULE DispatchTxProofs ---------------------------
(***************************************************************************)
(* Theorems about every execution of DispatchTx, for any number of         *)
(* transactions, bookings, drivers and services: what a transaction has    *)
(* read under a lock still holds as it commits, so that every commit is a  *)
(* handler of BookingLifecycle done in one step.  The read view, which is  *)
(* not locked, is as good as the rows when close pickups share a service.  *)
(***************************************************************************)
EXTENDS DispatchTx, SequenceTheorems, TLAPS

Kind == {"claim", "assign", "reassign", "release", "unassign", "complete", "suspend"}
Statement == {"driver", "settled", "booking", "service", "holder", "listed", "write"}

(* How many statements are left when a request comes to this one; 0 when   *)
(* it has none such.                                                       *)
Position(kind, statement) ==
  IF statement = "write" THEN 1
  ELSE IF kind = "suspend" THEN
    IF statement = "driver" THEN 3 ELSE IF statement = "listed" THEN 2 ELSE 0
  ELSE IF kind \in {"assign", "reassign"} THEN
    IF statement = "booking" THEN 6 ELSE IF statement = "service" THEN 5
    ELSE IF statement = "holder" THEN 4 ELSE IF statement = "driver" THEN 3
    ELSE IF statement = "settled" THEN 2 ELSE 0
  ELSE IF statement = "booking" THEN 4 ELSE IF statement = "service" THEN 3
  ELSE IF statement = "holder" THEN 2
  ELSE IF kind = "claim" /\ statement = "driver" THEN 6
  ELSE IF kind = "claim" /\ statement = "settled" THEN 5
  ELSE IF kind = "release" /\ statement = "driver" THEN 5 ELSE 0

(* The statements s come in the order of the script, k - 1 after them.    *)
InOrder(s, kind, k) ==
  /\ s \in Seq(Statement)
  /\ \A i \in 1..Len(s) : Position(kind, s[i]) = k + Len(s) - i

(* A request has no two statements in one place.                           *)
LEMMA PositionsDiffer ==
  ASSUME NEW kind \in Kind, NEW x \in Statement, NEW y \in Statement,
         Position(kind, x) = Position(kind, y), Position(kind, x) > 0
  PROVE  x = y
  BY DEF Kind, Statement, Position

(* Two pieces of a script that fit together are in order.                  *)
LEMMA ConcatInOrder ==
  ASSUME NEW kind, NEW k \in Nat, NEW m, NEW n, NEW s, NEW u,
         InOrder(s, kind, m), InOrder(u, kind, k), m = k + Len(u), n = Len(s) + Len(u)
  PROVE  InOrder(s \o u, kind, k) /\ Len(s \o u) = n
<1>1. s \in Seq(Statement) /\ u \in Seq(Statement)
  BY DEF InOrder
<1>2. /\ s \o u \in Seq(Statement) /\ Len(s \o u) = Len(s) + Len(u)
      /\ \A i \in 1..Len(s) + Len(u) :
           (s \o u)[i] = IF i <= Len(s) THEN s[i] ELSE u[i - Len(s)]
  BY <1>1, ConcatProperties
<1>3. Len(s) \in Nat /\ Len(u) \in Nat
  BY <1>1, LenProperties
<1>. DEFINE w == s \o u
<1>. HIDE DEF w
<1>4. ASSUME NEW i \in 1..Len(w) PROVE Position(kind, w[i]) = k + Len(w) - i
  <2>1. CASE i <= Len(s)
    BY <1>2, <1>3, <2>1 DEF InOrder, w
  <2>2. CASE i > Len(s)
    <3>1. i - Len(s) \in 1..Len(u) /\ w[i] = u[i - Len(s)]
      BY <1>2, <1>3, <2>2 DEF w
    <3>2. Position(kind, w[i]) = k + Len(u) - (i - Len(s))
      BY <3>1 DEF InOrder
    <3>3. QED
      BY <1>2, <1>3, <3>2 DEF w
  <2>3. QED
    BY <1>2, <1>3, <2>1, <2>2 DEF w
<1>5. QED
  BY <1>2, <1>4 DEF InOrder, w

(* Every script is in order, and comes to all its statements.              *)
LEMMA ScriptsInOrder ==
  ASSUME NEW kind \in Kind
  PROVE  /\ InOrder(Script(kind), kind, 1)
         /\ Len(Script(kind)) \in 1..6
         /\ \A x \in Statement : Position(kind, x) <= Len(Script(kind))
<1>. DEFINE w == <<"write">>
            r == ReadBooking
            d == <<"driver">>
            ds == <<"driver", "settled">>
            dsw == <<"driver", "settled", "write">>
            dlw == <<"driver", "listed", "write">>
<1>0. /\ Len(w) = 1 /\ Len(r) = 3 /\ Len(d) = 1 /\ Len(ds) = 2
      /\ Len(dsw) = 3 /\ Len(dlw) = 3
  BY DEF ReadBooking
<1>1. InOrder(w, kind, 1)
  BY DEF InOrder, Position, Statement
<1>2. \/ kind = "claim" /\ Script(kind) = (ds \o r) \o w
      \/ kind = "release" /\ Script(kind) = (d \o r) \o w
      \/ kind \in {"unassign", "complete"} /\ Script(kind) = r \o w
      \/ kind \in {"assign", "reassign"} /\ Script(kind) = r \o dsw
      \/ kind = "suspend" /\ Script(kind) = dlw
  BY DEF Script, Kind
<1>3. kind \in {"claim", "release", "unassign", "complete"} => InOrder(r, kind, 2)
  BY DEF InOrder, Position, Statement, ReadBooking
<1>4. kind = "claim" => InOrder(ds, kind, 5)
  BY DEF InOrder, Position, Statement
<1>5. kind = "release" => InOrder(d, kind, 5)
  BY DEF InOrder, Position, Statement
<1>6. kind \in {"assign", "reassign"} =>
        InOrder(r, kind, 4) /\ InOrder(dsw, kind, 1)
  BY DEF InOrder, Position, Statement, ReadBooking
<1>7. kind = "suspend" => InOrder(dlw, kind, 1)
  BY DEF InOrder, Position, Statement
<1>. HIDE DEF w, r, d, ds, dsw, dlw
<1>8. CASE kind = "claim"
  <2>. DEFINE p == ds \o r
              s == p \o w
  <2>1. InOrder(ds, kind, 5) /\ InOrder(r, kind, 2)
    BY <1>3, <1>4, <1>8
  <2>2. 2 \in Nat /\ 5 = 2 + Len(r) /\ 5 = Len(ds) + Len(r)
    BY <1>0
  <2>3. InOrder(p, kind, 2) /\ Len(p) = 5
    BY <2>1, <2>2, ConcatInOrder
  <2>4. Script(kind) = s
    BY <1>2, <1>8
  <2>. HIDE DEF p
  <2>5. 1 \in Nat /\ 2 = 1 + Len(w) /\ 6 = Len(p) + Len(w)
    BY <1>0, <2>3
  <2>6. InOrder(p, kind, 2) /\ InOrder(w, kind, 1)
    BY <1>1, <2>3
  <2>7. InOrder(s, kind, 1) /\ Len(s) = 6
    BY <2>5, <2>6, ConcatInOrder
  <2>. HIDE DEF s
  <2>8. \A x \in Statement : Position(kind, x) <= 6
    BY <1>8 DEF Position, Statement
  <2>9. Len(s) \in 1..6
    BY <2>7
  <2>10. QED
    BY <2>4, <2>7, <2>8, <2>9
<1>9. CASE kind = "release"
  <2>. DEFINE p == d \o r
              s == p \o w
  <2>1. InOrder(d, kind, 5) /\ InOrder(r, kind, 2)
    BY <1>3, <1>5, <1>9
  <2>2. 2 \in Nat /\ 5 = 2 + Len(r) /\ 4 = Len(d) + Len(r)
    BY <1>0
  <2>3. InOrder(p, kind, 2) /\ Len(p) = 4
    BY <2>1, <2>2, ConcatInOrder
  <2>4. Script(kind) = s
    BY <1>2, <1>9
  <2>. HIDE DEF p
  <2>5. 1 \in Nat /\ 2 = 1 + Len(w) /\ 5 = Len(p) + Len(w)
    BY <1>0, <2>3
  <2>6. InOrder(p, kind, 2) /\ InOrder(w, kind, 1)
    BY <1>1, <2>3
  <2>7. InOrder(s, kind, 1) /\ Len(s) = 5
    BY <2>5, <2>6, ConcatInOrder
  <2>. HIDE DEF s
  <2>8. \A x \in Statement : Position(kind, x) <= 5
    BY <1>9 DEF Position, Statement
  <2>9. Len(s) \in 1..6
    BY <2>7
  <2>10. QED
    BY <2>4, <2>7, <2>8, <2>9
<1>10. CASE kind \in {"unassign", "complete"}
  <2>. DEFINE s == r \o w
  <2>1. InOrder(r, kind, 2) /\ InOrder(w, kind, 1)
    BY <1>1, <1>3, <1>10
  <2>2. 1 \in Nat /\ 2 = 1 + Len(w) /\ 4 = Len(r) + Len(w)
    BY <1>0
  <2>3. InOrder(s, kind, 1) /\ Len(s) = 4
    BY <2>1, <2>2, ConcatInOrder
  <2>4. Script(kind) = s
    BY <1>2, <1>10
  <2>. HIDE DEF s
  <2>5. \A x \in Statement : Position(kind, x) <= 4
    BY <1>10 DEF Position, Statement
  <2>6. Len(s) \in 1..6
    BY <2>3
  <2>7. QED
    BY <2>3, <2>4, <2>5, <2>6
<1>11. CASE kind \in {"assign", "reassign"}
  <2>. DEFINE s == r \o dsw
  <2>1. InOrder(r, kind, 4) /\ InOrder(dsw, kind, 1)
    BY <1>6, <1>11
  <2>2. 1 \in Nat /\ 4 = 1 + Len(dsw) /\ 6 = Len(r) + Len(dsw)
    BY <1>0
  <2>3. InOrder(s, kind, 1) /\ Len(s) = 6
    BY <2>1, <2>2, ConcatInOrder
  <2>4. Script(kind) = s
    BY <1>2, <1>11
  <2>. HIDE DEF s
  <2>5. \A x \in Statement : Position(kind, x) <= 6
    BY <1>11 DEF Position, Statement
  <2>6. Len(s) \in 1..6
    BY <2>3
  <2>7. QED
    BY <2>3, <2>4, <2>5, <2>6
<1>12. CASE kind = "suspend"
  <2>1. Script(kind) = dlw
    BY <1>2, <1>12
  <2>2. InOrder(dlw, kind, 1) /\ Len(dlw) = 3
    BY <1>0, <1>7, <1>12
  <2>3. \A x \in Statement : Position(kind, x) <= 3
    BY <1>12 DEF Position, Statement
  <2>4. QED
    BY <2>1, <2>2, <2>3
<1>13. QED
  BY <1>8, <1>9, <1>10, <1>11, <1>12 DEF Kind

(* So is what is left of it after its next statement.                      *)
LEMMA TailInOrder ==
  ASSUME NEW kind, NEW s, InOrder(s, kind, 1), s # <<>>
  PROVE  /\ InOrder(Tail(s), kind, 1) /\ Len(Tail(s)) = Len(s) - 1
         /\ Head(s) \in Statement /\ Position(kind, Head(s)) = Len(s)
         /\ Len(s) \in Nat \ {0}
  BY DEF InOrder

-----------------------------------------------------------------------------
(* The invariant.                                                          *)

(* A row of the database.  Requests only give, take back and complete      *)
(* bookings, so it is open or a job, and a job exactly with a driver.      *)
RowOK(b, r) ==
  /\ r \in Booking
  /\ r.driverColumn = r.driver
  /\ ~r.archived /\ ~r.exempt
  /\ r.pickup = PickupOf[b]
  /\ r.status \in {"OPEN", "DRIVER_ASSIGNED", "SETTLEMENT_PENDING"}
  /\ r.status = "OPEN" <=> r.driver = NoDriver

(* The transaction has come past this statement.                           *)
Passed(t, statement) ==
  /\ todo[t] # <<>>
  /\ Position(job[t].kind, statement) > Len(todo[t])

Ordered(t) == todo[t] # <<>> => job[t] \in Request /\ InOrder(todo[t], job[t].kind, 1)

(* What a transaction has read under a lock is locked and still so.        *)
DriverHeld(t) ==
  Passed(t, "driver") => lock[job[t].d] = t /\ DriverQualifies(job[t])

BookingHeld(t) == Passed(t, "booking") => lock[job[t].b] = t

(* Its read view is that of the rows of the service it has locked.         *)
ServiceHeld(t) ==
  Passed(t, "service") =>
    /\ lock[ServiceOf[job[t].b]] = t
    /\ \A c \in Bookings :
         ServiceOf[c] = ServiceOf[job[t].b] => view[t][c] = booking[c]

HolderHeld(t) ==
  Passed(t, "holder") =>
    /\ BookingQualifies(job[t])
    /\ HasAssignment(booking[job[t].b]) => lock[booking[job[t].b].driver] = t

(* What the settlement check saw, though it locks nothing: whoever ends a  *)
(* trip of the driver needs the driver's row.                              *)
SettledStill(t) ==
  Passed(t, "settled") => \A c \in Bookings : ~OwesSettlement(booking[c], job[t].d)

ListHeld(t) ==
  Passed(t, "listed") =>
    \A b \in Listed(job[t].d) : lock[b] = t /\ lock[ServiceOf[b]] = t

TxInv(t) ==
  /\ Ordered(t)
  /\ DriverHeld(t)
  /\ BookingHeld(t)
  /\ ServiceHeld(t)
  /\ HolderHeld(t)
  /\ SettledStill(t)
  /\ ListHeld(t)

Types ==
  /\ booking \in [Bookings -> Booking]
  /\ driver \in [Drivers -> Serial!DriverRow]
  /\ lock \in [Row -> Tx \union {NoTx}]
  /\ job \in [Tx -> Request \union {Idle}]
  /\ todo \in [Tx -> Seq(Statement)]
  /\ view \in [Tx -> {<<>>} \union [Bookings -> Booking]]
  /\ begun \in 0..MaxRequests

RowsInv == /\ \A b \in Bookings : RowOK(b, booking[b])
           /\ \A d \in Drivers : ~driver[d].archived

IInv == Types /\ RowsInv /\ \A t \in Tx : TxInv(t)

(* Whom and what a request is for.                                         *)
LEMMA RequestParts ==
  ASSUME NEW j \in Request
  PROVE  /\ j.kind \in Kind
         /\ j.kind \in {"claim", "assign", "reassign", "release", "suspend"}
              => j.d \in Drivers
         /\ j.kind # "suspend" => j.b \in Bookings
  BY DEF Request, Kind

(* The statements a request has, by its kind.                              *)
LEMMA Positions ==
  ASSUME NEW kind \in Kind
  PROVE  /\ \A x \in Statement : Position(kind, x) \in 0..6
         /\ Position(kind, "write") = 1
         /\ Position(kind, "driver") > 0
              => kind \in {"claim", "assign", "reassign", "release", "suspend"}
         /\ kind \in {"claim", "assign", "reassign", "release", "suspend"}
              => Position(kind, "driver") > 1
         /\ kind \in {"claim", "assign", "reassign"}
              <=> Position(kind, "settled") > 1
         /\ Position(kind, "settled") > 0 => Position(kind, "settled") > 1
         /\ Position(kind, "settled") > 0
              => Position(kind, "driver") > Position(kind, "settled")
         /\ kind = "suspend" <=> Position(kind, "listed") > 0
         /\ kind = "suspend" => Position(kind, "driver") > Position(kind, "listed")
         /\ kind = "suspend" => Position(kind, "listed") > 1
         /\ \A x \in {"booking", "service", "holder"} :
              /\ kind # "suspend" => Position(kind, x) > 1
              /\ kind = "suspend" => Position(kind, x) = 0
         /\ kind # "suspend" => Position(kind, "booking") > Position(kind, "holder")
         /\ kind # "suspend" => Position(kind, "booking") > Position(kind, "service")
  BY DEF Kind, Statement, Position

-----------------------------------------------------------------------------
(* What the steps of other transactions leave as it is.                    *)

(* For transaction u: its own state and its locks, the driver rows it has  *)
(* locked, with the bookings these drivers hold, and the bookings locked   *)
(* themselves or through their service.                                    *)
Undisturbed(u) ==
  /\ job'[u] = job[u] /\ todo'[u] = todo[u] /\ view'[u] = view[u]
  /\ \A r \in Row : lock[r] = u => lock'[r] = u
  /\ \A d \in Drivers : lock[d] = u =>
       /\ driver'[d] = driver[d]
       /\ \A c \in Bookings : booking'[c] # booking[c] => booking'[c].driver # d
  /\ \A c \in Bookings :
       lock[c] = u \/ lock[ServiceOf[c]] = u => booking'[c] = booking[c]

(* What a transaction knows survives the steps of the others.              *)
LEMMA UndisturbedKeeps ==
  ASSUME IInv, RowsInv', NEW u \in Tx, Undisturbed(u)
  PROVE  TxInv(u)'
<1>. DEFINE j == job[u]
<1>1. Ordered(u)'
  BY DEF IInv, TxInv, Ordered, Undisturbed
<1>2. ASSUME NEW x PROVE Passed(u, x)' <=> Passed(u, x)
  BY DEF Undisturbed, Passed
<1>3. ASSUME todo[u] # <<>>
      PROVE  /\ j.kind \in Kind /\ Len(todo[u]) \in Nat \ {0}
             /\ j.kind \in {"claim", "assign", "reassign", "release", "suspend"}
                  => j.d \in Drivers /\ j.d \in Row
             /\ j.kind # "suspend"
                  => j.b \in Bookings /\ j.b \in Row /\ ServiceOf[j.b] \in Row
  <2>1. j \in Request /\ InOrder(todo[u], j.kind, 1)
    BY <1>3 DEF IInv, TxInv, Ordered
  <2>2. QED
    BY <1>3, <2>1, RequestParts, TailInOrder, RowsAssumption DEF Row
<1>4. DriverHeld(u)'
  <2>. SUFFICES ASSUME Passed(u, "driver")
                PROVE  (lock[j.d] = u /\ DriverQualifies(j))'
    BY <1>2 DEF DriverHeld
  <2>1. lock[j.d] = u /\ DriverQualifies(j)
    BY DEF IInv, TxInv, DriverHeld
  <2>2. j.d \in Drivers /\ j.d \in Row
    BY <1>3, Positions DEF Passed, Statement
  <2>3. lock'[j.d] = u /\ driver'[j.d] = driver[j.d] /\ job'[u] = j
    BY <2>1, <2>2 DEF Undisturbed
  <2>4. QED
    BY <2>1, <2>3 DEF DriverQualifies
<1>5. BookingHeld(u)'
  <2>. SUFFICES ASSUME Passed(u, "booking") PROVE lock'[j.b] = u
    BY <1>2 DEF BookingHeld, Undisturbed
  <2>1. lock[j.b] = u
    BY DEF IInv, TxInv, BookingHeld
  <2>2. j.b \in Row
    BY <1>3, Positions DEF Passed, Statement
  <2>3. QED
    BY <2>1, <2>2 DEF Undisturbed
<1>6. ServiceHeld(u)'
  <2>. SUFFICES ASSUME Passed(u, "service")
                PROVE  /\ lock'[ServiceOf[j.b]] = u
                       /\ \A c \in Bookings :
                            ServiceOf[c] = ServiceOf[j.b] => view[u][c] = booking'[c]
    BY <1>2 DEF ServiceHeld, Undisturbed
  <2>1. /\ lock[ServiceOf[j.b]] = u
        /\ \A c \in Bookings : ServiceOf[c] = ServiceOf[j.b] => view[u][c] = booking[c]
    BY DEF IInv, TxInv, ServiceHeld
  <2>2. ServiceOf[j.b] \in Row
    BY <1>3, Positions DEF Passed, Statement
  <2>3. QED
    BY <2>1, <2>2 DEF Undisturbed
<1>7. HolderHeld(u)'
  <2>. SUFFICES ASSUME Passed(u, "holder")
                PROVE  (/\ BookingQualifies(j)
                        /\ HasAssignment(booking[j.b]) => lock[booking[j.b].driver] = u)'
    BY <1>2 DEF HolderHeld
  <2>1. /\ BookingQualifies(j)
        /\ HasAssignment(booking[j.b]) => lock[booking[j.b].driver] = u
    BY DEF IInv, TxInv, HolderHeld
  <2>2. j.b \in Bookings /\ Passed(u, "booking")
    BY <1>3, Positions DEF Passed, Statement
  <2>3. booking'[j.b] = booking[j.b] /\ job'[u] = j
    BY <2>2 DEF Undisturbed, IInv, TxInv, BookingHeld
  <2>4. HasAssignment(booking[j.b]) => booking[j.b].driver \in Row
    BY <2>2 DEF IInv, Types, Booking, HasAssignment, Row
  <2>5. BookingQualifies(j)'
    BY <2>1, <2>3 DEF BookingQualifies
  <2>6. QED
    BY <2>1, <2>3, <2>4, <2>5 DEF Undisturbed, HasAssignment
<1>8. SettledStill(u)'
  <2>. SUFFICES ASSUME Passed(u, "settled"), NEW c \in Bookings,
                       OwesSettlement(booking'[c], j.d)
                PROVE  FALSE
    BY <1>2 DEF SettledStill, Undisturbed
  <2>1. Passed(u, "driver") /\ j.d \in Drivers
    BY <1>3, Positions DEF Passed, Statement
  <2>2. lock[j.d] = u
    BY <2>1 DEF IInv, TxInv, DriverHeld
  <2>3. booking'[c].driver = j.d
    BY DEF RowsInv, RowOK, OwesSettlement
  <2>4. booking'[c] = booking[c]
    BY <2>1, <2>2, <2>3 DEF Undisturbed
  <2>5. QED
    BY <2>4 DEF IInv, TxInv, SettledStill
<1>9. ListHeld(u)'
  <2>. SUFFICES ASSUME Passed(u, "listed"), NEW c \in Bookings,
                       WorksOn(booking'[c], j.d), booking'[c].status \in TripStatus
                PROVE  lock'[c] = u /\ lock'[ServiceOf[c]] = u
    BY <1>2 DEF ListHeld, Listed, Undisturbed
  <2>1. Passed(u, "driver") /\ j.d \in Drivers
    BY <1>3, Positions DEF Passed, Statement
  <2>2. lock[j.d] = u
    BY <2>1 DEF IInv, TxInv, DriverHeld
  <2>3. booking'[c] = booking[c]
    BY <2>1, <2>2 DEF Undisturbed, WorksOn
  <2>4. lock[c] = u /\ lock[ServiceOf[c]] = u
    BY <2>3 DEF IInv, TxInv, ListHeld, Listed
  <2>5. QED
    BY <2>4, RowsAssumption DEF Undisturbed, Row
<1>10. QED
  BY <1>1, <1>4, <1>5, <1>6, <1>7, <1>8, <1>9 DEF TxInv

-----------------------------------------------------------------------------
(* The steps.                                                              *)

(* A transaction's next statement, and what it has come past after it.     *)
LEMMA NextStatement ==
  ASSUME IInv, NEW t \in Tx, todo[t] # <<>>
  PROVE  /\ job[t] \in Request /\ job[t].kind \in Kind
         /\ Head(todo[t]) \in Statement
         /\ Position(job[t].kind, Head(todo[t])) = Len(todo[t])
         /\ Len(todo[t]) \in Nat \ {0}
         /\ InOrder(Tail(todo[t]), job[t].kind, 1)
         /\ Len(Tail(todo[t])) = Len(todo[t]) - 1
<1>1. job[t] \in Request /\ InOrder(todo[t], job[t].kind, 1)
  BY DEF IInv, TxInv, Ordered
<1>2. QED
  BY <1>1, TailInOrder, RequestParts

(* A read comes past its statement and no other.                           *)
LEMMA ReadPasses ==
  ASSUME IInv, NEW t \in Tx, Read(t), NEW x \in Statement, Passed(t, x)'
  PROVE  Passed(t, x) \/ At(t, x)
<1>1. /\ todo[t] # <<>> /\ todo'[t] = Tail(todo[t]) /\ job'[t] = job[t]
  BY DEF Read, IInv, Types
<1>. DEFINE p == Position(job[t].kind, x)
            h == Head(todo[t])
            n == Len(todo[t])
<1>2. /\ p \in 0..6 /\ n \in Nat \ {0} /\ p > n - 1
      /\ h \in Statement /\ Position(job[t].kind, h) = n /\ job[t].kind \in Kind
  BY <1>1, NextStatement, Positions DEF Passed
<1>. HIDE DEF p
<1>3. CASE p > n
  BY <1>1, <1>3 DEF Passed, p
<1>4. CASE p = n
  <2>1. x = h
    BY <1>2, <1>4, PositionsDiffer DEF p
  <2>2. QED
    BY <1>1, <2>1 DEF At
<1>5. QED
  BY <1>2, <1>3, <1>4

(* A read takes no row from anybody.                                       *)
LEMMA ReadLocks ==
  ASSUME IInv, NEW t \in Tx, Read(t), NEW r \in Row
  PROVE  /\ r \in Wanted(t) => lock'[r] = t
         /\ r \notin Wanted(t) => lock'[r] = lock[r]
         /\ \A u \in Tx : lock[r] = u => lock'[r] = u
<1>1. lock'[r] = IF r \in Wanted(t) THEN t ELSE lock[r]
  BY DEF Read
<1>2. r \in Wanted(t) => lock[r] \in {NoTx, t}
  BY DEF Read, Waiting, Owners
<1>3. QED
  BY <1>1, <1>2, TxAssumption

(* The reader knows what it read, and all it knew before.                  *)
LEMMA ReadKeepsOwn ==
  ASSUME IInv, NEW t \in Tx, Read(t)
  PROVE  TxInv(t)'
<1>. DEFINE j == job[t]
            h == Head(todo[t])
<1>1. /\ todo[t] # <<>> /\ h # "write" /\ Qualifies(t)
      /\ todo'[t] = Tail(todo[t]) /\ job'[t] = j
      /\ UNCHANGED <<booking, driver>>
      /\ \A x : At(t, x) <=> h = x
  BY DEF Read, IInv, Types, At, dbVars
<1>2. /\ j \in Request /\ j.kind \in Kind /\ h \in Statement
      /\ Position(j.kind, h) = Len(todo[t])
      /\ Len(todo[t]) \in Nat \ {0} /\ InOrder(Tail(todo[t]), j.kind, 1)
  BY <1>1, NextStatement
<1>3. /\ j.kind \in {"claim", "assign", "reassign", "release", "suspend"}
           => j.d \in Drivers /\ j.d \in Row
      /\ j.kind # "suspend"
           => j.b \in Bookings /\ j.b \in Row /\ ServiceOf[j.b] \in Row
  BY <1>2, RequestParts, RowsAssumption DEF Row
<1>4. \A x \in Statement : Passed(t, x)' => Passed(t, x) \/ h = x
  BY <1>1, ReadPasses
<1>5. \A x \in Statement : Passed(t, x) \/ h = x => Position(j.kind, x) > 0
  BY <1>2, Positions DEF Passed
<1>6. Ordered(t)'
  BY <1>1, <1>2 DEF Ordered
<1>7. DriverHeld(t)'
  <2>. SUFFICES ASSUME Passed(t, "driver") \/ h = "driver"
                PROVE  (lock[j.d] = t /\ DriverQualifies(j))'
    BY <1>1, <1>4 DEF DriverHeld, Statement
  <2>1. j.d \in Row
    BY <1>2, <1>3, <1>5, Positions DEF Statement
  <2>2. DriverQualifies(j)' <=> DriverQualifies(j)
    BY <1>1 DEF DriverQualifies
  <2>3. CASE h = "driver"
    BY <1>1, <2>1, <2>2, <2>3, ReadLocks DEF Wanted, Qualifies
  <2>4. CASE Passed(t, "driver")
    BY <1>1, <2>1, <2>2, <2>4, ReadLocks DEF IInv, TxInv, DriverHeld
  <2>5. QED
    BY <2>3, <2>4
<1>8. BookingHeld(t)'
  <2>. SUFFICES ASSUME Passed(t, "booking") \/ h = "booking"
                PROVE  lock'[j.b] = t
    BY <1>1, <1>4 DEF BookingHeld, Statement
  <2>1. j.b \in Row
    BY <1>2, <1>3, <1>5, Positions DEF Statement
  <2>2. CASE h = "booking"
    BY <1>1, <2>1, <2>2, ReadLocks DEF Wanted
  <2>3. CASE Passed(t, "booking")
    BY <1>1, <2>1, <2>3, ReadLocks DEF IInv, TxInv, BookingHeld
  <2>4. QED
    BY <2>2, <2>3
<1>9. ServiceHeld(t)'
  <2>. SUFFICES ASSUME Passed(t, "service") \/ h = "service"
                PROVE  /\ lock'[ServiceOf[j.b]] = t
                       /\ \A c \in Bookings :
                            ServiceOf[c] = ServiceOf[j.b] => view'[t][c] = booking[c]
    BY <1>1, <1>4 DEF ServiceHeld, Statement
  <2>1. ServiceOf[j.b] \in Row
    BY <1>2, <1>3, <1>5, Positions DEF Statement
  <2>2. CASE h = "service"
    <3>1. view'[t] = booking
      BY <1>1, <2>2 DEF Read, IInv, Types
    <3>2. QED
      BY <1>1, <2>1, <2>2, <3>1, ReadLocks DEF Wanted
  <2>3. CASE Passed(t, "service") /\ h # "service"
    <3>1. view'[t] = view[t]
      BY <1>1, <2>3 DEF Read
    <3>2. QED
      BY <1>1, <2>1, <2>3, <3>1, ReadLocks DEF IInv, TxInv, ServiceHeld
  <2>4. QED
    BY <2>2, <2>3
<1>10. HolderHeld(t)'
  <2>. SUFFICES ASSUME Passed(t, "holder") \/ h = "holder"
                PROVE  /\ BookingQualifies(j)
                       /\ HasAssignment(booking[j.b]) => lock'[booking[j.b].driver] = t
    BY <1>1, <1>4 DEF HolderHeld, Statement, BookingQualifies
  <2>1. j.b \in Bookings
    BY <1>2, <1>3, <1>5, Positions DEF Statement
  <2>2. booking[j.b].driverColumn = booking[j.b].driver
    BY <2>1 DEF IInv, RowsInv, RowOK
  <2>3. HasAssignment(booking[j.b]) => booking[j.b].driver \in Row
    BY <2>1 DEF IInv, Types, Booking, HasAssignment, Row
  <2>4. CASE h = "holder"
    BY <1>1, <2>2, <2>3, <2>4, ReadLocks DEF Wanted, Qualifies, HasAssignment
  <2>5. CASE Passed(t, "holder")
    BY <1>1, <2>3, <2>5, ReadLocks DEF IInv, TxInv, HolderHeld
  <2>6. QED
    BY <2>4, <2>5
<1>11. SettledStill(t)'
  <2>. SUFFICES ASSUME Passed(t, "settled") \/ h = "settled"
                PROVE  \A c \in Bookings : ~OwesSettlement(booking[c], j.d)
    BY <1>1, <1>4 DEF SettledStill, Statement
  <2>1. CASE h = "settled"
    BY <1>1, <2>1 DEF Qualifies, Serial!HasBlockingSettlement, Serial!OwesSettlement,
                      OwesSettlement
  <2>2. CASE Passed(t, "settled")
    BY <2>2 DEF IInv, TxInv, SettledStill
  <2>3. QED
    BY <2>1, <2>2
<1>12. ListHeld(t)'
  <2>. SUFFICES ASSUME Passed(t, "listed") \/ h = "listed", NEW b \in Listed(j.d)
                PROVE  lock'[b] = t /\ lock'[ServiceOf[b]] = t
    BY <1>1, <1>4 DEF ListHeld, Statement, Listed
  <2>1. b \in Row /\ ServiceOf[b] \in Row
    BY RowsAssumption DEF Listed, Row
  <2>2. CASE h = "listed"
    <3>1. b \in Wanted(t) /\ ServiceOf[b] \in Wanted(t)
      BY <1>1, <2>2 DEF Wanted
    <3>2. QED
      BY <2>1, <3>1, ReadLocks
  <2>3. CASE Passed(t, "listed")
    BY <2>1, <2>3, ReadLocks DEF IInv, TxInv, ListHeld
  <2>4. QED
    BY <2>2, <2>3
<1>13. QED
  BY <1>6, <1>7, <1>8, <1>9, <1>10, <1>11, <1>12 DEF TxInv

(* A transaction that has not come past anything.                          *)
LEMMA FreshTx ==
  ASSUME NEW t, Ordered(t), \A x \in Statement : ~Passed(t, x)
  PROVE  TxInv(t)
  BY DEF TxInv, DriverHeld, BookingHeld, ServiceHeld, HolderHeld, SettledStill,
         ListHeld, Statement

(* A request begins, or a transaction ends: it holds nothing, and whoever  *)
(* else holds something keeps it.                                          *)
LEMMA BeginKeepsOwn ==
  ASSUME IInv, NEW t \in Tx, Begin(t)
  PROVE  TxInv(t)'
<1>1. PICK j \in Request : job'[t] = j /\ todo'[t] = Script(j.kind)
  BY DEF Begin, IInv, Types
<1>2. /\ InOrder(todo'[t], j.kind, 1)
      /\ \A x \in Statement : Position(j.kind, x) <= Len(todo'[t])
      /\ Len(todo'[t]) \in 1..6
  BY <1>1, RequestParts, ScriptsInOrder
<1>3. Ordered(t)'
  BY <1>1, <1>2 DEF Ordered
<1>4. \A x \in Statement : ~Passed(t, x)'
  <2>1. \A x \in Statement : Position(j.kind, x) \in 0..6
    BY RequestParts, Positions
  <2>2. QED
    BY <1>1, <1>2, <2>1 DEF Passed
<1>5. QED
  BY <1>3, <1>4, FreshTx DEF TxInv, DriverHeld, BookingHeld, ServiceHeld, HolderHeld,
                             SettledStill, ListHeld, Statement

(* A transaction that has ended knows nothing, and need not.               *)
LEMMA EndKeepsOwn ==
  ASSUME IInv, NEW t \in Tx, End(t)
  PROVE  TxInv(t)'
<1>1. todo'[t] = <<>>
  BY DEF End, IInv, Types
<1>2. QED
  BY <1>1 DEF TxInv, Ordered, Passed, DriverHeld, BookingHeld, ServiceHeld, HolderHeld,
              SettledStill, ListHeld

(* The end of a transaction leaves types in order.                         *)
LEMMA EndTypes ==
  ASSUME IInv, NEW t \in Tx, End(t)
  PROVE  /\ lock' \in [Row -> Tx \union {NoTx}]
         /\ job' \in [Tx -> Request \union {Idle}]
         /\ todo' \in [Tx -> Seq(Statement)]
         /\ view' \in [Tx -> {<<>>} \union [Bookings -> Booking]]
         /\ begun' \in 0..MaxRequests
  BY DEF End, IInv, Types

(* The end of a transaction takes no row from anybody.                     *)
LEMMA EndFrees ==
  ASSUME IInv, NEW t \in Tx, End(t), NEW u \in Tx \ {t}
  PROVE  /\ job'[u] = job[u] /\ todo'[u] = todo[u] /\ view'[u] = view[u]
         /\ \A r \in Row : lock[r] = u => lock'[r] = u
  BY DEF End, IInv, Types

(* Steps that write nothing.                                               *)
LEMMA QuietStep ==
  ASSUME IInv, NEW t \in Tx, Begin(t) \/ Read(t) \/ Refuse(t) \/ Victim(t)
  PROVE  IInv'
<1>1. UNCHANGED <<booking, driver>>
  BY DEF Begin, Read, Refuse, Victim, dbVars
<1>2. RowsInv'
  BY <1>1 DEF IInv, RowsInv
<1>3. Types'
  <2>1. CASE Begin(t)
    <3>1. PICK j \in Request : /\ job' = [job EXCEPT ![t] = j]
                               /\ todo' = [todo EXCEPT ![t] = Script(j.kind)]
      BY <2>1 DEF Begin
    <3>2. Script(j.kind) \in Seq(Statement)
      BY RequestParts, ScriptsInOrder DEF InOrder
    <3>3. begun' \in 0..MaxRequests
      BY <2>1, MaxRequestsAssumption DEF Begin, IInv, Types
    <3>4. QED
      BY <2>1, <3>1, <3>2, <3>3 DEF Begin, IInv, Types, dbVars
  <2>2. CASE Read(t)
    <3>1. Tail(todo[t]) \in Seq(Statement)
      BY <2>2, NextStatement DEF Read, InOrder
    <3>2. todo' \in [Tx -> Seq(Statement)]
      BY <2>2, <3>1 DEF Read, IInv, Types
    <3>3. lock' \in [Row -> Tx \union {NoTx}]
      BY <2>2 DEF Read, IInv, Types
    <3>4. view' \in [Tx -> {<<>>} \union [Bookings -> Booking]]
      BY <2>2 DEF Read, IInv, Types
    <3>5. QED
      BY <1>1, <2>2, <3>2, <3>3, <3>4 DEF Read, IInv, Types
  <2>3. CASE Refuse(t) \/ Victim(t)
    BY <1>1, <2>3, EndTypes DEF Refuse, Victim, IInv, Types
  <2>4. QED
    BY <2>1, <2>2, <2>3
<1>4. TxInv(t)'
  BY BeginKeepsOwn, ReadKeepsOwn, EndKeepsOwn DEF Refuse, Victim
<1>5. ASSUME NEW u \in Tx \ {t} PROVE TxInv(u)'
  <2>1. /\ job'[u] = job[u] /\ todo'[u] = todo[u] /\ view'[u] = view[u]
        /\ \A r \in Row : lock[r] = u => lock'[r] = u
    <3>1. CASE Begin(t)
      BY <3>1 DEF Begin, IInv, Types
    <3>2. CASE Read(t)
      BY <3>2, ReadLocks DEF Read, IInv, Types
    <3>3. CASE Refuse(t) \/ Victim(t)
      BY <3>3, EndFrees DEF Refuse, Victim
    <3>4. QED
      BY <3>1, <3>2, <3>3
  <2>2. QED
    BY <1>1, <1>2, <2>1, UndisturbedKeeps DEF Undisturbed
<1>6. QED
  BY <1>2, <1>3, <1>4, <1>5 DEF IInv

-----------------------------------------------------------------------------
(* A commit.                                                               *)

Giving == {"claim", "assign", "reassign"}

(* What a transaction knows as it comes to its writes.                     *)
LEMMA CommitKnows ==
  ASSUME IInv, NEW t \in Tx, At(t, "write")
  PROVE  LET j == job[t]
         IN  /\ j \in Request /\ j.kind \in Kind
             /\ j.kind \in Giving \union {"release", "suspend"}
                  => j.d \in Drivers /\ lock[j.d] = t /\ DriverQualifies(j)
             /\ j.kind # "suspend" =>
                  /\ j.b \in Bookings
                  /\ lock[j.b] = t
                  /\ lock[ServiceOf[j.b]] = t
                  /\ \A c \in Bookings :
                       ServiceOf[c] = ServiceOf[j.b] => view[t][c] = booking[c]
                  /\ BookingQualifies(j)
                  /\ HasAssignment(booking[j.b]) => lock[booking[j.b].driver] = t
             /\ j.kind \in Giving => \A c \in Bookings : ~OwesSettlement(booking[c], j.d)
             /\ j.kind = "suspend" =>
                  \A b \in Listed(j.d) : lock[b] = t /\ lock[ServiceOf[b]] = t
<1>. DEFINE j == job[t]
<1>1. todo[t] # <<>> /\ Head(todo[t]) = "write"
  BY DEF At
<1>2. /\ j \in Request /\ j.kind \in Kind
      /\ Position(j.kind, "write") = Len(todo[t])
  BY <1>1, NextStatement
<1>3. Len(todo[t]) = 1
  BY <1>2, Positions
<1>4. \A x : Position(j.kind, x) > 1 => Passed(t, x)
  BY <1>1, <1>3 DEF Passed
<1>5. /\ j.kind \in {"claim", "assign", "reassign", "release", "suspend"} => j.d \in Drivers
      /\ j.kind # "suspend" => j.b \in Bookings
  BY <1>2, RequestParts
<1>6. TxInv(t)
  BY DEF IInv
<1>7. j.kind \in Giving \union {"release", "suspend"}
        => j.d \in Drivers /\ lock[j.d] = t /\ DriverQualifies(j)
  <2>1. j.kind \in Giving \union {"release", "suspend"} => Passed(t, "driver")
    BY <1>2, <1>4, Positions DEF Giving
  <2>2. QED
    BY <1>5, <1>6, <2>1 DEF TxInv, DriverHeld, Giving
<1>8. j.kind # "suspend" =>
        Passed(t, "booking") /\ Passed(t, "service") /\ Passed(t, "holder")
  BY <1>2, <1>4, Positions
<1>9. j.kind \in Giving => Passed(t, "settled")
  BY <1>2, <1>4, Positions DEF Giving
<1>10. j.kind = "suspend" => Passed(t, "listed")
  BY <1>2, <1>4, Positions
<1>11. QED
  BY <1>2, <1>5, <1>6, <1>7, <1>8, <1>9, <1>10
     DEF TxInv, BookingHeld, ServiceHeld, HolderHeld, SettledStill, ListHeld

(* A row without its assignment, with a new one, and in another status.    *)
SameBooking(s, r) ==
  /\ s \in Booking
  /\ s.archived = r.archived /\ s.exempt = r.exempt /\ s.pickup = r.pickup

(* The row of a booking whose assignment ended.                            *)
LEMMA EndedRow ==
  ASSUME NEW r \in Booking, r.driverColumn = r.driver
  PROVE  LET s == EndAssignment(r)
         IN  /\ SameBooking(s, r) /\ s.status = r.status
             /\ s.driver = NoDriver /\ s.driverColumn = NoDriver
  BY DEF EndAssignment, SameBooking, Booking

(* The row of a booking that got an assignment.                            *)
LEMMA InsertedRow ==
  ASSUME NEW r \in Booking, NEW d \in Drivers
  PROVE  LET s == InsertAssignment(r, d)
         IN  /\ SameBooking(s, r) /\ s.status = r.status
             /\ s.driver = d /\ s.driverColumn = d
  BY DEF InsertAssignment, SameBooking, Booking

(* The row of a booking after a change of status.                          *)
LEMMA MovedRow ==
  ASSUME NEW r \in Booking, NEW x \in Status
  PROVE  LET s == [r EXCEPT !.status = x]
         IN  /\ SameBooking(s, r) /\ s.status = x
             /\ s.driver = r.driver /\ s.driverColumn = r.driverColumn
  BY DEF SameBooking, Booking

(* The row of a booking that was reopened.                                 *)
LEMMA ReopenedRow ==
  ASSUME NEW r \in Booking, r.driver \in Drivers, r.driverColumn = r.driver,
         NEW cools \in BOOLEAN
  PROVE  LET s == Reopen(r, cools)
         IN  /\ SameBooking(s, r) /\ s.status = "OPEN"
             /\ s.driver = NoDriver /\ s.driverColumn = NoDriver
  BY DEF Reopen, EndAssignment, SameBooking, Booking, Status, WaitingStatus

(* The row a commit writes is in order, and who has it.                    *)
LEMMA WrittenRow ==
  ASSUME NEW j \in Request, j.kind # "suspend", RowOK(j.b, booking[j.b]),
         BookingQualifies(j)
  PROVE  LET r == booking[j.b]
             s == Written(j)
         IN  /\ RowOK(j.b, s)
             /\ j.kind \in Giving => s.driver = j.d /\ s.status = "DRIVER_ASSIGNED"
             /\ j.kind \in {"release", "unassign"} => s.driver = NoDriver
             /\ j.kind = "complete" => s.driver = r.driver /\ HasAssignment(r)
                                       /\ s.status = "SETTLEMENT_PENDING"
<1>. DEFINE r == booking[j.b]
            s == Written(j)
<1>1. j.kind \in Giving => j.d \in Drivers
  BY RequestParts DEF Giving
<1>2. r \in Booking /\ r.driverColumn = r.driver
  BY DEF RowOK
<1>3. "DRIVER_ASSIGNED" \in Status /\ "SETTLEMENT_PENDING" \in Status
  BY DEF Status, JobStatus, TripStatus
<1>4. CASE j.kind \in Giving
  <2>1. /\ SameBooking(s, r) /\ s.status = "DRIVER_ASSIGNED"
        /\ s.driver = j.d /\ s.driverColumn = j.d
    <3>1. CASE j.kind = "claim"
      <4>1. s = [InsertAssignment(r, j.d) EXCEPT !.status = "DRIVER_ASSIGNED"]
        BY <3>1 DEF Written
      <4>2. QED
        BY <1>1, <1>2, <1>3, <1>4, <4>1, InsertedRow, MovedRow DEF SameBooking
    <3>2. CASE j.kind = "assign"
      <4>. DEFINE i == InsertAssignment(r, j.d)
      <4>1. r.status = "OPEN"
        BY <3>2 DEF BookingQualifies, RowOK, HasAssignment
      <4>2. s = [i EXCEPT !.status = IF i.status \in WaitingStatus THEN "DRIVER_ASSIGNED"
                                     ELSE i.status]
        BY <3>2 DEF Written
      <4>3. i.status = "OPEN"
        BY <1>1, <1>2, <1>4, <4>1, InsertedRow
      <4>. HIDE DEF i
      <4>4. s = [i EXCEPT !.status = "DRIVER_ASSIGNED"]
        BY <4>2, <4>3 DEF WaitingStatus
      <4>5. QED
        BY <1>1, <1>2, <1>3, <1>4, <4>4, InsertedRow, MovedRow DEF SameBooking, i
    <3>3. CASE j.kind = "reassign"
      <4>1. s = InsertAssignment(EndAssignment(r), j.d)
        BY <3>3 DEF Written
      <4>2. r.status = "DRIVER_ASSIGNED"
        BY <3>3 DEF BookingQualifies, RowOK, HasAssignment
      <4>3. QED
        BY <1>1, <1>2, <1>4, <4>1, <4>2, EndedRow, InsertedRow DEF SameBooking
    <3>4. QED
      BY <1>4, <3>1, <3>2, <3>3 DEF Giving
  <2>. HIDE DEF s
  <2>2. QED
    BY <1>1, <1>4, <2>1, NoDriverAssumption DEF s, RowOK, SameBooking, Giving
<1>5. CASE j.kind \in {"release", "unassign"}
  <2>1. PICK cools \in BOOLEAN : s = Reopen(r, cools)
    BY <1>5 DEF Written
  <2>2. r.driver \in Drivers
    BY <1>2, <1>5, RequestParts DEF BookingQualifies, HasAssignment, Booking
  <2>3. /\ SameBooking(s, r) /\ s.status = "OPEN"
        /\ s.driver = NoDriver /\ s.driverColumn = NoDriver
    BY <1>2, <2>1, <2>2, ReopenedRow
  <2>. HIDE DEF s
  <2>4. QED
    BY <1>5, <2>3 DEF s, RowOK, SameBooking, Giving
<1>6. CASE j.kind = "complete"
  <2>1. HasAssignment(r) /\ ~r.exempt
    BY <1>6 DEF BookingQualifies, RowOK
  <2>2. s = ApplyTransition(r, "SETTLEMENT_PENDING")
    BY <1>6 DEF Written
  <2>3. s = [r EXCEPT !.status = "SETTLEMENT_PENDING", !.commission = "DUE"]
    BY <2>1, <2>2 DEF ApplyTransition
  <2>4. /\ SameBooking(s, r) /\ s.status = "SETTLEMENT_PENDING"
        /\ s.driver = r.driver /\ s.driverColumn = r.driver
    BY <1>2, <1>3, <2>3 DEF SameBooking, Booking, Commission
  <2>. HIDE DEF s
  <2>5. QED
    BY <1>6, <2>1, <2>4 DEF s, RowOK, SameBooking, Giving, HasAssignment
<1>7. QED
  BY <1>4, <1>5, <1>6, RequestParts DEF Kind, Giving

(* A commit writes only rows it has locked, and gives work only to a       *)
(* driver it has locked.                                                   *)
LEMMA CommitWrites ==
  ASSUME IInv, NEW t \in Tx, Commit(t)
  PROVE  /\ RowsInv'
         /\ booking' \in [Bookings -> Booking]
         /\ driver' \in [Drivers -> Serial!DriverRow]
         /\ \A d \in Drivers : driver'[d] # driver[d] => lock[d] = t
         /\ \A c \in Bookings : booking'[c] # booking[c] =>
              /\ lock[c] = t /\ lock[ServiceOf[c]] = t
              /\ HasAssignment(booking'[c]) => lock[booking'[c].driver] = t
<1>. DEFINE j == job[t]
<1>1. At(t, "write")
  BY DEF Commit
<1>2. /\ j \in Request /\ j.kind \in Kind
      /\ j.kind \in Giving \union {"release", "suspend"} => j.d \in Drivers /\ lock[j.d] = t
      /\ j.kind # "suspend" =>
           /\ j.b \in Bookings /\ lock[j.b] = t /\ lock[ServiceOf[j.b]] = t
           /\ BookingQualifies(j)
           /\ HasAssignment(booking[j.b]) => lock[booking[j.b].driver] = t
      /\ j.kind = "suspend" => \A b \in Listed(j.d) : lock[b] = t /\ lock[ServiceOf[b]] = t
  BY <1>1, CommitKnows
<1>3. CASE j.kind # "suspend"
  <2>. DEFINE s == Written(j)
  <2>1. booking' = [booking EXCEPT ![j.b] = s] /\ UNCHANGED driver
    BY <1>3 DEF Commit
  <2>2. RowOK(j.b, booking[j.b])
    BY <1>2, <1>3 DEF IInv, RowsInv
  <2>3. /\ RowOK(j.b, s)
        /\ HasAssignment(s) => lock[s.driver] = t
    BY <1>2, <1>3, <2>2, WrittenRow DEF Kind, Giving, HasAssignment
  <2>. HIDE DEF s
  <2>4. booking'[j.b] = s /\ \A c \in Bookings \ {j.b} : booking'[c] = booking[c]
    BY <1>2, <1>3, <2>1 DEF IInv, Types
  <2>5. booking' \in [Bookings -> Booking]
    BY <2>1, <2>3 DEF IInv, Types, RowOK
  <2>6. RowsInv'
    BY <2>1, <2>3, <2>4 DEF IInv, RowsInv
  <2>7. QED
    BY <1>2, <1>3, <2>1, <2>3, <2>4, <2>5, <2>6 DEF IInv, Types
<1>4. CASE j.kind = "suspend"
  <2>1. /\ booking' = [b \in Bookings |-> IF b \in Listed(j.d) THEN Reopen(booking[b], TRUE)
                                          ELSE booking[b]]
        /\ driver' = [driver EXCEPT ![j.d].status = "SUSPENDED"]
    BY <1>4 DEF Commit
  <2>2. ASSUME NEW b \in Listed(j.d)
        PROVE  RowOK(b, Reopen(booking[b], TRUE)) /\ ~HasAssignment(Reopen(booking[b], TRUE))
    <3>1. b \in Bookings /\ RowOK(b, booking[b]) /\ booking[b].driver \in Drivers
      BY <1>2, <1>4 DEF IInv, RowsInv, Listed, WorksOn
    <3>2. QED
      BY <3>1, NoDriverAssumption
         DEF RowOK, HasAssignment, Reopen, EndAssignment, Booking, Status, WaitingStatus
  <2>3. ASSUME NEW c \in Bookings
        PROVE  /\ RowOK(c, booking'[c])
               /\ booking'[c] # booking[c] => c \in Listed(j.d) /\ ~HasAssignment(booking'[c])
    BY <2>1, <2>2 DEF IInv, RowsInv
  <2>4. booking' \in [Bookings -> Booking]
    BY <2>1, <2>3 DEF RowOK
  <2>5. /\ driver' \in [Drivers -> Serial!DriverRow]
        /\ \A d \in Drivers : ~driver'[d].archived
        /\ \A d \in Drivers \ {j.d} : driver'[d] = driver[d]
    <3>1. j.d \in Drivers /\ driver[j.d] \in Serial!DriverRow /\ ~driver[j.d].archived
      BY <1>2, <1>4 DEF IInv, Types, RowsInv
    <3>. DEFINE e == [driver[j.d] EXCEPT !.status = "SUSPENDED"]
    <3>2. e \in Serial!DriverRow /\ ~e.archived
      BY <3>1 DEF Serial!DriverRow
    <3>3. driver' = [driver EXCEPT ![j.d] = e]
      BY <2>1
    <3>. HIDE DEF e
    <3>4. QED
      BY <3>1, <3>2, <3>3 DEF IInv, Types, RowsInv
  <2>6. QED
    BY <1>2, <1>4, <2>3, <2>4, <2>5 DEF RowsInv
<1>5. QED
  BY <1>3, <1>4

(* A commit keeps everything, for itself and for the others.               *)
LEMMA CommitStep ==
  ASSUME IInv, NEW t \in Tx, Commit(t)
  PROVE  IInv'
<1>1. End(t)
  BY DEF Commit
<1>2. Types'
  BY <1>1, CommitWrites, EndTypes DEF Types
<1>3. TxInv(t)'
  BY <1>1, EndKeepsOwn
<1>4. ASSUME NEW u \in Tx \ {t} PROVE TxInv(u)'
  <2>1. /\ job'[u] = job[u] /\ todo'[u] = todo[u] /\ view'[u] = view[u]
        /\ \A r \in Row : lock[r] = u => lock'[r] = u
    BY <1>1, EndFrees
  <2>2. ASSUME NEW d \in Drivers, lock[d] = u
        PROVE  /\ driver'[d] = driver[d]
               /\ \A c \in Bookings : booking'[c] # booking[c] => booking'[c].driver # d
    BY <2>2, CommitWrites, NoDriverAssumption DEF HasAssignment
  <2>3. ASSUME NEW c \in Bookings, lock[c] = u \/ lock[ServiceOf[c]] = u
        PROVE  booking'[c] = booking[c]
    BY <2>3, CommitWrites
  <2>4. Undisturbed(u)
    BY <2>1, <2>2, <2>3 DEF Undisturbed
  <2>5. QED
    BY <2>4, CommitWrites, UndisturbedKeeps
<1>5. QED
  BY <1>2, <1>3, <1>4, CommitWrites DEF IInv

(* No transaction runs at first.                                           *)
LEMMA InitIInv == Init => IInv
<1>. SUFFICES ASSUME Init PROVE IInv
  OBVIOUS
<1>1. ASSUME NEW b \in Bookings PROVE RowOK(b, booking[b])
  <2>1. booking[b] = NewBooking(PickupOf[b], FALSE) /\ PickupOf[b] \in Slots
    BY RowsAssumption DEF Init
  <2>2. QED
    BY <2>1 DEF NewBooking, RowOK, Booking, Status, WaitingStatus, Commission, Slip
<1>2. Types
  <2>1. booking \in [Bookings -> Booking]
    BY <1>1 DEF Init, RowOK
  <2>2. driver \in [Drivers -> Serial!DriverRow]
    BY DEF Init, Serial!DriverRow
  <2>3. lock \in [Row -> Tx \union {NoTx}] /\ job \in [Tx -> Request \union {Idle}]
    BY DEF Init
  <2>4. todo \in [Tx -> Seq(Statement)] /\ view \in [Tx -> {<<>>} \union [Bookings -> Booking]]
    BY DEF Init
  <2>5. begun \in 0..MaxRequests
    BY MaxRequestsAssumption DEF Init
  <2>6. QED
    BY <2>1, <2>2, <2>3, <2>4, <2>5 DEF Types
<1>3. RowsInv
  BY <1>1 DEF Init, RowsInv
<1>4. ASSUME NEW t \in Tx PROVE TxInv(t)
  <2>1. todo[t] = <<>>
    BY DEF Init
  <2>2. QED
    BY <2>1, FreshTx DEF Ordered, Passed
<1>5. QED
  BY <1>2, <1>3, <1>4 DEF IInv

(* Whatever requests run at once: what a transaction has locked stays      *)
(* locked, what it has read under a lock still holds, its read view is     *)
(* that of the rows of its service, and no trip of its driver ends between *)
(* the settlement check and the commit.                                    *)
THEOREM LocksProtectReads == Spec => []IInv
<1>1. IInv /\ [Next]_vars => IInv'
  <2>. SUFFICES ASSUME IInv, [Next]_vars PROVE IInv'
    OBVIOUS
  <2>1. CASE UNCHANGED vars
    <3>1. Types' /\ RowsInv'
      BY <2>1 DEF vars, IInv, Types, RowsInv
    <3>2. \A u \in Tx : Undisturbed(u)
      BY <2>1 DEF vars, Undisturbed
    <3>3. QED
      BY <3>1, <3>2, UndisturbedKeeps DEF IInv
  <2>2. CASE Rest
    BY <2>1, <2>2 DEF Rest
  <2>3. ASSUME NEW t \in Tx, Begin(t) \/ Read(t) \/ Commit(t) \/ Refuse(t) \/ Victim(t)
        PROVE  IInv'
    BY <2>3, QuietStep, CommitStep
  <2>4. QED
    BY <2>1, <2>2, <2>3 DEF Next
<1>2. QED
  BY <1>1, InitIInv, PTL DEF Spec

(* Every row, lock, request and read view keeps its type.                  *)
THEOREM TypeCorrect == Spec => []TypeOK
<1>1. IInv => TypeOK
  <2>1. ASSUME IInv, NEW t \in Tx PROVE Len(todo[t]) \in 0..6
    <3>1. CASE todo[t] = <<>>
      BY <3>1
    <3>2. CASE todo[t] # <<>>
      <4>1. /\ job[t].kind \in Kind /\ Head(todo[t]) \in Statement
            /\ Position(job[t].kind, Head(todo[t])) = Len(todo[t])
        BY <2>1, <3>2, NextStatement
      <4>2. QED
        BY <4>1, Positions
    <3>3. QED
      BY <3>1, <3>2
  <2>2. QED
    BY <2>1 DEF IInv, Types, TypeOK
<1>2. QED
  BY <1>1, LocksProtectReads, PTL

-----------------------------------------------------------------------------
(* A commit is a handler.                                                  *)

(* The read view shows every booking that a new one could clash with.      *)
CloseShareService ==
  \A b, c \in Bookings : TooClose(PickupOf[b], PickupOf[c]) => ServiceOf[b] = ServiceOf[c]

(* Serial has its own copies of the statements.                            *)
LEMMA SameStatements ==
  ASSUME NEW r, NEW d, NEW p, NEW q
  PROVE  /\ Serial!InsertAssignment(r, d) = InsertAssignment(r, d)
         /\ Serial!EndAssignment(r) = EndAssignment(r)
         /\ \A cools : Serial!Reopen(r, cools) = Reopen(r, cools)
         /\ \A x : Serial!ApplyTransition(r, x) = ApplyTransition(r, x)
         /\ Serial!HasAssignment(r) <=> HasAssignment(r)
         /\ Serial!IsJobOf(r, d) <=> IsJobOf(r, d)
         /\ Serial!WorksOn(r, d) <=> WorksOn(r, d)
         /\ Serial!OwesSettlement(r, d) <=> OwesSettlement(r, d)
         /\ Serial!TooClose(p, q) <=> TooClose(p, q)
         /\ Serial!WaitingStatus = WaitingStatus /\ Serial!ClosedStatus = ClosedStatus
         /\ Serial!TripStatus = TripStatus
  BY DEF Serial!InsertAssignment, InsertAssignment, Serial!EndAssignment, EndAssignment,
         Serial!Reopen, Reopen, Serial!ApplyTransition, ApplyTransition,
         Serial!ClearAssignmentOnCancel, ClearAssignmentOnCancel,
         Serial!HasAssignment, HasAssignment, Serial!IsJobOf, IsJobOf, Serial!WorksOn,
         WorksOn, Serial!OwesSettlement, OwesSettlement, Serial!TooClose, TooClose,
         Serial!ConflictGap, ConflictGap, Serial!WaitingStatus, WaitingStatus,
         Serial!ClosedStatus, ClosedStatus, Serial!TripStatus, TripStatus,
         Serial!UnderwayStatus, UnderwayStatus, Serial!JobStatus, JobStatus

(* What a request that gives work has checked holds of the rows.           *)
LEMMA ChecksStand ==
  ASSUME CloseShareService, IInv, NEW t \in Tx, Commit(t), job[t].kind \in Giving
  PROVE  LET d == job[t].d
             b == job[t].b
         IN  /\ d \in Drivers /\ b \in Bookings
             /\ ~Serial!HasBlockingSettlement(d)
             /\ Serial!PickupTimeFree(d, b)
             /\ job[t].kind = "claim" => d \notin booking[b].cooling
<1>. DEFINE j == job[t]
<1>1. /\ At(t, "write") /\ MayWrite(t)
  BY DEF Commit, Qualifies, At
<1>2. /\ j.d \in Drivers /\ j.b \in Bookings
      /\ \A c \in Bookings : ServiceOf[c] = ServiceOf[j.b] => view[t][c] = booking[c]
      /\ \A c \in Bookings : ~OwesSettlement(booking[c], j.d)
  BY <1>1, CommitKnows DEF Giving
<1>3. ~Serial!HasBlockingSettlement(j.d)
  BY <1>2, SameStatements DEF Serial!HasBlockingSettlement
<1>4. PickupTimeFree(t) /\ (j.kind = "claim" => ~Cooling(t))
  BY <1>1 DEF MayWrite, Giving
<1>5. ASSUME NEW c \in Bookings \ {j.b}, IsJobOf(booking[c], j.d)
      PROVE  ~TooClose(booking[c].pickup, booking[j.b].pickup)
  <2>1. booking[c].pickup = PickupOf[c] /\ booking[j.b].pickup = PickupOf[j.b]
    BY <1>2 DEF IInv, RowsInv, RowOK
  <2>2. CASE ServiceOf[c] = ServiceOf[j.b]
    BY <1>2, <1>4, <1>5, <2>2 DEF PickupTimeFree
  <2>3. CASE ServiceOf[c] # ServiceOf[j.b]
    BY <1>2, <2>1, <2>3 DEF CloseShareService
  <2>4. QED
    BY <2>2, <2>3
<1>6. Serial!PickupTimeFree(j.d, j.b)
  BY <1>5, SameStatements DEF Serial!PickupTimeFree
<1>7. j.kind = "claim" => j.d \notin booking[j.b].cooling
  BY <1>2, <1>4 DEF Cooling
<1>8. QED
  BY <1>2, <1>3, <1>6, <1>7

(* A commit does what a handler of BookingLifecycle does alone.            *)
LEMMA CommitIsHandler ==
  ASSUME CloseShareService, IInv, NEW t \in Tx, Commit(t)
  PROVE  Serial!Next
<1>. DEFINE j == job[t]
            d == job[t].d
            b == job[t].b
            r == booking[b]
<1>1. /\ At(t, "write") /\ MayWrite(t)
      /\ j.kind # "suspend" => /\ booking' = [booking EXCEPT ![b] = Written(j)]
                               /\ UNCHANGED driver
  BY DEF Commit, Qualifies, At
<1>2. /\ j \in Request /\ j.kind \in Kind
      /\ j.kind \in Giving \union {"release", "suspend"}
           => d \in Drivers /\ DriverQualifies(j)
      /\ j.kind # "suspend" => b \in Bookings /\ BookingQualifies(j)
  BY <1>1, CommitKnows
<1>3. /\ j.kind # "suspend" => ~r.archived
      /\ j.kind \in Giving \union {"release", "suspend"} => ~driver[d].archived
  BY <1>2 DEF IInv, RowsInv, RowOK
<1>4. j.kind \in Giving => /\ ~Serial!HasBlockingSettlement(d)
                           /\ Serial!PickupTimeFree(d, b)
                           /\ j.kind = "claim" => d \notin r.cooling
  BY ChecksStand
<1>. USE SameStatements, <1>1, <1>2, <1>3, <1>4
     DEF Giving, Serial!Visible, Serial!Write, Serial!Assignable
<1>5. CASE j.kind = "claim"
  <2>1. Serial!Claim(d, b)
    BY <1>5 DEF Serial!Claim, DriverQualifies, BookingQualifies, Written
  <2>2. QED
    BY <1>5, <2>1 DEF Serial!Next, Serial!JobAction
<1>6. CASE j.kind = "assign"
  <2>1. Serial!Assign(d, b)
    BY <1>6 DEF Serial!Assign, DriverQualifies, BookingQualifies, Written
  <2>2. QED
    BY <1>6, <2>1 DEF Serial!Next, Serial!JobAction
<1>7. CASE j.kind = "reassign"
  <2>1. Serial!Reassign(d, b)
    BY <1>7 DEF Serial!Reassign, DriverQualifies, BookingQualifies, Written
  <2>2. QED
    BY <1>7, <2>1 DEF Serial!Next, Serial!JobAction
<1>8. CASE j.kind = "release"
  <2>1. Serial!Release(d, b)
    BY <1>8 DEF Serial!Release, BookingQualifies, Written
  <2>2. QED
    BY <1>8, <2>1 DEF Serial!Next, Serial!JobAction
<1>9. CASE j.kind = "unassign"
  <2>1. Serial!Unassign(b)
    BY <1>9 DEF Serial!Unassign, BookingQualifies, Written
  <2>2. QED
    BY <1>9, <2>1 DEF Serial!Next, Serial!BookingAction
<1>10. CASE j.kind = "complete"
  <2>1. Serial!CompleteActiveTrip(b)
    BY <1>10 DEF Serial!CompleteActiveTrip, BookingQualifies, Written
  <2>2. QED
    BY <1>10, <2>1 DEF Serial!Next, Serial!BookingAction
<1>11. CASE j.kind = "suspend"
  <2>1. Serial!Suspend(d)
    <3>. DEFINE listed == {c \in Bookings : Serial!WorksOn(booking[c], d)
                                            /\ booking[c].status \in Serial!TripStatus}
    <3>1. listed = Listed(d)
      BY DEF Listed
    <3>2. booking' = [c \in Bookings |-> IF c \in listed THEN Reopen(booking[c], TRUE)
                                         ELSE booking[c]]
      BY <1>11, <3>1 DEF Commit
    <3>3. \A c \in listed : booking[c].status = "DRIVER_ASSIGNED" /\ booking[c].pickup > 0
      BY <1>11, <3>1 DEF MayWrite
    <3>4. driver' = [driver EXCEPT ![d].status = "SUSPENDED"]
      BY <1>11 DEF Commit
    <3>. HIDE DEF listed
    <3>5. \A c : Serial!Reopen(booking[c], TRUE) = Reopen(booking[c], TRUE)
      OBVIOUS
    <3>6. booking' = [c \in Bookings |-> IF c \in listed THEN Serial!Reopen(booking[c], TRUE)
                                         ELSE booking[c]]
      BY <3>2, <3>5
    <3>7. QED
      BY <3>3, <3>4, <3>6 DEF Serial!Suspend, Serial!WriteDriver, listed
  <2>2. QED
    BY <1>11, <2>1 DEF Serial!Next, Serial!DriverAction
<1>12. QED
  BY <1>5, <1>6, <1>7, <1>8, <1>9, <1>10, <1>11 DEF Kind

(* However many requests run at once, every commit is a step of one of     *)
(* their handlers done alone, if bookings close in time share a service.   *)
THEOREM CommitsSerialize ==
  ASSUME CloseShareService
  PROVE  Spec => CommitsAreHandlers
<1>1. IInv /\ [Next]_vars => [Serial!Next]_dbVars
  <2>. SUFFICES ASSUME IInv, [Next]_vars PROVE Serial!Next \/ UNCHANGED dbVars
    OBVIOUS
  <2>1. ASSUME NEW t \in Tx, Begin(t) \/ Read(t) \/ Refuse(t) \/ Victim(t)
        PROVE  UNCHANGED dbVars
    BY <2>1 DEF Begin, Read, Refuse, Victim
  <2>2. UNCHANGED vars \/ Rest => UNCHANGED dbVars
    BY DEF vars, Rest, dbVars
  <2>3. QED
    BY <2>1, <2>2, CommitIsHandler DEF Next
<1>2. QED
  BY <1>1, LocksProtectReads, PTL DEF Spec, CommitsAreHandlers

-----------------------------------------------------------------------------
(* Drivers.                                                                *)

(* A commit gives one booking to its driver, or lets bookings keep or lose *)
(* theirs, and then puts none of them on a trip.                           *)
LEMMA CommitEffect ==
  ASSUME IInv, NEW t \in Tx, Commit(t)
  PROVE  LET j == job[t]
         IN  \/ /\ j.kind \in Giving /\ j.b \in Bookings
                /\ booking'[j.b].driver = j.d
                /\ driver[j.d].status # "SUSPENDED"
                /\ \A c \in Bookings \ {j.b} : booking'[c] = booking[c]
                /\ UNCHANGED driver
             \/ /\ j.kind \notin Giving
                /\ \A c \in Bookings :
                     /\ booking'[c].driver \in {booking[c].driver, NoDriver}
                     /\ booking'[c].status \in TripStatus => booking'[c] = booking[c]
                /\ \/ UNCHANGED driver
                   \/ /\ \A d \in Drivers \ {j.d} : driver'[d] = driver[d]
                      /\ \A c \in Bookings :
                           booking'[c].driver = j.d => booking'[c].status \notin TripStatus
<1>. DEFINE j == job[t]
<1>1. At(t, "write")
  BY DEF Commit
<1>2. /\ j \in Request /\ j.kind \in Kind
      /\ j.kind \in Giving => DriverQualifies(j)
      /\ j.kind = "suspend" => j.d \in Drivers
      /\ j.kind # "suspend" => j.b \in Bookings /\ BookingQualifies(j)
  BY <1>1, CommitKnows
<1>3. CASE j.kind # "suspend"
  <2>. DEFINE s == Written(j)
  <2>1. booking' = [booking EXCEPT ![j.b] = s] /\ UNCHANGED driver
    BY <1>3 DEF Commit
  <2>2. RowOK(j.b, booking[j.b])
    BY <1>2, <1>3 DEF IInv, RowsInv
  <2>3. /\ j.kind \in Giving => s.driver = j.d
        /\ j.kind \in {"release", "unassign"} => RowOK(j.b, s) /\ s.driver = NoDriver
        /\ j.kind = "complete" => s.driver = booking[j.b].driver
                                  /\ s.status = "SETTLEMENT_PENDING"
    BY <1>2, <1>3, <2>2, WrittenRow
  <2>. HIDE DEF s
  <2>4. booking'[j.b] = s /\ \A c \in Bookings \ {j.b} : booking'[c] = booking[c]
    BY <1>2, <1>3, <2>1 DEF IInv, Types
  <2>5. CASE j.kind \in Giving
    BY <1>2, <1>3, <2>1, <2>3, <2>4, <2>5 DEF DriverQualifies, Giving
  <2>6. CASE j.kind \notin Giving
    <3>1. s.driver \in {booking[j.b].driver, NoDriver} /\ s.status \notin TripStatus
      BY <1>2, <1>3, <2>3, <2>6 DEF RowOK, Giving, Kind, TripStatus, UnderwayStatus
    <3>2. QED
      BY <2>1, <2>4, <2>6, <3>1
  <2>7. QED
    BY <2>5, <2>6
<1>4. CASE j.kind = "suspend"
  <2>1. /\ booking' = [b \in Bookings |-> IF b \in Listed(j.d) THEN Reopen(booking[b], TRUE)
                                          ELSE booking[b]]
        /\ driver' = [driver EXCEPT ![j.d].status = "SUSPENDED"]
    BY <1>4 DEF Commit
  <2>2. ASSUME NEW c \in Listed(j.d)
        PROVE  booking'[c].driver = NoDriver /\ booking'[c].status = "OPEN"
    <3>1. /\ c \in Bookings /\ booking[c] \in Booking /\ booking[c].driver \in Drivers
          /\ booking[c].driverColumn = booking[c].driver
      BY <1>2, <1>4 DEF IInv, RowsInv, RowOK, Listed, WorksOn
    <3>2. booking'[c] = Reopen(booking[c], TRUE)
      BY <2>1, <3>1
    <3>3. QED
      BY <3>1, <3>2, ReopenedRow
  <2>3. ASSUME NEW c \in Bookings, c \notin Listed(j.d)
        PROVE  /\ booking'[c] = booking[c]
               /\ booking'[c].driver = j.d => booking'[c].status \notin TripStatus
    <3>1. booking'[c] = booking[c] /\ ~booking[c].archived
      BY <2>1, <2>3 DEF IInv, RowsInv, RowOK
    <3>2. QED
      BY <2>3, <3>1 DEF Listed, WorksOn
  <2>4. \A d \in Drivers \ {j.d} : driver'[d] = driver[d]
    BY <2>1 DEF IInv, Types
  <2>5. "OPEN" \notin TripStatus /\ "suspend" \notin Giving
    BY DEF TripStatus, UnderwayStatus, Giving
  <2>6. ASSUME NEW c \in Bookings
        PROVE  /\ booking'[c].driver \in {booking[c].driver, NoDriver}
               /\ booking'[c].status \in TripStatus => booking'[c] = booking[c]
               /\ booking'[c].driver = j.d => booking'[c].status \notin TripStatus
    BY <2>2, <2>3, <2>5
  <2>7. QED
    BY <1>4, <2>4, <2>5, <2>6
<1>5. QED
  BY <1>3, <1>4

(* However many requests run at once, no driver gets two bookings within   *)
(* the hour, if such bookings share a service: each assignment then reads  *)
(* the driver's other bookings as they are, while it holds their service.  *)
THEOREM NobodyIsDoubleBooked ==
  ASSUME CloseShareService
  PROVE  Spec => []NoDoubleBooking
<1>. DEFINE Apart(b, c) ==
       b # c /\ HasAssignment(booking[b]) /\ booking[b].driver = booking[c].driver
         => ~TooClose(PickupOf[b], PickupOf[c])
     Alone == \A b, c \in Bookings : Apart(b, c)
<1>1. Init => Alone
  BY DEF Init, NewBooking, HasAssignment
<1>2. ASSUME IInv, Alone, NEW t \in Tx, Commit(t) PROVE Alone'
  <2>. DEFINE j == job[t]
  <2>1. CASE j.kind \in Giving
    <3>1. /\ j.b \in Bookings /\ j.d \in Drivers /\ booking'[j.b].driver = j.d
          /\ \A c \in Bookings \ {j.b} : booking'[c] = booking[c]
      BY <1>2, <2>1, CommitEffect, ChecksStand
    <3>2. ASSUME NEW c \in Bookings \ {j.b}, booking[c].driver = j.d
          PROVE  /\ ~TooClose(PickupOf[c], PickupOf[j.b])
                 /\ ~TooClose(PickupOf[j.b], PickupOf[c])
      <4>1. RowOK(c, booking[c]) /\ RowOK(j.b, booking[j.b])
        BY <1>2, <3>1 DEF IInv, RowsInv
      <4>2. IsJobOf(booking[c], j.d)
        BY <3>1, <3>2, <4>1, NoDriverAssumption
           DEF RowOK, IsJobOf, WorksOn, JobStatus, TripStatus
      <4>3. ~TooClose(booking[c].pickup, booking[j.b].pickup)
        BY <1>2, <2>1, <4>2, ChecksStand, SameStatements DEF Serial!PickupTimeFree
      <4>4. PickupOf[c] \in Nat /\ PickupOf[j.b] \in Nat
        BY <3>1, RowsAssumption, SlotsAssumption
      <4>5. QED
        BY <4>1, <4>3, <4>4 DEF RowOK, TooClose, ConflictGap
    <3>3. QED
      BY <1>2, <3>1, <3>2 DEF HasAssignment
  <2>2. CASE j.kind \notin Giving
    <3>1. \A c \in Bookings : booking'[c].driver \in {booking[c].driver, NoDriver}
      BY <1>2, <2>2, CommitEffect
    <3>2. QED
      BY <1>2, <3>1 DEF HasAssignment
  <2>3. QED
    BY <2>1, <2>2
<1>3. IInv /\ Alone /\ [Next]_vars => Alone'
  <2>1. ASSUME UNCHANGED booking, Alone PROVE Alone'
    BY <2>1
  <2>. HIDE DEF Alone
  <2>2. QED
    BY <1>2, <2>1 DEF Next, Begin, Read, Refuse, Victim, Rest, vars, dbVars
<1>4. IInv /\ Alone => NoDoubleBooking
  BY SameStatements DEF IInv, RowsInv, RowOK, NoDoubleBooking, Serial!NoDoubleBooking
<1>. HIDE DEF Alone
<1>5. QED
  BY <1>1, <1>3, <1>4, LocksProtectReads, PTL DEF Spec

(* However many requests run at once, a suspended driver has no trip to    *)
(* start or to finish: the suspension holds the driver's row from before   *)
(* it reads the list, and whoever gives him work needs that row.           *)
THEOREM SuspendedDriversStand == Spec => []SuspendedHasNoTrip
<1>. DEFINE Stands == \A d \in Drivers, b \in Bookings :
              driver[d].status = "SUSPENDED" /\ booking[b].driver = d
                => booking[b].status \notin TripStatus
<1>1. Init => Stands
  BY DEF Init
<1>2. ASSUME IInv, Stands, NEW t \in Tx, Commit(t) PROVE Stands'
  <2>. SUFFICES ASSUME NEW d \in Drivers, NEW b \in Bookings,
                       driver'[d].status = "SUSPENDED", booking'[b].driver = d
                PROVE  booking'[b].status \notin TripStatus
    OBVIOUS
  <2>. DEFINE j == job[t]
  <2>1. CASE j.kind \in Giving
    <3>1. /\ booking'[j.b].driver = j.d /\ driver[j.d].status # "SUSPENDED"
          /\ \A c \in Bookings \ {j.b} : booking'[c] = booking[c]
          /\ UNCHANGED driver
      BY <1>2, <2>1, CommitEffect
    <3>2. QED
      BY <1>2, <3>1
  <2>2. CASE j.kind \notin Giving
    BY <1>2, <2>2, CommitEffect
  <2>3. QED
    BY <2>1, <2>2
<1>3. IInv /\ Stands /\ [Next]_vars => Stands'
  <2>1. ASSUME UNCHANGED <<booking, driver>>, Stands PROVE Stands'
    BY <2>1
  <2>. HIDE DEF Stands
  <2>2. QED
    BY <1>2, <2>1 DEF Next, Begin, Read, Refuse, Victim, Rest, vars, dbVars
<1>4. Stands => SuspendedHasNoTrip
  BY SameStatements DEF SuspendedHasNoTrip, Serial!SuspendedHasNoTrip
<1>. HIDE DEF Stands
<1>5. QED
  BY <1>1, <1>3, <1>4, LocksProtectReads, PTL DEF Spec
=============================================================================
