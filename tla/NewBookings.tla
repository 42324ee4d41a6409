------------------------------ MODULE NewBookings ------------------------------
(***************************************************************************)
(* How a booking comes to be: entered by hand (ManualBooking), made by a   *)
(* customer (BookingCreation), and called out to the drivers once its      *)
(* contact is verified (ContactDispatch).  The three keep rows of their    *)
(* own and take their steps in any order.                                  *)
(***************************************************************************)
EXTENDS ManualBooking

CONSTANTS
  Tasks, NoTask,                       \* requests under way
  Keys, NoKey, Bodies, Coupons, NoCoupon, Discount, Requests, Balances,
  MaxBookings, MaxFaults,
  Drivers, Messengers, Phones, Channels, DefaultChannel,
  MaxConnections, MaxCustomerEdits

(* The rows of the creation are told apart by their names; requests have   *)
(* the fields of the API's, amounts are not negative.                      *)
ASSUME CreationAssumption ==
  /\ NoTask \notin Tasks /\ NoKey \notin Keys /\ NoCoupon \notin Coupons
  /\ Keys \cap Coupons = {}
  /\ "sequence" \notin Keys \cup Coupons /\ "account" \notin Keys \cup Coupons
  /\ Bodies # {} /\ Discount \in Nat /\ Balances \subseteq Nat
  /\ MaxBookings \in Nat /\ MaxFaults \in Nat
  /\ Requests \subseteq [key: Keys \cup {NoKey}, body: Bodies, fare: Nat,
                          coupon: Coupons \cup {NoCoupon}, mileage: Nat,
                          member: BOOLEAN]

(* The channel that unknown messengers fall back on is one of the known.   *)
ASSUME ContactAssumption ==
  /\ None \notin Tasks /\ DefaultChannel \in Channels \cap Messengers
  /\ MaxCustomerEdits \in Nat

VARIABLES
  keys, coupons, sequence, bookings, account, ledger, lock, gap, task, faults,
  booking, connections, calls, eligible, namedLock, request, page,
  saved, broadcasts, attempted, customerEdits, contactFaults

creationVars == <<keys, coupons, sequence, bookings, account, ledger, lock, gap, task, faults>>
contactVars == <<booking, connections, calls, eligible, namedLock, request, page,
                 saved, broadcasts, attempted, customerEdits, contactFaults>>
bookingsVars == <<vars, creationVars, contactVars>>

Creation == INSTANCE BookingCreation

Contact == INSTANCE ContactDispatch WITH
  MaxEdits <- MaxCustomerEdits, lock <- namedLock, task <- request,
  edits <- customerEdits, faults <- contactFaults

(* The desk that the customer sees: of the keys the answers that are kept, *)
(* of the requests under way the answers they are about to give; what a    *)
(* transaction has not committed is not there yet.                         *)
KeptAnswers ==
  [k \in Keys |->
     IF keys[k].status = "COMPLETED"
     THEN [body |-> keys[k].body, booking |-> keys[k].booking, expired |-> keys[k].expired]
     ELSE [body |-> Creation!AnyBody, booking |-> Creation!Unset, expired |-> FALSE]]
AnswersDue ==
  [t \in Tasks |-> IF task[t].at = "answered" THEN task[t].number ELSE Creation!Unset]

Promise == INSTANCE BookingDesk WITH
  kept <- KeptAnswers, balance <- account.balance, answers <- AnswersDue

-----------------------------------------------------------------------------
BookingsInit == Init /\ Creation!Init /\ Contact!Init

ManualStep == Next /\ UNCHANGED <<creationVars, contactVars>>
CreationStep == Creation!Next /\ UNCHANGED <<vars, contactVars>>
ContactStep == Contact!Next /\ UNCHANGED <<vars, creationVars>>
BookingsNext == ManualStep \/ CreationStep \/ ContactStep

BookingsSpec == BookingsInit /\ [][BookingsNext]_bookingsVars

-----------------------------------------------------------------------------
(* PROPERTIES of the parts, the manual bookings first.                     *)

(* The four copies of a manual booking's money, in its items, its total,   *)
(* its metadata and its commission columns, agree over any sequence of     *)
(* partial edits, and a charge that was entered stands.                    *)
MoneyAgrees == BooksBalance /\ DriverOwesSurplus /\ EnteredChargeStands

(* However the statements of concurrent requests interleave, and whatever  *)
(* fails between them, the customer sees the steps of BookingDesk: each    *)
(* request is placed at once, with everything it spends, or not at all.    *)
CreationIsAtomic == Promise!Desk

(* One idempotency key makes at most one booking, however often the client *)
(* sends it and wherever a handler fails, and what the client is answered  *)
(* for its key is the answer to the request it sent.                       *)
OneBookingPerKey == Creation!OneBookingPerKey /\ Creation!AnswerIsForRequest

(* A coupon and a mileage balance pay once: a coupon is spent on one       *)
(* booking, the account is what the ledger says, never below zero.         *)
SpentOnce == Creation!CouponSpentOnce /\ Creation!AccountMatchesLedger

(* What a trip earned or gave back in mileage agrees with how it ended,    *)
(* but for the effects a crash lost.                                       *)
MileageFollowsTrip == Creation!MileageFollowsTrip

(* However often the dispatch of a booking is repeated, and by whomever,   *)
(* its call is broadcast to the drivers once; what the booking's markers   *)
(* say of the call was done, and its snapshot of the contact is the        *)
(* connection it names.                                                    *)
CalledOnce ==
  Contact!CalledOnce /\ Contact!MarkersTellTruth /\ Contact!SnapshotMatchesConnection
=============================================================================
