----------------------- MODULE UrgentNegotiationProofs -----------------------
(***************************************************************************)
(* Theorems about every execution of UrgentNegotiation, for any drivers,   *)
(* bookings, number of rounds and proposals.  NInv, of the negotiations    *)
(* alone, is inductive whatever the administrators do.  Linked, which ties *)
(* them to the bookings, and with it the invariant of BookingLifecycle,    *)
(* needs administrators to leave the assignment of urgent bookings to the  *)
(* negotiation: BroadcastHasNoDriver shows what happens otherwise.         *)
(***************************************************************************)
EXTENDS UrgentNegotiation, BookingLifecycleProofs

(* One row: a driver holds it exactly while it is his turn or he was       *)
(* chosen, what the customer is asked is fast enough, and it is given up   *)
(* with the last round.                                                    *)
NegotiationOK(n) ==
  /\ n \in Negotiation
  /\ n.locked \in Drivers <=> n.status \in Held \union {"CONFIRMED"}
  /\ n.status = "AWAITING_CUSTOMER" => n.eta \in Etas /\ FastEnough(n, n.eta)
  /\ n.status = "CANCELLED" <=> n.attempts = MaxAttempts

NInv ==
  /\ negotiations \in [Bookings -> Seq(Negotiation)]
  /\ \A b \in Bookings : negotiations[b] # <<>>
  /\ \A b \in Bookings : \A i \in Rows(b) : NegotiationOK(negotiations[b][i])

Linked ==
  \A b \in Bookings :
    /\ booking[b].status = "OPEN" => Row(b).status \in Active
    /\ Row(b).status \in Active => /\ booking[b].status \in {"OPEN", "NO_SHOW"}
                                   /\ ~HasAssignment(booking[b])
    /\ \A i \in Rows(b) : negotiations[b][i].status = "CANCELLED"
                            => booking[b].status = "CANCELLED"

(* What a step may do to the required proposal of a row.                   *)
Faster(was, is) ==
  /\ was.minEta # is.minEta
       => was.minEta = NoEta \/ is.minEta \in 1..(was.minEta - 1)
  /\ was.status = "AWAITING_CUSTOMER" /\ was.attempts # is.attempts
       => was.minEta # is.minEta

FasterStep ==
  \A b \in Bookings : \A i \in Rows(b) :
    Faster(negotiations[b][i], negotiations'[b][i])

-----------------------------------------------------------------------------
(* The statements on the table.                                            *)

(* Row i of b becomes n, and no other row changes.                         *)
OnlyRow(b, i, n) ==
  \A c \in Bookings : \A j \in Rows(c) :
    negotiations'[c][j] = IF c = b /\ j = i THEN n ELSE negotiations[c][j]

(* A new negotiation is in order.                                          *)
LEMMA NewIsOK == NegotiationOK(NewNegotiation)
  BY MaxAttemptsAssumption, NoDriverAssumption
     DEF NegotiationOK, Negotiation, NewNegotiation, Active, Held, Closed

(* Every booking has a newest row.                                         *)
LEMMA NewestIsRow ==
  ASSUME NInv, NEW b \in Bookings
  PROVE  /\ Newest(b) \in Rows(b)
         /\ Newest(b) \in Nat \ {0}
         /\ Rows(b) = 1..Newest(b)
         /\ NegotiationOK(Row(b))
<1>1. negotiations[b] \in Seq(Negotiation) /\ negotiations[b] # <<>>
  BY DEF NInv
<1>2. /\ Newest(b) \in Nat \ {0} /\ Rows(b) = 1..Newest(b) /\ Newest(b) \in Rows(b)
  BY <1>1 DEF Newest, Rows
<1>3. QED
  BY <1>2 DEF NInv, Row

(* An update of one row to one in order changes that row only.             *)
LEMMA UpdateEffect ==
  ASSUME NInv, NEW b \in Bookings, NEW i \in Rows(b), NEW n, NegotiationOK(n),
         negotiations' = [negotiations EXCEPT ![b][i] = n]
  PROVE  /\ NInv'
         /\ \A c \in Bookings : /\ Rows(c)' = Rows(c)
                                /\ Newest(c)' = Newest(c)
         /\ OnlyRow(b, i, n)
<1>. DEFINE s == [negotiations[b] EXCEPT ![i] = n]
<1>1. negotiations[b] \in Seq(Negotiation) /\ n \in Negotiation /\ i \in 1..Len(negotiations[b])
  BY DEF NInv, Rows, NegotiationOK
<1>2. /\ s \in Seq(Negotiation) /\ Len(s) = Len(negotiations[b])
      /\ DOMAIN s = DOMAIN negotiations[b] /\ s # <<>>
      /\ \A j \in DOMAIN negotiations[b] : s[j] = IF j = i THEN n ELSE negotiations[b][j]
  BY <1>1
<1>3. negotiations' = [negotiations EXCEPT ![b] = s]
  OBVIOUS
<1>. HIDE DEF s
<1>4. /\ negotiations' \in [Bookings -> Seq(Negotiation)]
      /\ \A c \in Bookings : negotiations'[c] = IF c = b THEN s ELSE negotiations[c]
  BY <1>2, <1>3 DEF NInv
<1>5. \A c \in Bookings : Rows(c)' = Rows(c) /\ Newest(c)' = Newest(c)
  BY <1>2, <1>4 DEF Rows, Newest
<1>6. OnlyRow(b, i, n)
  BY <1>2, <1>4 DEF OnlyRow, Rows
<1>7. \A c \in Bookings : negotiations'[c] # <<>>
  BY <1>2, <1>4 DEF NInv
<1>8. \A c \in Bookings : \A j \in Rows(c)' : NegotiationOK(negotiations'[c][j])
  BY <1>5, <1>6 DEF NInv, OnlyRow
<1>9. QED
  BY <1>4, <1>5, <1>6, <1>7, <1>8 DEF NInv

(* A restart adds a new negotiation to each of the bookings and leaves     *)
(* every row there was.                                                    *)
LEMMA RestartEffect ==
  ASSUME NInv, NEW B, Restart(B)
  PROVE  /\ NInv'
         /\ \A c \in Bookings : \A j \in Rows(c) : /\ j \in Rows(c)'
                                                   /\ negotiations'[c][j] = negotiations[c][j]
         /\ \A c \in Bookings \ B : Row(c)' = Row(c) /\ Rows(c)' = Rows(c)
         /\ \A c \in Bookings \intersect B :
              /\ Row(c)' = NewNegotiation
              /\ \A j \in Rows(c)' : j \in Rows(c) \/ negotiations'[c][j] = NewNegotiation
<1>. DEFINE N(c) == Append(negotiations[c], NewNegotiation)
<1>1. negotiations' = [c \in Bookings |-> IF c \in B THEN N(c) ELSE negotiations[c]]
  BY DEF Restart
<1>2. ASSUME NEW c \in Bookings
      PROVE  /\ N(c) \in Seq(Negotiation) /\ N(c) # <<>>
             /\ Len(N(c)) = Len(negotiations[c]) + 1 /\ Len(negotiations[c]) \in Nat
             /\ DOMAIN negotiations[c] = 1..Len(negotiations[c])
             /\ DOMAIN N(c) = 1..(Len(negotiations[c]) + 1)
             /\ \A j \in DOMAIN negotiations[c] : N(c)[j] = negotiations[c][j]
             /\ N(c)[Len(negotiations[c]) + 1] = NewNegotiation
  <2>1. negotiations[c] \in Seq(Negotiation) /\ NewNegotiation \in Negotiation
    BY NewIsOK DEF NInv, NegotiationOK
  <2>2. QED
    BY <2>1
<1>. HIDE DEF N
<1>3. /\ negotiations' \in [Bookings -> Seq(Negotiation)]
      /\ \A c \in Bookings : negotiations'[c] = IF c \in B THEN N(c) ELSE negotiations[c]
  BY <1>1, <1>2 DEF NInv
<1>4. \A c \in Bookings : \A j \in Rows(c) : /\ j \in Rows(c)'
                                             /\ negotiations'[c][j] = negotiations[c][j]
  BY <1>2, <1>3 DEF Rows
<1>5. \A c \in Bookings \ B : Row(c)' = Row(c) /\ Rows(c)' = Rows(c)
  BY <1>3 DEF Row, Rows, Newest
<1>6. \A c \in Bookings \intersect B :
        /\ Row(c)' = NewNegotiation
        /\ \A j \in Rows(c)' : j \in Rows(c) \/ negotiations'[c][j] = NewNegotiation
  BY <1>2, <1>3 DEF Row, Rows, Newest
<1>7. \A c \in Bookings : negotiations'[c] # <<>>
  BY <1>2, <1>3 DEF NInv
<1>8. \A c \in Bookings : \A j \in Rows(c)' : NegotiationOK(negotiations'[c][j])
  <2>. TAKE c \in Bookings
  <2>1. CASE c \in B
    BY <1>4, <1>6, <2>1, NewIsOK DEF NInv
  <2>2. CASE c \notin B
    BY <1>4, <1>5, <2>2 DEF NInv
  <2>3. QED
    BY <2>1, <2>2
<1>9. QED
  BY <1>3, <1>4, <1>5, <1>6, <1>7, <1>8 DEF NInv

-----------------------------------------------------------------------------
(* A round.                                                                *)

(* What the steps of a round do to their row.                              *)
RowMove(n, m) == NegotiationOK(m) /\ Faster(n, m)

(* A row that moves this way keeps the table in order.                     *)
LEMMA UpdateStep ==
  ASSUME NInv, NEW b \in Bookings, NEW i \in Rows(b), NEW n,
         RowMove(negotiations[b][i], n),
         negotiations' = [negotiations EXCEPT ![b][i] = n]
  PROVE  NInv' /\ FasterStep
<1>1. NegotiationOK(n)
  BY DEF RowMove
<1>2. NInv' /\ OnlyRow(b, i, n)
  BY <1>1, UpdateEffect
<1>3. QED
  BY <1>2 DEF OnlyRow, FasterStep, RowMove, Faster

(* A reopened booking gets one fresh row.                                  *)
LEMMA RestartStep ==
  ASSUME NInv, NEW B, Restart(B)
  PROVE  NInv' /\ FasterStep
  BY RestartEffect DEF FasterStep, Faster

(* What leaves the table alone keeps it in order.                          *)
LEMMA SameNegotiations ==
  ASSUME NInv, UNCHANGED negotiations
  PROVE  NInv' /\ FasterStep
  BY DEF NInv, FasterStep, Faster, Rows

(* Locking starts a round without a proposal.                              *)
LEMMA LockMove ==
  ASSUME NEW n, NegotiationOK(n), NEW d \in Drivers, n.status = "BROADCASTING"
  PROVE  RowMove(n, [n EXCEPT !.status = "LOCKED", !.locked = d,
                              !.expired = FALSE, !.eta = NoEta])
<1>. DEFINE m == [n EXCEPT !.status = "LOCKED", !.locked = d, !.expired = FALSE,
                           !.eta = NoEta]
<1>1. /\ m \in Negotiation /\ m.status = "LOCKED" /\ m.locked = d
      /\ m.attempts = n.attempts /\ m.minEta = n.minEta
  BY DEF NegotiationOK, Negotiation, Active, Held
<1>. HIDE DEF m
<1>2. RowMove(n, m)
  BY <1>1 DEF RowMove, NegotiationOK, Faster, Held
<1>3. QED
  BY <1>2 DEF m

(* A proposal that is fast enough is put to the customer.                  *)
LEMMA ProposalMove ==
  ASSUME NEW n, NegotiationOK(n), NEW e \in Etas, FastEnough(n, e),
         n.status = "LOCKED"
  PROVE  RowMove(n, [n EXCEPT !.status = "AWAITING_CUSTOMER", !.expired = FALSE,
                              !.eta = e])
<1>. DEFINE m == [n EXCEPT !.status = "AWAITING_CUSTOMER", !.expired = FALSE, !.eta = e]
<1>1. /\ m \in Negotiation /\ m.status = "AWAITING_CUSTOMER" /\ m.locked = n.locked
      /\ m.attempts = n.attempts /\ m.minEta = n.minEta /\ m.eta = e
  BY DEF NegotiationOK, Negotiation, Active, Held
<1>. HIDE DEF m
<1>2. RowMove(n, m)
  BY <1>1 DEF RowMove, NegotiationOK, Faster, Held, FastEnough
<1>3. QED
  BY <1>2 DEF m

(* The acceptance keeps the driver.                                        *)
LEMMA AcceptanceMove ==
  ASSUME NEW n, NegotiationOK(n), n.status = "AWAITING_CUSTOMER"
  PROVE  RowMove(n, [n EXCEPT !.status = "CONFIRMED", !.expired = FALSE, !.eta = NoEta])
<1>. DEFINE m == [n EXCEPT !.status = "CONFIRMED", !.expired = FALSE, !.eta = NoEta]
<1>1. /\ m \in Negotiation /\ m.status = "CONFIRMED" /\ m.locked = n.locked
      /\ m.attempts = n.attempts /\ m.minEta = n.minEta
  BY DEF NegotiationOK, Negotiation, Closed
<1>. HIDE DEF m
<1>2. RowMove(n, m)
  BY <1>1 DEF RowMove, NegotiationOK, Faster, Held
<1>3. QED
  BY <1>2 DEF m

(* The end of a window.                                                    *)
LEMMA ExpiryMove ==
  ASSUME NEW n, NegotiationOK(n)
  PROVE  RowMove(n, [n EXCEPT !.expired = TRUE])
<1>. DEFINE m == [n EXCEPT !.expired = TRUE]
<1>1. /\ m \in Negotiation /\ m.status = n.status /\ m.locked = n.locked
      /\ m.attempts = n.attempts /\ m.minEta = n.minEta /\ m.eta = n.eta
  BY DEF NegotiationOK, Negotiation
<1>. HIDE DEF m
<1>2. RowMove(n, m)
  BY <1>1 DEF RowMove, NegotiationOK, Faster, FastEnough
<1>3. QED
  BY <1>2 DEF m

(* A failed round: with the proposal that was turned down, if there was    *)
(* one, as the new bound, and given up when it was the last one.           *)
LEMMA FailureMove ==
  ASSUME NEW n, NegotiationOK(n), n.status \in Held,
         NEW e, e = IF n.status = "AWAITING_CUSTOMER" THEN n.eta ELSE NoEta,
         NEW to, to = IF n.attempts + 1 >= MaxAttempts THEN "CANCELLED"
                      ELSE "BROADCASTING"
  PROVE  RowMove(n, [n EXCEPT !.attempts = @ + 1, !.locked = NoDriver,
                              !.expired = FALSE, !.eta = NoEta,
                              !.minEta = IF e = NoEta THEN @ ELSE e, !.status = to])
<1>. DEFINE m == [n EXCEPT !.attempts = @ + 1, !.locked = NoDriver,
                           !.expired = FALSE, !.eta = NoEta,
                           !.minEta = IF e = NoEta THEN @ ELSE e, !.status = to]
<1>1. n.attempts \in 0..(MaxAttempts - 1)
  BY MaxAttemptsAssumption DEF NegotiationOK, Negotiation, Held
<1>a. /\ n \in Negotiation /\ e \in Etas \union {NoEta}
      /\ to \in Active \union Closed
  BY DEF NegotiationOK, Active, Closed
<1>b. n.attempts + 1 \in 0..MaxAttempts
  BY <1>1, MaxAttemptsAssumption
<1>2. /\ m \in Negotiation /\ m.status = to /\ m.locked = NoDriver
      /\ m.attempts = n.attempts + 1
      /\ m.minEta = IF e = NoEta THEN n.minEta ELSE e
  BY <1>a, <1>b DEF Negotiation
<1>3. Faster(n, m)
  BY <1>2, MaxEtaAssumption
     DEF Faster, NegotiationOK, Negotiation, FastEnough, Etas, NoEta
<1>. HIDE DEF m
<1>4. NegotiationOK(m)
  BY <1>1, <1>2, NoDriverAssumption, MaxAttemptsAssumption DEF NegotiationOK, Held
<1>5. QED
  BY <1>3, <1>4 DEF RowMove, m

-----------------------------------------------------------------------------
(* The handlers of a round on the table of negotiations.                   *)

(* A driver locks a row that is broadcast.                                 *)
LEMMA LockStep ==
  ASSUME NInv, NEW d \in Drivers, NEW b \in Bookings, Lock(d, b)
  PROVE  NInv' /\ FasterStep
<1>. DEFINE m(n) == [n EXCEPT !.status = "LOCKED", !.locked = d,
                              !.expired = FALSE, !.eta = NoEta]
<1>1. PICK i \in Rows(b) :
        /\ negotiations[b][i].status = "BROADCASTING"
        /\ negotiations' = [negotiations EXCEPT ![b][i] = m(negotiations[b][i])]
  BY DEF Lock, Update
<1>2. NegotiationOK(negotiations[b][i])
  BY DEF NInv
<1>3. RowMove(negotiations[b][i], m(negotiations[b][i]))
  BY <1>1, <1>2, LockMove
<1>. HIDE DEF m
<1>4. QED
  BY <1>1, <1>3, UpdateStep

(* The other handlers take the newest row.                                 *)
LEMMA NewestStep ==
  ASSUME NInv, NEW b \in Bookings, NEW n, RowMove(Row(b), n),
         Update(b, Newest(b), n)
  PROVE  NInv' /\ FasterStep
<1>1. /\ Newest(b) \in Rows(b)
      /\ RowMove(negotiations[b][Newest(b)], n)
      /\ negotiations' = [negotiations EXCEPT ![b][Newest(b)] = n]
  BY NewestIsRow DEF Row, Update
<1>2. QED
  BY <1>1, UpdateStep

(* A proposal is faster than what was refused.                             *)
LEMMA SubmitEtaStep ==
  ASSUME NInv, NEW d \in Drivers, NEW b \in Bookings, NEW e \in Etas,
         SubmitEta(d, b, e)
  PROVE  NInv' /\ FasterStep
<1>. DEFINE m == [Row(b) EXCEPT !.status = "AWAITING_CUSTOMER", !.expired = FALSE,
                                !.eta = e]
<1>1. Row(b).status = "LOCKED" /\ FastEnough(Row(b), e) /\ Update(b, Newest(b), m)
  BY DEF SubmitEta
<1>2. RowMove(Row(b), m)
  BY <1>1, NewestIsRow, ProposalMove
<1>. HIDE DEF m
<1>3. QED
  BY <1>1, <1>2, NewestStep

(* The customer accepts the proposal.                                      *)
LEMMA CustomerAcceptStep ==
  ASSUME NInv, NEW b \in Bookings, CustomerAccept(b)
  PROVE  NInv' /\ FasterStep
<1>. DEFINE m == [Row(b) EXCEPT !.status = "CONFIRMED", !.expired = FALSE, !.eta = NoEta]
<1>1. Row(b).status = "AWAITING_CUSTOMER" /\ Update(b, Newest(b), m)
  BY DEF CustomerAccept
<1>2. RowMove(Row(b), m)
  BY <1>1, NewestIsRow, AcceptanceMove
<1>. HIDE DEF m
<1>3. QED
  BY <1>1, <1>2, NewestStep

(* Time passes.                                                            *)
LEMMA ExpireStep ==
  ASSUME NInv, NEW b \in Bookings, Expire(b)
  PROVE  NInv' /\ FasterStep
<1>. DEFINE m(n) == [n EXCEPT !.expired = TRUE]
<1>1. PICK i \in Rows(b) :
        negotiations' = [negotiations EXCEPT ![b][i].expired = TRUE]
  BY DEF Expire
<1>2. negotiations' = [negotiations EXCEPT ![b][i] = m(negotiations[b][i])]
  BY <1>1
<1>3. RowMove(negotiations[b][i], m(negotiations[b][i]))
  BY ExpiryMove DEF NInv
<1>. HIDE DEF m
<1>4. QED
  BY <1>2, <1>3, UpdateStep

(* A round that failed; e is the proposal turned down, if there was one.   *)
Failed(n, e, to) == [n EXCEPT !.attempts = @ + 1, !.locked = NoDriver,
                              !.expired = FALSE, !.eta = NoEta,
                              !.minEta = IF e = NoEta THEN @ ELSE e, !.status = to]

LastRound(n) == n.attempts + 1 >= MaxAttempts

(* What the four handlers that fail a round have in common.                *)
Failure(b, e) == /\ Row(b).status \in Held
                 /\ e = IF Row(b).status = "AWAITING_CUSTOMER" THEN Row(b).eta ELSE NoEta
                 /\ FailRound(b, e)

(* A failed round is broadcast again or, the last one, takes the booking along. *)
LEMMA FailureEffect ==
  ASSUME NInv, NEW b \in Bookings, NEW e, Failure(b, e)
  PROVE  \E to \in {"CANCELLED", "BROADCASTING"} :
           /\ Update(b, Newest(b), Failed(Row(b), e, to))
           /\ RowMove(Row(b), Failed(Row(b), e, to))
           /\ \/ /\ to = "CANCELLED"
                 /\ Write(b, [booking[b] EXCEPT !.status = "CANCELLED"])
              \/ to = "BROADCASTING" /\ UNCHANGED booking
<1>. DEFINE n == Row(b)
            to == IF LastRound(n) THEN "CANCELLED" ELSE "BROADCASTING"
<1>1. NegotiationOK(n)
  BY NewestIsRow
<1>2. [n EXCEPT !.attempts = @ + 1, !.locked = NoDriver, !.expired = FALSE,
                !.eta = NoEta, !.minEta = IF e = NoEta THEN @ ELSE e].attempts
        = n.attempts + 1
  BY <1>1 DEF NegotiationOK, Negotiation
<1>3. RowMove(n, Failed(n, e, to))
  BY <1>1, FailureMove DEF Failure, Failed, LastRound
<1>4. /\ Update(b, Newest(b), Failed(n, e, to))
      /\ \/ /\ to = "CANCELLED"
            /\ Write(b, [booking[b] EXCEPT !.status = "CANCELLED"])
         \/ to = "BROADCASTING" /\ UNCHANGED booking
  BY <1>2 DEF Failure, FailRound, Failed, LastRound
<1>5. QED
  BY <1>3, <1>4

(* It keeps the table in order.                                            *)
LEMMA FailureStep ==
  ASSUME NInv, NEW b \in Bookings, NEW e, Failure(b, e)
  PROVE  NInv' /\ FasterStep
  BY FailureEffect, NewestStep

(* A rejection and both timeouts are failed rounds.                        *)
LEMMA FailuresAre ==
  ASSUME NEW b \in Bookings, CustomerReject(b) \/ EtaTimeout(b) \/ DecisionTimeout(b)
  PROVE  /\ UNCHANGED <<driver, now>>
         /\ \E e : Failure(b, e)
  BY DEF CustomerReject, EtaTimeout, DecisionTimeout, TimedOut, Failure, Held

(* Every step keeps the table in order, and no step raises the required    *)
(* proposal.                                                               *)
LEMMA NextNegotiations == NInv /\ [UrgentNext]_urgentVars => NInv' /\ FasterStep
<1>. SUFFICES ASSUME NInv, [UrgentNext]_urgentVars PROVE NInv' /\ FasterStep
  OBVIOUS
<1>1. ASSUME NEW b \in Bookings, RoundAction(b) PROVE NInv' /\ FasterStep
  <2>1. CASE CustomerReject(b) \/ EtaTimeout(b) \/ DecisionTimeout(b)
    BY <2>1, FailuresAre, FailureStep
  <2>2. QED
    BY <1>1, <2>1, LockStep, SubmitEtaStep, CustomerAcceptStep, ExpireStep
       DEF RoundAction
<1>2. ASSUME NEW b \in Bookings, UrgentUnassign(b) PROVE NInv' /\ FasterStep
  BY <1>2, RestartStep DEF UrgentUnassign
<1>3. ASSUME NEW d \in Drivers, UrgentSuspend(d) PROVE NInv' /\ FasterStep
  BY <1>3, RestartStep DEF UrgentSuspend
<1>4. ASSUME NEW d \in Drivers, NEW b \in Bookings, UrgentRelease(d, b)
      PROVE  NInv' /\ FasterStep
  BY <1>4, RestartStep DEF UrgentRelease
<1>5. CASE UNCHANGED negotiations
  BY <1>5, SameNegotiations
<1>6. QED
  BY <1>1, <1>2, <1>3, <1>4, <1>5 DEF UrgentNext, UrgentAssign, urgentVars

(* Each booking starts with the row its creation inserts.                  *)
LEMMA InitNegotiations == UrgentInit => NInv
<1>1. NewNegotiation \in Negotiation
  BY NewIsOK DEF NegotiationOK
<1>2. /\ <<NewNegotiation>> \in Seq(Negotiation) /\ <<NewNegotiation>> # <<>>
      /\ DOMAIN <<NewNegotiation>> = {1} /\ <<NewNegotiation>>[1] = NewNegotiation
  BY <1>1
<1>3. QED
  BY <1>2, NewIsOK DEF UrgentInit, NInv, Rows

(* The table is in order in every reachable state.                         *)
THEOREM NegotiationsInOrder == UrgentSafety => []NInv
<1>1. NInv /\ [UrgentNext]_urgentVars => NInv'
  BY NextNegotiations
<1>2. QED
  BY <1>1, InitNegotiations, PTL DEF UrgentSafety

(* Each rejected or unanswered proposal was faster than all those before,  *)
(* whatever the administrators do.                                         *)
THEOREM AlwaysFaster == UrgentSafety => EverFaster
<1>1. NInv /\ [UrgentNext]_urgentVars => [FasterStep]_urgentVars
  BY NextNegotiations
<1>2. UrgentSafety => [][FasterStep]_urgentVars
  BY <1>1, NegotiationsInOrder, PTL DEF UrgentSafety
<1>3. QED
  BY <1>2 DEF EverFaster, FasterStep, Faster

-----------------------------------------------------------------------------
(* Negotiations and bookings together, while administrators leave the      *)
(* assignment of urgent bookings alone.                                    *)

UInv == IInv /\ NInv /\ Linked

(* What the other handlers do to the status and the driver of a row that a *)
(* negotiation may depend on.                                              *)
Calm(r, s) ==
  /\ s.status = "OPEN" => r.status = "OPEN"
  /\ r.status \in {"OPEN", "NO_SHOW"} /\ ~HasAssignment(r)
       => s.status \in {"OPEN", "NO_SHOW"} /\ ~HasAssignment(s)

(* A step that neither opens nor assigns a booking keeps both tables linked. *)
LEMMA LinkedCalm ==
  ASSUME Linked, UNCHANGED negotiations,
         \A c \in Bookings :
           /\ Calm(booking[c], booking'[c])
           /\ booking[c].status = "CANCELLED" => booking'[c].status = "CANCELLED"
  PROVE  Linked'
<1>1. \A c \in Bookings : Row(c)' = Row(c) /\ Rows(c)' = Rows(c)
  BY DEF Row, Rows, Newest
<1>. SUFFICES ASSUME NEW c \in Bookings
              PROVE  /\ booking'[c].status = "OPEN" => Row(c)'.status \in Active
                     /\ Row(c)'.status \in Active
                          => /\ booking'[c].status \in {"OPEN", "NO_SHOW"}
                             /\ ~HasAssignment(booking'[c])
                     /\ \A i \in Rows(c)' : negotiations'[c][i].status = "CANCELLED"
                                             => booking'[c].status = "CANCELLED"
  BY DEF Linked
<1>2. QED
  BY <1>1 DEF Linked, Calm

(* A handler that writes one booking.                                      *)
LEMMA LinkedWrite ==
  ASSUME UInv, RowsStep, NEW b \in Bookings, NEW r, Write(b, r),
         Calm(booking[b], r), UNCHANGED negotiations
  PROVE  Linked'
<1>1. ASSUME NEW c \in Bookings PROVE Calm(booking[c], booking'[c])
  <2>1. booking'[c] = IF c = b THEN r ELSE booking[c]
    BY DEF Write, UInv, IInv, TypeOK
  <2>2. Calm(booking[c], booking[c])
    BY DEF Calm
  <2>3. QED
    BY <2>1, <2>2
<1>2. ASSUME NEW c \in Bookings, booking[c].status = "CANCELLED"
      PROVE  booking'[c].status = "CANCELLED"
  BY <1>2 DEF RowsStep, Moves, RowStep, ClosedStatus
<1>3. QED
  BY <1>1, <1>2, LinkedCalm DEF UInv

(* The moves of an assigned booking.                                       *)
LEMMA MoveIsCalm ==
  ASSUME NEW r, NEW to, RowOK(r), SafeMove(r, to), HasAssignment(r), to # "OPEN"
  PROVE  Calm(r, ApplyTransition(r, to))
<1>. DEFINE s == ApplyTransition(r, to)
<1>1. r \in Booking /\ r.driverColumn = r.driver /\ to \in Status
  BY DEF RowOK, SafeMove
<1>2. s.status # "OPEN"
  <2>1. CASE to = "SETTLEMENT_PENDING"
    BY <1>1, <2>1, EndOfTripEffect
  <2>2. CASE to # "SETTLEMENT_PENDING"
    BY <1>1, <2>2, PlainMoveEffect
  <2>3. QED
    BY <2>1, <2>2
<1>3. QED
  BY <1>2 DEF Calm

(* Steps that change neither the status nor the driver of a booking.       *)
LEMMA StillIsCalm ==
  ASSUME NEW r, NEW s, s.status = r.status, s.driver = r.driver
  PROVE  Calm(r, s)
  BY DEF Calm, HasAssignment

(* A no-show is such a step,                                               *)
LEMMA NoShowIsCalm ==
  ASSUME UInv, NEW b \in Bookings, NoShow(b)
  PROVE  \E s : Write(b, s) /\ Calm(booking[b], s)
<1>. DEFINE r == booking[b]
            m == ApplyTransition(r, "NO_SHOW")
            s == ClearAssignmentOnCancel(m)
<1>1. /\ r \in Booking /\ r.driverColumn = r.driver /\ "NO_SHOW" \in Status
      /\ Write(b, s)
  BY DEF UInv, IInv, RowOK, NoShow, Status, ClosedStatus
<1>2. m \in Booking /\ m.status = "NO_SHOW"
  BY <1>1, PlainMoveEffect
<1>. HIDE DEF m
<1>3. s.status = "NO_SHOW" /\ s.driver = NoDriver
  BY <1>2, ClearEffect
<1>. HIDE DEF s
<1>4. Calm(r, s)
  BY <1>3 DEF Calm, HasAssignment
<1>5. QED
  BY <1>1, <1>4 DEF r

(* so is a settlement,                                                     *)
LEMMA SettleIsCalm ==
  ASSUME UInv, NEW b \in Bookings, Approve(b) \/ ManualApprove(b)
  PROVE  \E s : Write(b, s) /\ Calm(booking[b], s)
<1>. DEFINE r == booking[b]
            m == ApplyTransition(r, "COMPLETED")
            s == [m EXCEPT !.commission = "PAID"]
<1>1. /\ r \in Booking /\ r.driverColumn = r.driver /\ "COMPLETED" \in Status
      /\ r.status = "SETTLEMENT_PENDING" /\ Write(b, s)
  BY DEF UInv, IInv, RowOK, Approve, ManualApprove, Settle, Status, ClosedStatus
<1>2. m \in Booking /\ m.status = "COMPLETED"
  BY <1>1, PlainMoveEffect
<1>. HIDE DEF m
<1>3. s.status = "COMPLETED"
  BY <1>2 DEF Booking
<1>. HIDE DEF s
<1>4. Calm(r, s)
  BY <1>1, <1>3 DEF Calm
<1>5. QED
  BY <1>1, <1>4 DEF r

(* what drivers confirm or upload,                                         *)
LEMMA QuietIsCalm ==
  ASSUME UInv, NEW d \in Drivers, NEW b \in Bookings,
         Accept(d, b) \/ UploadReceipt(d, b) \/ Reject(b)
  PROVE  \E s : Write(b, s) /\ Calm(booking[b], s)
<1>. DEFINE r == booking[b]
<1>0. r \in Booking
  BY DEF UInv, IInv, RowOK
<1>. HIDE DEF r
<1>1. ASSUME NEW f PROVE Calm(r, [r EXCEPT !.slip = f]) /\ Calm(r, [r EXCEPT !.accepted = f])
  BY <1>0, StillIsCalm DEF Booking
<1>2. QED
  BY <1>1 DEF r, Accept, AcceptAssignment, UploadReceipt, Reject

(* and the trip.                                                           *)
LEMMA TripIsCalm ==
  ASSUME UInv, NEW d \in Drivers, NEW b \in Bookings,
         \/ StartOnRoute(d, b) \/ MarkArrived(d, b) \/ MarkPickedUp(d, b) \/ EndTrip(d, b)
         \/ CompleteActiveTrip(b)
         \/ \E to \in Status : ChangeStatusByDriver(d, b, to)
  PROVE  \E s : Write(b, s) /\ Calm(booking[b], s)
<1>. DEFINE r == booking[b]
<1>0. RowOK(r) /\ r \in Booking /\ r.driverColumn = r.driver
  BY DEF UInv, IInv, RowOK
<1>1. ASSUME NEW from, NEW to, <<from, to>> \in DriverMoves \ {<<"OPEN", "DRIVER_ASSIGNED">>},
             TripStep(d, b, from, to)
      PROVE  /\ SafeMove(r, to) /\ to # "OPEN"
             /\ HasAssignment(r) /\ Write(b, ApplyTransition(r, to))
  <2>1. r.status = from /\ HasAssignment(r) /\ Write(b, ApplyTransition(r, to))
    BY <1>1, NoDriverAssumption DEF TripStep, WorksOn, HasAssignment
  <2>2. SafeMove(r, to) /\ to # "OPEN"
    BY <1>1, <2>1 DEF DriverMoves, SafeMove, Status, JobStatus, TripStatus,
                      UnderwayStatus, ClosedStatus
  <2>3. QED
    BY <2>1, <2>2
<1>2. ASSUME NEW to \in Status, ChangeStatusByDriver(d, b, to)
      PROVE  /\ SafeMove(r, to) /\ to # "OPEN"
             /\ HasAssignment(r) /\ Write(b, ApplyTransition(r, to))
  <2>1. /\ HasAssignment(r) /\ Write(b, ApplyTransition(r, to))
        /\ ValidTransition(r.status, to, "DRIVER")
    BY <1>0, <1>2, NoDriverAssumption DEF ChangeStatusByDriver, HasAssignment
  <2>2. SafeMove(r, to)
    BY <1>0, <2>1, ValidMovesAreSafe DEF Role
  <2>3. to # "OPEN"
    BY <2>1 DEF ValidTransition, TransitionAllowed, DriverMoves
  <2>4. QED
    BY <2>1, <2>2, <2>3
<1>3. ASSUME CompleteActiveTrip(b)
      PROVE  /\ SafeMove(r, "SETTLEMENT_PENDING")
             /\ HasAssignment(r) /\ Write(b, ApplyTransition(r, "SETTLEMENT_PENDING"))
  BY <1>3 DEF CompleteActiveTrip, SafeMove, Status, JobStatus, TripStatus,
              UnderwayStatus, ClosedStatus
<1>4. \E to : /\ SafeMove(r, to) /\ to # "OPEN"
              /\ HasAssignment(r) /\ Write(b, ApplyTransition(r, to))
  BY <1>1, <1>2, <1>3
     DEF StartOnRoute, MarkArrived, MarkPickedUp, EndTrip, DriverMoves
<1>5. QED
  BY <1>0, <1>4, MoveIsCalm

(* The rest of the booking's life, handler by handler.                     *)
LEMMA OtherActionLinked ==
  ASSUME UInv, NEW d \in Drivers, NEW b \in Bookings, OtherAction(d, b),
         UNCHANGED negotiations
  PROVE  IInv' /\ Linked'
<1>1. Next
  BY DEF OtherAction, Next, DriverAction, BookingAction, JobAction
<1>2. RowsStep /\ IInv'
  <2>1. RowsStep /\ driver' \in [Drivers -> DriverRow] /\ now' \in 0..MaxHour
    BY <1>1, NextRowsStep, NextOtherTypes DEF UInv
  <2>2. QED
    BY <2>1 DEF RowsStep, Moves, RowStep, IInv, TypeOK
<1>3. CASE \E s : Write(b, s) /\ Calm(booking[b], s)
  BY <1>2, <1>3, LinkedWrite
<1>c. \A c \in Bookings : booking[c].status = "CANCELLED" => booking'[c].status = "CANCELLED"
  BY <1>2 DEF RowsStep, Moves, RowStep, ClosedStatus
<1>4. CASE UNCHANGED booking
  BY <1>2, <1>4, LinkedCalm DEF UInv, Calm
<1>5. CASE PassTime
  <2>1. ASSUME NEW c \in Bookings
        PROVE  booking'[c].status = booking[c].status /\ booking'[c].driver = booking[c].driver
    <3>1. booking[c] \in Booking /\ booking'[c] = [booking[c] EXCEPT !.cooling = {}]
      BY <1>5 DEF PassTime, UInv, IInv, RowOK
    <3>2. QED
      BY <3>1 DEF Booking
  <2>2. \A c \in Bookings : Calm(booking[c], booking'[c])
    BY <2>1, StillIsCalm
  <2>3. QED
    BY <1>2, <1>c, <2>2, LinkedCalm DEF UInv
<1>6. QED
  BY <1>2, <1>3, <1>4, <1>5, NoShowIsCalm, SettleIsCalm, QuietIsCalm, TripIsCalm
     DEF OtherAction, GoOnline, GoOffline, Unsuspend

(* A round goes on: the row stays active.                                  *)
LEMMA ActiveLinked ==
  ASSUME UInv, NEW b \in Bookings, NEW i \in Rows(b), NEW n,
         RowMove(negotiations[b][i], n), negotiations[b][i].status \in Active,
         n.status \in Active, UNCHANGED vars,
         negotiations' = [negotiations EXCEPT ![b][i] = n]
  PROVE  IInv' /\ Linked'
<1>1. IInv'
  BY DEF UInv, IInv, TypeOK, vars
<1>2. /\ \A c \in Bookings : Rows(c)' = Rows(c) /\ Newest(c)' = Newest(c)
      /\ OnlyRow(b, i, n)
  <2>1. NInv /\ NegotiationOK(n)
    BY DEF UInv, RowMove
  <2>2. QED
    BY <2>1, UpdateEffect
<1>3. ASSUME NEW c \in Bookings
      PROVE  /\ Newest(c) \in Rows(c) /\ Row(c)' = negotiations'[c][Newest(c)]
             /\ Row(c) = negotiations[c][Newest(c)]
             /\ booking'[c] = booking[c]
  BY <1>2, NewestIsRow DEF UInv, Row, vars
<1>4. \A c \in Bookings : Row(c)'.status \in Active <=> Row(c).status \in Active
  BY <1>2, <1>3 DEF OnlyRow
<1>5. \A c \in Bookings : \A j \in Rows(c) :
        negotiations'[c][j].status = "CANCELLED" => negotiations[c][j].status = "CANCELLED"
  BY <1>2 DEF OnlyRow, Active, Held
<1>6. Linked'
  <2>. SUFFICES ASSUME NEW c \in Bookings
                PROVE  /\ booking'[c].status = "OPEN" => Row(c)'.status \in Active
                       /\ Row(c)'.status \in Active
                            => /\ booking'[c].status \in {"OPEN", "NO_SHOW"}
                               /\ ~HasAssignment(booking'[c])
                       /\ \A j \in Rows(c)' : negotiations'[c][j].status = "CANCELLED"
                                               => booking'[c].status = "CANCELLED"
    BY DEF Linked
  <2>1. QED
    BY <1>2, <1>3, <1>4, <1>5 DEF UInv, Linked
<1>7. QED
  BY <1>1, <1>6

(* A round ends, and the booking leaves OPEN with the newest row.          *)
LEMMA ClosedLinked ==
  ASSUME UInv, NEW b \in Bookings, NEW n, RowMove(Row(b), n), NEW r,
         n.status \in Closed, Update(b, Newest(b), n), Write(b, r), RowOK(r),
         UNCHANGED <<driver, now>>, r.status # "OPEN",
         booking[b].status = "CANCELLED" => r.status = "CANCELLED",
         n.status = "CANCELLED" => r.status = "CANCELLED"
  PROVE  IInv' /\ Linked'
<1>1. /\ \A c \in Bookings : booking'[c] = IF c = b THEN r ELSE booking[c]
      /\ booking' \in [Bookings -> Booking]
  BY DEF UInv, IInv, TypeOK, Write, RowOK
<1>2. IInv'
  BY <1>1 DEF UInv, IInv, TypeOK
<1>3. /\ \A c \in Bookings : Rows(c)' = Rows(c) /\ Newest(c)' = Newest(c)
      /\ OnlyRow(b, Newest(b), n)
  <2>1. /\ NInv /\ NegotiationOK(n) /\ Newest(b) \in Rows(b)
        /\ negotiations' = [negotiations EXCEPT ![b][Newest(b)] = n]
    BY NewestIsRow DEF UInv, RowMove, Update
  <2>2. QED
    BY <2>1, UpdateEffect
<1>4. \A c \in Bookings : Row(c)' = IF c = b THEN n ELSE Row(c)
  <2>. TAKE c \in Bookings
  <2>1. Newest(c) \in Rows(c) /\ Newest(c)' = Newest(c)
    BY <1>3, NewestIsRow DEF UInv
  <2>2. QED
    BY <1>3, <2>1 DEF OnlyRow, Row
<1>5. Linked'
  <2>. SUFFICES ASSUME NEW c \in Bookings
                PROVE  /\ booking'[c].status = "OPEN" => Row(c)'.status \in Active
                       /\ Row(c)'.status \in Active
                            => /\ booking'[c].status \in {"OPEN", "NO_SHOW"}
                               /\ ~HasAssignment(booking'[c])
                       /\ \A j \in Rows(c)' : negotiations'[c][j].status = "CANCELLED"
                                               => booking'[c].status = "CANCELLED"
    BY DEF Linked
  <2>1. CASE c = b
    <3>1. booking'[c] = r /\ Row(c)' = n /\ n.status \notin Active
      BY <1>1, <1>4, <2>1 DEF Closed, Active, Held
    <3>2. \A j \in Rows(c)' : negotiations'[c][j].status = "CANCELLED"
                                => r.status = "CANCELLED"
      BY <1>3, <2>1 DEF OnlyRow, UInv, Linked
    <3>3. QED
      BY <3>1, <3>2
  <2>2. CASE c # b
    <3>1. booking'[c] = booking[c] /\ Row(c)' = Row(c) /\ Rows(c)' = Rows(c)
      BY <1>1, <1>3, <1>4, <2>2
    <3>2. \A j \in Rows(c) : negotiations'[c][j] = negotiations[c][j]
      BY <1>3, <2>2 DEF OnlyRow
    <3>3. QED
      BY <3>1, <3>2 DEF UInv, Linked
  <2>3. QED
    BY <2>1, <2>2
<1>6. QED
  BY <1>2, <1>5

(* The steps of a round.                                                   *)
LEMMA RoundLinked ==
  ASSUME UInv, NEW b \in Bookings, RoundAction(b)
  PROVE  IInv' /\ Linked'
<1>1. NInv /\ NegotiationOK(Row(b)) /\ Newest(b) \in Rows(b) /\ Row(b) = negotiations[b][Newest(b)]
  BY NewestIsRow DEF UInv, Row
<1>2. ASSUME NEW d \in Drivers, Lock(d, b) PROVE IInv' /\ Linked'
  <2>. DEFINE m(n) == [n EXCEPT !.status = "LOCKED", !.locked = d,
                                !.expired = FALSE, !.eta = NoEta]
  <2>1. PICK i \in Rows(b) :
          /\ negotiations[b][i].status = "BROADCASTING"
          /\ negotiations' = [negotiations EXCEPT ![b][i] = m(negotiations[b][i])]
    BY <1>2 DEF Lock, Update
  <2>2. /\ RowMove(negotiations[b][i], m(negotiations[b][i]))
        /\ m(negotiations[b][i]).status \in Active
    <3>1. NegotiationOK(negotiations[b][i])
      BY <1>1 DEF NInv
    <3>2. m(negotiations[b][i]).status = "LOCKED"
      BY <3>1 DEF NegotiationOK, Negotiation
    <3>3. QED
      BY <2>1, <3>1, <3>2, LockMove DEF Active, Held
  <2>3. UNCHANGED vars
    BY <1>2 DEF Lock
  <2>. HIDE DEF m
  <2>4. QED
    BY <2>1, <2>2, <2>3, ActiveLinked DEF Active
<1>3. ASSUME NEW d \in Drivers, NEW e \in Etas, SubmitEta(d, b, e) PROVE IInv' /\ Linked'
  <2>. DEFINE m == [Row(b) EXCEPT !.status = "AWAITING_CUSTOMER", !.expired = FALSE,
                                  !.eta = e]
  <2>1. /\ Row(b).status = "LOCKED" /\ FastEnough(Row(b), e) /\ UNCHANGED vars
        /\ negotiations' = [negotiations EXCEPT ![b][Newest(b)] = m]
    BY <1>3 DEF SubmitEta, Update
  <2>2. RowMove(Row(b), m) /\ m.status \in Active
    <3>1. m.status = "AWAITING_CUSTOMER"
      BY <1>1 DEF NegotiationOK, Negotiation
    <3>2. QED
      BY <1>1, <2>1, <3>1, ProposalMove DEF Active, Held
  <2>. HIDE DEF m
  <2>3. QED
    BY <1>1, <2>1, <2>2, ActiveLinked DEF Active, Held
<1>4. CASE Expire(b)
  <2>. DEFINE m(n) == [n EXCEPT !.expired = TRUE]
  <2>1. PICK i \in Rows(b) :
          /\ negotiations[b][i].status \in Held
          /\ negotiations' = [negotiations EXCEPT ![b][i] = m(negotiations[b][i])]
    BY <1>4 DEF Expire
  <2>2. /\ RowMove(negotiations[b][i], m(negotiations[b][i]))
        /\ m(negotiations[b][i]).status \in Active
    <3>1. NegotiationOK(negotiations[b][i])
      BY <1>1 DEF NInv
    <3>2. m(negotiations[b][i]).status = negotiations[b][i].status
      BY <3>1 DEF NegotiationOK, Negotiation
    <3>3. QED
      BY <2>1, <3>1, <3>2, ExpiryMove DEF Active
  <2>3. UNCHANGED vars
    BY <1>4 DEF Expire
  <2>. HIDE DEF m
  <2>4. QED
    BY <2>1, <2>2, <2>3, ActiveLinked DEF Active
<1>5. CASE CustomerAccept(b)
  <2>. DEFINE m == [Row(b) EXCEPT !.status = "CONFIRMED", !.expired = FALSE, !.eta = NoEta]
              d == Row(b).locked
              r == [InsertAssignment(booking[b], d) EXCEPT !.status = "DRIVER_ASSIGNED"]
  <2>1. /\ Row(b).status = "AWAITING_CUSTOMER" /\ Update(b, Newest(b), m)
        /\ booking[b].status = "OPEN" /\ Write(b, r) /\ UNCHANGED <<driver, now>>
    BY <1>5 DEF CustomerAccept
  <2>2. RowMove(Row(b), m) /\ m.status = "CONFIRMED" /\ d \in Drivers
    <3>1. m.status = "CONFIRMED"
      BY <1>1 DEF NegotiationOK, Negotiation
    <3>2. d \in Drivers
      BY <1>1, <2>1 DEF NegotiationOK, Held
    <3>3. QED
      BY <1>1, <2>1, <3>1, <3>2, AcceptanceMove
  <2>3. RowOK(r) /\ r.status = "DRIVER_ASSIGNED"
    <3>1. RowOK(booking[b])
      BY DEF UInv, IInv
    <3>2. RowOK(r)
      BY <2>1, <2>2, <3>1, OpenAssignedMoves DEF Moves, RowStep
    <3>3. InsertAssignment(booking[b], d) \in Booking
      BY <2>2, <3>1, InsertEffect DEF RowOK
    <3>4. QED
      BY <3>2, <3>3 DEF Booking
  <2>. HIDE DEF m, r
  <2>4. QED
    BY <2>1, <2>2, <2>3, ClosedLinked DEF Closed
<1>6. CASE CustomerReject(b) \/ EtaTimeout(b) \/ DecisionTimeout(b)
  <2>1. PICK e : Failure(b, e)
    BY <1>6, FailuresAre
  <2>2. Row(b).status \in Active /\ UNCHANGED <<driver, now>>
    BY <1>6, <2>1, FailuresAre DEF Failure, Active
  <2>3. PICK to \in {"CANCELLED", "BROADCASTING"} :
           /\ Update(b, Newest(b), Failed(Row(b), e, to))
           /\ RowMove(Row(b), Failed(Row(b), e, to))
           /\ \/ /\ to = "CANCELLED"
                 /\ Write(b, [booking[b] EXCEPT !.status = "CANCELLED"])
              \/ to = "BROADCASTING" /\ UNCHANGED booking
    BY <1>1, <2>1, FailureEffect
  <2>4. Failed(Row(b), e, to).status = to
    BY <1>1 DEF Failed, NegotiationOK, Negotiation
  <2>5. CASE to = "BROADCASTING"
    <3>1. UNCHANGED vars /\ Failed(Row(b), e, to).status \in Active
      BY <2>2, <2>3, <2>4, <2>5 DEF vars, Active
    <3>2. QED
      BY <1>1, <2>2, <2>3, <3>1, ActiveLinked DEF Update
  <2>6. CASE to = "CANCELLED"
    <3>. DEFINE r == [booking[b] EXCEPT !.status = "CANCELLED"]
    <3>1. /\ RowOK(booking[b]) /\ ~HasAssignment(booking[b])
          /\ booking[b].status \in {"OPEN", "NO_SHOW"}
      BY <2>2 DEF UInv, IInv, Linked
    <3>2. /\ r \in Booking /\ r.status = "CANCELLED" /\ r.driver = booking[b].driver
          /\ r.driverColumn = booking[b].driverColumn
          /\ r.commission = booking[b].commission
      BY <3>1 DEF RowOK, Booking, Status, ClosedStatus
    <3>3. Write(b, r)
      BY <2>3, <2>6
    <3>. HIDE DEF r
    <3>4. RowOK(r)
      BY <3>1, <3>2 DEF RowOK, HasAssignment, ChargedStatus
    <3>5. QED
      BY <2>2, <2>3, <2>4, <2>6, <3>2, <3>3, <3>4, ClosedLinked DEF Closed
  <2>7. QED
    BY <2>3, <2>5, <2>6
<1>7. QED
  BY <1>2, <1>3, <1>4, <1>5, <1>6 DEF RoundAction

(* Bookings taken from their driver are broadcast again.                   *)
LEMMA RestartLinked ==
  ASSUME UInv, NEW B, Restart(B),
         \A c \in Bookings \ B : booking'[c] = booking[c],
         \A c \in Bookings \intersect B : /\ booking[c].status = "DRIVER_ASSIGNED"
                                         /\ booking'[c].status = "OPEN"
                                         /\ ~HasAssignment(booking'[c])
  PROVE  Linked'
<1>. SUFFICES ASSUME NEW c \in Bookings
              PROVE  /\ booking'[c].status = "OPEN" => Row(c)'.status \in Active
                     /\ Row(c)'.status \in Active
                          => /\ booking'[c].status \in {"OPEN", "NO_SHOW"}
                             /\ ~HasAssignment(booking'[c])
                     /\ \A i \in Rows(c)' : negotiations'[c][i].status = "CANCELLED"
                                             => booking'[c].status = "CANCELLED"
  BY DEF Linked
<1>1. /\ \A j \in Rows(c) : negotiations'[c][j] = negotiations[c][j]
      /\ c \notin B => Row(c)' = Row(c) /\ Rows(c)' = Rows(c)
      /\ c \in B => /\ Row(c)' = NewNegotiation
                    /\ \A j \in Rows(c)' : j \in Rows(c) \/ negotiations'[c][j] = NewNegotiation
  BY RestartEffect DEF UInv
<1>2. NewNegotiation.status = "BROADCASTING"
  BY DEF NewNegotiation
<1>3. CASE c \in B
  BY <1>1, <1>2, <1>3 DEF UInv, Linked, Active
<1>4. CASE c \notin B
  BY <1>1, <1>4 DEF UInv, Linked
<1>5. QED
  BY <1>3, <1>4

(* Release and unassignment reopen one booking.                            *)
LEMMA ReopenLinked ==
  ASSUME UInv, NEW b \in Bookings, NEW cools \in BOOLEAN,
         booking[b].status = "DRIVER_ASSIGNED", HasAssignment(booking[b]),
         Write(b, Reopen(booking[b], cools)), Restart({b})
  PROVE  Linked'
<1>. DEFINE r == Reopen(booking[b], cools)
<1>1. r.status = "OPEN" /\ r.driver = NoDriver
  BY ReopenEffect DEF UInv, IInv, RowOK
<1>2. \A c \in Bookings : booking'[c] = IF c = b THEN r ELSE booking[c]
  BY DEF Write, UInv, IInv, TypeOK
<1>. HIDE DEF r
<1>3. QED
  BY <1>1, <1>2, RestartLinked DEF HasAssignment

(* A suspension restarts the negotiation of every booking it reopens.      *)
LEMMA SuspendLinked ==
  ASSUME UInv, NEW d \in Drivers, UrgentSuspend(d)
  PROVE  Linked'
<1>. DEFINE listed == {b \in Bookings : WorksOn(booking[b], d)
                                        /\ booking[b].status \in TripStatus}
            B == {b \in Bookings : booking[b].status = "DRIVER_ASSIGNED"
                                   /\ booking'[b].status = "OPEN"}
<1>1. /\ \A c \in listed : booking[c].status = "DRIVER_ASSIGNED"
      /\ booking' = [c \in Bookings |-> IF c \in listed THEN Reopen(booking[c], TRUE)
                                        ELSE booking[c]]
      /\ Restart(B)
  BY DEF UrgentSuspend, Suspend
<1>2. ASSUME NEW c \in listed
      PROVE  /\ booking[c].status = "DRIVER_ASSIGNED" /\ booking'[c].status = "OPEN"
             /\ ~HasAssignment(booking'[c])
  <2>1. booking[c] \in Booking /\ HasAssignment(booking[c])
    BY NoDriverAssumption DEF UInv, IInv, RowOK, WorksOn, HasAssignment
  <2>2. booking'[c] = Reopen(booking[c], TRUE)
    BY <1>1
  <2>3. QED
    BY <1>1, <2>1, <2>2, ReopenEffect DEF HasAssignment
<1>3. \A c \in Bookings \ listed : booking'[c] = booking[c]
  BY <1>1
<1>4. Bookings \intersect B = listed /\ Bookings \ B = Bookings \ listed
  BY <1>2, <1>3
<1>. HIDE DEF listed, B
<1>5. QED
  BY <1>1, <1>2, <1>3, <1>4, RestartLinked

(* Every step keeps the tables linked, unless administrators assign.       *)
LEMMA NextLinked ==
  ASSUME ~AdminAssigns
  PROVE  UInv /\ [UrgentNext]_urgentVars => UInv'
<1>. SUFFICES ASSUME UInv, [UrgentNext]_urgentVars PROVE IInv' /\ Linked'
  BY NextNegotiations DEF UInv
<1>1. ASSUME Next PROVE IInv'
  <2>1. RowsStep /\ driver' \in [Drivers -> DriverRow] /\ now' \in 0..MaxHour
    BY <1>1, NextRowsStep, NextOtherTypes DEF UInv
  <2>2. QED
    BY <2>1 DEF RowsStep, Moves, RowStep, IInv, TypeOK
<1>2. ASSUME NEW b \in Bookings, UrgentUnassign(b) PROVE IInv' /\ Linked'
  <2>1. IInv'
    BY <1>1, <1>2 DEF UrgentUnassign, Next, BookingAction
  <2>2. Linked'
    BY <1>2, ReopenLinked DEF UrgentUnassign, Unassign
  <2>3. QED
    BY <2>1, <2>2
<1>3. ASSUME NEW d \in Drivers, NEW b \in Bookings, UrgentRelease(d, b)
      PROVE  IInv' /\ Linked'
  <2>1. IInv'
    BY <1>1, <1>3 DEF UrgentRelease, Next, JobAction
  <2>2. Linked'
    BY <1>3, NoDriverAssumption, ReopenLinked DEF UrgentRelease, Release, HasAssignment
  <2>3. QED
    BY <2>1, <2>2
<1>4. ASSUME NEW d \in Drivers, UrgentSuspend(d) PROVE IInv' /\ Linked'
  <2>1. IInv'
    BY <1>1, <1>4 DEF UrgentSuspend, Next, DriverAction
  <2>2. QED
    BY <1>4, <2>1, SuspendLinked
<1>5. CASE UNCHANGED urgentVars
  <2>1. IInv' = IInv
    BY <1>5 DEF urgentVars, IInv, TypeOK
  <2>2. Linked'
    BY <1>5, LinkedCalm DEF urgentVars, UInv, Calm
  <2>3. QED
    BY <2>1, <2>2 DEF UInv
<1>6. QED
  BY <1>2, <1>3, <1>4, <1>5, RoundLinked, OtherActionLinked DEF UrgentNext, UrgentAssign

(* They are linked at first.                                               *)
LEMMA InitLinked == UrgentInit => UInv
<1>. SUFFICES ASSUME UrgentInit PROVE UInv
  OBVIOUS
<1>1. IInv /\ NInv
  BY InitIInv, InitNegotiations DEF UrgentInit
<1>2. ASSUME NEW b \in Bookings
      PROVE  /\ booking[b].status = "OPEN" /\ booking[b].driver = NoDriver
             /\ Row(b).status = "BROADCASTING"
             /\ \A i \in Rows(b) : negotiations[b][i].status = "BROADCASTING"
  <2>1. PICK p \in Slots, x \in BOOLEAN : booking[b] = NewBooking(p, x)
    BY DEF UrgentInit, Init
  <2>2. negotiations[b] = <<NewNegotiation>> /\ NewNegotiation.status = "BROADCASTING"
    BY DEF UrgentInit, NewNegotiation
  <2>3. QED
    BY <2>1, <2>2 DEF NewBooking, Row, Newest, Rows
<1>3. Linked
  BY <1>2 DEF Linked, Active, HasAssignment
<1>4. QED
  BY <1>1, <1>3 DEF UInv

(* The inductive invariant holds throughout.                               *)
THEOREM UrgentInvariance ==
  ASSUME ~AdminAssigns
  PROVE  UrgentSafety => []UInv
  BY InitLinked, NextLinked, PTL DEF UrgentSafety

(* Bookings, drivers, clock and negotiations are well-typed.               *)
THEOREM UrgentTypeCorrect ==
  ASSUME ~AdminAssigns
  PROVE  UrgentSafety => []UrgentTypeOK
<1>1. UInv => UrgentTypeOK
  BY DEF UInv, IInv, NInv, UrgentTypeOK
<1>2. QED
  BY <1>1, UrgentInvariance, PTL

(* A booking that waits for a driver is being negotiated.                  *)
THEOREM OpenBookingsAreNegotiated ==
  ASSUME ~AdminAssigns
  PROVE  UrgentSafety => []OpenIsNegotiated
<1>1. UInv => OpenIsNegotiated
  BY DEF UInv, Linked, OpenIsNegotiated
<1>2. QED
  BY <1>1, UrgentInvariance, PTL

(* A negotiation is given up with its last round and not before, and takes *)
(* the booking along.                                                      *)
THEOREM GivenUpWithLastRound ==
  ASSUME ~AdminAssigns
  PROVE  UrgentSafety => []GivenUpInTime
<1>1. UInv => GivenUpInTime
  BY DEF UInv, Linked, NInv, NegotiationOK, GivenUpInTime
<1>2. QED
  BY <1>1, UrgentInvariance, PTL

(* What the audit queries for, and what the code keeps as long as          *)
(* administrators assign no urgent booking.                                *)
THEOREM BroadcastsAreFree ==
  ASSUME ~AdminAssigns
  PROVE  UrgentSafety => []BroadcastHasNoDriver
<1>1. UInv => BroadcastHasNoDriver
  BY DEF UInv, Linked, BroadcastHasNoDriver, Active
<1>2. QED
  BY <1>1, UrgentInvariance, PTL

-----------------------------------------------------------------------------
(* Only the newest negotiation of a booking is ever active.                *)

Older == \A b \in Bookings : \A i \in Rows(b) :
           negotiations[b][i].status \in Active => i = Newest(b)

(* An update of one row leaves no older row active.                        *)
LEMMA OlderUpdate ==
  ASSUME NInv, Older, NEW b \in Bookings, NEW i \in Rows(b), NEW n, NegotiationOK(n),
         negotiations[b][i].status \in Active \/ i = Newest(b),
         negotiations' = [negotiations EXCEPT ![b][i] = n]
  PROVE  Older'
<1>1. /\ \A c \in Bookings : Rows(c)' = Rows(c) /\ Newest(c)' = Newest(c)
      /\ OnlyRow(b, i, n)
  BY UpdateEffect
<1>2. QED
  BY <1>1 DEF Older, OnlyRow

(* The newest row of a booking that has a driver is closed, and so are all *)
(* the others when it is broadcast again.                                  *)
LEMMA OlderRestart ==
  ASSUME NInv, Older, Linked, NEW B, Restart(B),
         \A c \in Bookings \intersect B : booking[c].status = "DRIVER_ASSIGNED"
  PROVE  Older'
<1>. SUFFICES ASSUME NEW c \in Bookings, NEW j \in Rows(c)',
                     negotiations'[c][j].status \in Active
              PROVE  j = Newest(c)'
  BY DEF Older
<1>1. negotiations'[c] = IF c \in B THEN Append(negotiations[c], NewNegotiation)
                         ELSE negotiations[c]
  BY DEF Restart
<1>2. CASE c \in B
  <2>1. /\ Newest(c) \in Nat \ {0} /\ Rows(c) = 1..Newest(c)
        /\ Row(c).status \notin Active
    BY <1>2, NewestIsRow DEF Linked
  <2>2. \A k \in Rows(c) : negotiations[c][k].status \notin Active
    BY <2>1 DEF Older, Row
  <2>3. j \notin Rows(c)
    BY <2>2, RestartEffect
  <2>4. negotiations[c] \in Seq(Negotiation) /\ NewNegotiation \in Negotiation
    BY NewIsOK DEF NInv, NegotiationOK
  <2>5. DOMAIN negotiations'[c] = 1..(Newest(c) + 1) /\ Len(negotiations'[c]) = Newest(c) + 1
    BY <1>1, <1>2, <2>4 DEF Newest
  <2>6. QED
    BY <2>1, <2>3, <2>5 DEF Rows, Newest
<1>3. CASE c \notin B
  BY <1>1, <1>3 DEF Older, Rows, Newest
<1>4. QED
  BY <1>2, <1>3

(* The steps of a round touch the newest row only.                         *)
LEMMA OlderRound ==
  ASSUME UInv, Older, NEW b \in Bookings, RoundAction(b)
  PROVE  Older'
<1>1. NInv /\ Newest(b) \in Rows(b) /\ NegotiationOK(Row(b))
  BY NewestIsRow DEF UInv
<1>2. ASSUME NEW n, RowMove(Row(b), n), Update(b, Newest(b), n) PROVE Older'
  BY <1>1, <1>2, OlderUpdate DEF RowMove, Update
<1>3. ASSUME NEW d \in Drivers, Lock(d, b) PROVE Older'
  <2>. DEFINE m(n) == [n EXCEPT !.status = "LOCKED", !.locked = d,
                                !.expired = FALSE, !.eta = NoEta]
  <2>1. PICK i \in Rows(b) :
          /\ negotiations[b][i].status = "BROADCASTING"
          /\ negotiations' = [negotiations EXCEPT ![b][i] = m(negotiations[b][i])]
    BY <1>3 DEF Lock, Update
  <2>2. NegotiationOK(m(negotiations[b][i]))
    BY <1>1, <2>1, LockMove DEF NInv, RowMove
  <2>. HIDE DEF m
  <2>3. QED
    BY <1>1, <2>1, <2>2, OlderUpdate DEF Active
<1>4. ASSUME NEW d \in Drivers, NEW e \in Etas, SubmitEta(d, b, e) PROVE Older'
  BY <1>1, <1>2, <1>4, ProposalMove DEF SubmitEta
<1>5. CASE CustomerAccept(b)
  BY <1>1, <1>2, <1>5, AcceptanceMove DEF CustomerAccept
<1>6. CASE Expire(b)
  <2>. DEFINE m(n) == [n EXCEPT !.expired = TRUE]
  <2>1. PICK i \in Rows(b) :
          /\ negotiations[b][i].status \in Held
          /\ negotiations' = [negotiations EXCEPT ![b][i] = m(negotiations[b][i])]
    BY <1>6 DEF Expire
  <2>2. NegotiationOK(m(negotiations[b][i]))
    BY <1>1, ExpiryMove DEF NInv, RowMove
  <2>. HIDE DEF m
  <2>3. QED
    BY <1>1, <2>1, <2>2, OlderUpdate DEF Active
<1>7. CASE CustomerReject(b) \/ EtaTimeout(b) \/ DecisionTimeout(b)
  <2>1. PICK e : Failure(b, e)
    BY <1>7, FailuresAre
  <2>2. QED
    BY <1>1, <1>2, <2>1, FailureEffect
<1>8. QED
  BY <1>3, <1>4, <1>5, <1>6, <1>7 DEF RoundAction

(* Every step keeps it so that only the newest row is active.              *)
LEMMA NextOlder ==
  ASSUME ~AdminAssigns
  PROVE  UInv /\ Older /\ [UrgentNext]_urgentVars => Older'
<1>. SUFFICES ASSUME UInv, Older, [UrgentNext]_urgentVars PROVE Older'
  OBVIOUS
<1>1. ASSUME NEW b \in Bookings, booking[b].status = "DRIVER_ASSIGNED", Restart({b})
      PROVE  Older'
  BY <1>1, OlderRestart DEF UInv
<1>2. ASSUME NEW d \in Drivers, UrgentSuspend(d) PROVE Older'
  BY <1>2, OlderRestart DEF UrgentSuspend, UInv
<1>3. CASE UNCHANGED negotiations
  BY <1>3 DEF Older, Rows, Newest
<1>4. QED
  BY <1>1, <1>2, <1>3, OlderRound
     DEF UrgentNext, UrgentAssign, UrgentUnassign, Unassign, UrgentRelease, Release,
         urgentVars

(* While administrators assign no urgent booking, the unique key stands in *)
(* the way of no release, unassignment or suspension.                      *)
THEOREM ReopeningIsNotRefused ==
  ASSUME ~AdminAssigns
  PROVE  UrgentSafety => []MayReopen
<1>1. UrgentInit => Older
  BY DEF UrgentInit, Older, Rows, Newest
<1>2. UrgentSafety => []Older
  BY <1>1, NextOlder, UrgentInvariance, PTL DEF UrgentSafety
<1>3. UInv /\ Older => MayReopen
  <2>1. ASSUME UInv, Older, NEW b \in Bookings, HasAssignment(booking[b]),
               NEW j \in Rows(b)
        PROVE  negotiations[b][j].status # "BROADCASTING"
    BY <2>1 DEF UInv, Linked, Older, Row, Active
  <2>2. QED
    BY <2>1 DEF MayReopen, StatusFree
<1>4. QED
  BY <1>2, <1>3, UrgentInvariance, PTL
=============================================================================
