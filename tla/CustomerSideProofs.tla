------------------------- MODULE CustomerSideProofs -------------------------
(***************************************************************************)
(* For any number of bookings, customers, tokens and codes: a booking that *)
(* belongs to an account stays with it, and a code moves its booking once. *)
(* The second rests on what the columns of bookings say of all codes ever  *)
(* made (ColumnsInv) and on the use they record (MovesInv).                *)
(*                                                                         *)
(* For any number of workers, devices and notifications: a device is shown *)
(* a notification again only for an excuse (CreditInv), and no list gets   *)
(* shorter.                                                                *)
(*                                                                         *)
(* For any number of bookings and drivers: the rating is of the driver of  *)
(* the trip, whom the last assignment row names once the column is empty   *)
(* (RowsInv, TripInv).                                                     *)
(***************************************************************************)
EXTENDS CustomerSide, FiniteSetTheorems, SequenceTheorems, TLAPS

(* The column holds the latest code of its booking and purpose.            *)
LatestOf(c, b, p) ==
  /\ codes[c].booking = b /\ codes[c].purpose = p
  /\ \A later \in (c + 1)..Len(codes) : codes[later].booking = b => codes[later].purpose # p

ColumnsInv ==
  \A b \in Bookings, p \in Purpose : qr[b][p].code # NoCode => LatestOf(qr[b][p].code, b, p)

(* What a move was made with, and that its column is used unless another   *)
(* code is there now.                                                      *)
MoveInv(m) ==
  /\ m.code \in DOMAIN codes /\ m.made <= Len(codes)
  /\ codes[m.code].booking = m.booking /\ codes[m.code].purpose = m.purpose
  /\ codes[m.code].expires > m.at
  /\ \A later \in (m.code + 1)..m.made :
       codes[later].booking = m.booking => codes[later].purpose # m.purpose
  /\ qr[m.booking][m.purpose].code = m.code => qr[m.booking][m.purpose].used

MovesInv ==
  /\ \A m \in moves : MoveInv(m)
  /\ \A m, n \in moves : m.code = n.code => m = n

(* Nobody owns a booking that does not exist.                              *)
Unborn == \A b \in Bookings : status[b] = "NONE" => owner[b] = None

IInv == TypeOK /\ ColumnsInv /\ MovesInv /\ Unborn

-----------------------------------------------------------------------------
(* No token, code or move at first.                                        *)
LEMMA Initially == Init => IInv
<1> SUFFICES ASSUME Init PROVE IInv
  OBVIOUS
<1>1. tokens \in Seq(Token) /\ codes \in Seq(Code) /\ Len(codes) = 0 /\ moves \subseteq Move
  BY DEF Init
<1>2. qr \in [Bookings -> [Purpose -> [code: 0..Len(codes), used: BOOLEAN]]]
  BY <1>1 DEF Init, NoCode
<1>3. TypeOK
  BY <1>1, <1>2, AccessAssumption DEF Init, TypeOK, Status
<1>4. ColumnsInv /\ MovesInv /\ Unborn
  BY DEF Init, ColumnsInv, MovesInv, Unborn
<1> QED BY <1>3, <1>4 DEF IInv

(* A new code: appended, and put into its column.                          *)
LEMMA SetQrKeeps ==
  ASSUME TypeOK, ColumnsInv, MovesInv, NEW b \in Bookings, NEW p \in Purpose, NEW e \in Nat,
         NEW f \in BOOLEAN, SetQr(b, p, e, f), moves' = moves
  PROVE  /\ codes' \in Seq(Code)
         /\ qr' \in [Bookings -> [Purpose -> [code: 0..Len(codes'), used: BOOLEAN]]]
         /\ ColumnsInv' /\ MovesInv'
<1> DEFINE c == [booking |-> b, purpose |-> p, made |-> clock, expires |-> e, forced |-> f]
           new == [code |-> Len(codes) + 1, used |-> FALSE]
<1>1. c \in Code /\ c.booking = b /\ c.purpose = p
  BY DEF Code, TypeOK
<1>2. codes' = Append(codes, c) /\ qr' = [qr EXCEPT ![b][p] = new]
  BY DEF SetQr
<1> HIDE DEF c
<1>3. /\ codes' \in Seq(Code) /\ Len(codes') = Len(codes) + 1 /\ Len(codes) \in Nat
      /\ DOMAIN codes = 1..Len(codes) /\ DOMAIN codes' = 1..(Len(codes) + 1)
      /\ codes'[Len(codes) + 1] = c
      /\ \A i \in DOMAIN codes : codes'[i] = codes[i]
  BY <1>1, <1>2 DEF TypeOK
<1>4. /\ qr'[b][p] = new
      /\ \A x \in Bookings, y \in Purpose : x # b \/ y # p => qr'[x][y] = qr[x][y]
  BY <1>2 DEF TypeOK
<1>5. \A x \in Bookings, y \in Purpose : qr[x][y].code \in 0..Len(codes) /\ qr[x][y].used \in BOOLEAN
  BY DEF TypeOK
<1>6. qr' \in [Bookings -> [Purpose -> [code: 0..Len(codes'), used: BOOLEAN]]]
  <2>1. \A x \in Bookings, y \in Purpose : qr[x][y] \in [code: 0..Len(codes'), used: BOOLEAN]
    BY <1>3 DEF TypeOK
  <2>2. new \in [code: 0..Len(codes'), used: BOOLEAN]
    BY <1>3
  <2> HIDE DEF new
  <2>3. [qr[b] EXCEPT ![p] = new] \in [Purpose -> [code: 0..Len(codes'), used: BOOLEAN]]
    BY <2>1, <2>2 DEF TypeOK
  <2>4. qr' = [qr EXCEPT ![b] = [qr[b] EXCEPT ![p] = new]]
    BY <1>2
  <2> QED BY <2>1, <2>3, <2>4 DEF TypeOK
<1>7. ASSUME NEW x \in Bookings, NEW y \in Purpose, (qr[x][y].code # NoCode)'
      PROVE  LatestOf(qr[x][y].code, x, y)'
  <2>1. CASE x = b /\ y = p
    BY <2>1, <1>1, <1>3, <1>4 DEF LatestOf
  <2>2. CASE ~(x = b /\ y = p)
    <3>1. /\ qr'[x][y] = qr[x][y] /\ LatestOf(qr[x][y].code, x, y)
          /\ qr[x][y].code \in DOMAIN codes
      BY <2>2, <1>3, <1>4, <1>5, <1>7 DEF ColumnsInv, NoCode
    <3> QED BY <3>1, <2>2, <1>1, <1>3 DEF LatestOf
  <2> QED BY <2>1, <2>2
<1>8. ASSUME NEW m \in moves
      PROVE  MoveInv(m)'
  <2>1. /\ MoveInv(m) /\ m.code \in DOMAIN codes /\ m.made \in Nat /\ m.booking \in Bookings
        /\ m.purpose \in Purpose /\ m.made <= Len(codes)
    BY DEF MovesInv, MoveInv, TypeOK, Move
  <2>2. \A later \in (m.code + 1)..m.made : codes'[later] = codes[later]
    BY <2>1, <1>3
  <2>3. (qr[m.booking][m.purpose].code = m.code => qr[m.booking][m.purpose].used)'
    BY <2>1, <1>3, <1>4 DEF MoveInv
  <2> QED BY <2>1, <2>2, <2>3, <1>3 DEF MoveInv
<1> QED BY <1>3, <1>6, <1>7, <1>8 DEF ColumnsInv, MovesInv

(* A guest token is stored with its booking and its expiry.                *)
LEMMA TokenInserted ==
  ASSUME TypeOK, NEW b \in Bookings, NEW ttl \in Nat, InsertGuestToken(b, ttl)
  PROVE  tokens' \in Seq(Token)
<1>1. clock + ttl \in Nat
  BY AccessAssumption DEF TypeOK
<1>2. [booking |-> b, expires |-> clock + ttl] \in Token
  BY <1>1 DEF Token
<1> QED BY <1>2 DEF InsertGuestToken, TypeOK

(* A scan records the use of the code in its column.                       *)
LEMMA ConsumeKeeps ==
  ASSUME IInv, NEW d \in Drivers, NEW b \in Bookings, NEW p \in Purpose,
         NEW c \in DOMAIN codes, NEW from, NEW to \in Status \ {"NONE"}, from # "NONE",
         Consume(d, b, p, c, from, to)
  PROVE  IInv'
<1> USE DEF IInv
<1>0. PICK mv : mv = [code |-> c, booking |-> b, purpose |-> p, at |-> clock, made |-> Len(codes)]
  OBVIOUS
<1>1. /\ qr[b][p].code = c /\ ~qr[b][p].used /\ c # NoCode /\ codes[c].expires > clock
      /\ status[b] # "NONE"
      /\ status' = [status EXCEPT ![b] = to]
      /\ qr' = [qr EXCEPT ![b][p].used = TRUE]
      /\ moves' = moves \union {mv}
      /\ UNCHANGED <<driver, owner, tokens, codes, clock>>
  BY <1>0 DEF Consume, VerifyTokenIdentity, Unexpired
<1>2. mv \in Move /\ mv.code = c /\ mv.booking = b /\ mv.purpose = p /\ mv.at = clock
      /\ mv.made = Len(codes)
  BY <1>0 DEF Move, TypeOK
<1> DEFINE new == [qr[b][p] EXCEPT !.used = TRUE]
<1>3. qr[b][p] \in [code: 0..Len(codes), used: BOOLEAN]
  BY DEF TypeOK
<1>4. new \in [code: 0..Len(codes), used: BOOLEAN] /\ new.code = c /\ new.used
  BY <1>1, <1>3
<1>5. qr' = [qr EXCEPT ![b] = [qr[b] EXCEPT ![p] = new]]
  BY <1>1
<1> HIDE DEF new
<1>6. qr' \in [Bookings -> [Purpose -> [code: 0..Len(codes), used: BOOLEAN]]]
  <2>1. [qr[b] EXCEPT ![p] = new] \in [Purpose -> [code: 0..Len(codes), used: BOOLEAN]]
    BY <1>4 DEF TypeOK
  <2> QED BY <2>1, <1>5 DEF TypeOK
<1>7. /\ qr'[b][p] = new
      /\ \A x \in Bookings, y \in Purpose : x # b \/ y # p => qr'[x][y] = qr[x][y]
  BY <1>5 DEF TypeOK
<1>8. \A x \in Bookings, y \in Purpose : qr'[x][y].code = qr[x][y].code
                                       /\ (qr[x][y].used => qr'[x][y].used)
  BY <1>1, <1>4, <1>7
<1>9. TypeOK'
  BY <1>1, <1>2, <1>6 DEF TypeOK
<1>10. ColumnsInv'
  BY <1>1, <1>8 DEF ColumnsInv, LatestOf
<1>11. Unborn'
  BY <1>1 DEF Unborn, TypeOK
<1>12. \A m \in moves : MoveInv(m)' /\ m.code # c
  <2> SUFFICES ASSUME NEW m \in moves PROVE MoveInv(m)' /\ m.code # c
    OBVIOUS
  <2>1. MoveInv(m) /\ m.booking \in Bookings /\ m.purpose \in Purpose
    BY DEF MovesInv, TypeOK, Move
  <2>2. MoveInv(m)'
    BY <2>1, <1>1, <1>8 DEF MoveInv
  <2>3. ASSUME m.code = c PROVE FALSE
    <3>1. m.booking = b /\ m.purpose = p
      BY <2>1, <2>3, <1>1 DEF MoveInv, ColumnsInv, LatestOf
    <3> QED BY <3>1, <2>1, <2>3, <1>1 DEF MoveInv
  <2> QED BY <2>2, <2>3
<1>13. MoveInv(mv)'
  <2>1. LatestOf(c, b, p)
    BY <1>1 DEF ColumnsInv
  <2>2. \A later \in (c + 1)..Len(codes) : codes[later].booking = b => codes[later].purpose # p
    BY <2>1 DEF LatestOf
  <2>3. Len(codes) <= Len(codes)
    BY DEF TypeOK
  <2>4. qr'[mv.booking][mv.purpose].used
    BY <1>2, <1>4, <1>7, Zenon
  <2>5. codes' = codes
    BY <1>1
  <2>6. \A later \in (mv.code + 1)..mv.made :
          codes[later].booking = mv.booking => codes[later].purpose # mv.purpose
    BY <2>2, <1>2, Zenon
  <2>7. /\ mv.code \in DOMAIN codes /\ mv.made <= Len(codes)
        /\ codes[mv.code].booking = mv.booking /\ codes[mv.code].purpose = mv.purpose
        /\ codes[mv.code].expires > mv.at
    BY <2>1, <2>3, <1>1, <1>2 DEF LatestOf
  <2> QED BY <2>4, <2>5, <2>6, <2>7 DEF MoveInv
<1>14. MovesInv'
  <2>1. \A m \in moves' : m = mv \/ m \in moves
    BY <1>1
  <2>2. \A m \in moves' : MoveInv(m)'
    BY <2>1, <1>12, <1>13, Zenon
  <2>3. ASSUME NEW m \in moves', NEW n \in moves', m.code = n.code
        PROVE  m = n
    <3>1. CASE m \in moves /\ n \in moves
      BY <3>1, <2>3 DEF MovesInv
    <3>2. CASE m = mv \/ n = mv
      BY <3>2, <2>1, <2>3, <1>2, <1>12, Zenon
    <3> QED BY <2>1, <3>1, <3>2
  <2> QED BY <2>2, <2>3 DEF MovesInv
<1> QED BY <1>9, <1>10, <1>11, <1>14

(* Everything else leaves the codes, their columns and the moves alone.    *)
LEMMA OthersKeep ==
  ASSUME IInv, UNCHANGED <<codes, qr, moves>>,
         status' \in [Bookings -> Status], driver' \in [Bookings -> Drivers \union {None}],
         owner' \in [Bookings -> Customers \union {None}], tokens' \in Seq(Token),
         clock' \in 0..MaxTime, Unborn'
  PROVE  IInv'
<1>1. TypeOK'
  BY DEF IInv, TypeOK
<1>2. ColumnsInv' /\ MovesInv'
  BY DEF IInv, ColumnsInv, LatestOf, MovesInv, MoveInv
<1> QED BY <1>1, <1>2 DEF IInv

(* A new code, as SetQrKeeps says, with whatever else the handler writes.  *)
LEMMA NewCodeKeeps ==
  ASSUME IInv, NEW b \in Bookings, NEW p \in Purpose, NEW e \in Nat, NEW f \in BOOLEAN,
         SetQr(b, p, e, f), UNCHANGED <<driver, moves, clock>>,
         status' \in [Bookings -> Status],
         owner' \in [Bookings -> Customers \union {None}], tokens' \in Seq(Token), Unborn'
  PROVE  IInv'
<1>1. /\ codes' \in Seq(Code) /\ ColumnsInv' /\ MovesInv'
      /\ qr' \in [Bookings -> [Purpose -> [code: 0..Len(codes'), used: BOOLEAN]]]
  BY SetQrKeeps DEF IInv
<1>2. TypeOK'
  BY <1>1 DEF IInv, TypeOK
<1> QED BY <1>1, <1>2 DEF IInv

(* Every handler keeps the invariant: one case per action.                 *)
LEMMA Keeps == IInv /\ [Next]_vars => IInv'
<1> SUFFICES ASSUME IInv, [Next]_vars PROVE IInv'
  OBVIOUS
<1> DEFINE Times == {clock + QrTTL, clock + 1 + QrTTL}
<1>0. /\ clock \in Nat /\ Times \subseteq Nat
      /\ status \in [Bookings -> Status] /\ driver \in [Bookings -> Drivers \union {None}]
      /\ owner \in [Bookings -> Customers \union {None}] /\ tokens \in Seq(Token)
      /\ clock \in 0..MaxTime /\ Unborn
  BY AccessAssumption DEF IInv, TypeOK
<1> HIDE DEF Times
<1>a. UNCHANGED <<status, owner>> => Unborn'
  BY <1>0 DEF Unborn
<1>1. CASE UNCHANGED vars
  BY <1>1, <1>0, <1>a, OthersKeep DEF vars
<1>2. ASSUME NEW b \in Bookings, NEW who \in Callers, Create(b, who) PROVE IInv'
  <2>1. /\ status' = [status EXCEPT ![b] = "OPEN"] /\ owner' = [owner EXCEPT ![b] = who]
        /\ SetQr(b, "BOARDING", clock + 1 + QrTTL, FALSE) /\ UNCHANGED <<driver, moves, clock>>
    BY <1>2 DEF Create
  <2>2. tokens' \in Seq(Token)
    BY <1>2, <1>0, TokenInserted, AccessAssumption DEF Create, IInv
  <2>3. Unborn' /\ status' \in [Bookings -> Status]
        /\ owner' \in [Bookings -> Customers \union {None}]
    BY <2>1, <1>0 DEF Unborn, Status, BeforePickup, Callers
  <2>4. clock + 1 + QrTTL \in Nat
    BY <1>0 DEF Times
  <2> QED BY <2>1, <2>2, <2>3, <2>4, NewCodeKeeps DEF Purpose
<1>3. ASSUME NEW b \in Bookings, NEW c \in {"phone", "name"}, Lookup(b, c) PROVE IInv'
  <2>1. tokens' \in Seq(Token)
    BY <1>3, TokenInserted, AccessAssumption DEF Lookup, IInv
  <2> QED BY <2>1, <1>0, <1>a, <1>3, OthersKeep DEF Lookup
<1>4. ASSUME NEW b \in Bookings, NEW who \in Customers, NEW i \in DOMAIN tokens, Claim(b, who, i)
      PROVE  IInv'
  <2>1. owner' \in [Bookings -> Customers \union {None}] /\ Unborn'
    BY <1>4, <1>0 DEF Claim, Live, Unborn
  <2> QED BY <2>1, <1>0, <1>4, OthersKeep DEF Claim
<1>5. ASSUME NEW b \in Bookings, NEW p \in Purpose, NEW f \in BOOLEAN,
             SetQr(b, p, clock + QrTTL, f), UNCHANGED <<status, driver, owner, tokens, moves, clock>>
      PROVE  IInv'
  <2>1. clock + QrTTL \in Nat
    BY <1>0 DEF Times
  <2> QED BY <2>1, <1>0, <1>a, <1>5, NewCodeKeeps
<1>6. ASSUME NEW b \in Bookings, NEW who \in Callers, NEW i \in 0..Len(tokens),
             NEW force \in BOOLEAN,
             IssueBoardingQr(b, who, i, force) \/ IssueDropoffQr(b, who, i)
      PROVE  IInv'
  BY <1>5, <1>6 DEF IssueBoardingQr, IssueDropoffQr, Purpose
<1>7. ASSUME NEW b \in Bookings, NEW p \in Purpose, ReissueQr(b, p) PROVE IInv'
  BY <1>5, <1>7 DEF ReissueQr
<1>8. ASSUME NEW d \in Drivers, NEW b \in Bookings, NEW c \in DOMAIN codes,
             ScanBoarding(d, b, c) \/ ScanDropoff(d, b, c)
      PROVE  IInv'
  <2>1. CASE ScanBoarding(d, b, c)
    BY <2>1, ConsumeKeeps DEF ScanBoarding, Purpose, Status
  <2>2. CASE ScanDropoff(d, b, c)
    BY <2>2, ConsumeKeeps DEF ScanDropoff, Purpose, Status
  <2> QED BY <1>8, <2>1, <2>2
<1>9. ASSUME NEW b \in Bookings, NEW s \in Status \ {"NONE"}, status[b] # "NONE",
             status' = [status EXCEPT ![b] = s],
             driver' \in [Bookings -> Drivers \union {None}],
             UNCHANGED <<owner, tokens, codes, qr, moves, clock>>
      PROVE  IInv'
  <2>1. status' \in [Bookings -> Status] /\ Unborn'
    BY <1>0, <1>9 DEF Unborn
  <2> QED BY <2>1, <1>0, <1>9, OthersKeep
<1>10. ASSUME NEW b \in Bookings, NEW d \in Drivers, Assign(b, d) PROVE IInv'
  BY <1>0, <1>9, <1>10 DEF Assign, Status, BeforePickup
<1>11. ASSUME NEW b \in Bookings, Release(b) PROVE IInv'
  BY <1>0, <1>9, <1>11 DEF Release, Status, BeforePickup
<1>12. ASSUME NEW b \in Bookings, NEW s \in Status, Press(b, s) PROVE IInv'
  <2>1. s # "NONE" /\ status[b] # "NONE"
    BY <1>12 DEF Press
  <2> QED BY <2>1, <1>0, <1>9, <1>12 DEF Press
<1>13. ASSUME NEW b \in Bookings, NEW s \in Status, Close(b, s) PROVE IInv'
  <2>1. s # "NONE" /\ status[b] # "NONE"
    BY <1>13 DEF Close, BeforePickup
  <2> QED BY <2>1, <1>0, <1>9, <1>13 DEF Close
<1>14. CASE Tick
  <2>1. clock' \in 0..MaxTime
    BY <1>14, <1>0, AccessAssumption DEF Tick
  <2> QED BY <2>1, <1>0, <1>a, <1>14, OthersKeep DEF Tick
<1> QED
  BY <1>1, <1>2, <1>3, <1>4, <1>6, <1>7, <1>8, <1>10, <1>11, <1>12, <1>13, <1>14 DEF Next

-----------------------------------------------------------------------------
(* The inductive invariant of the codes and the owners.                    *)
THEOREM AccessInvariance == Spec => []IInv
  BY Initially, Keeps, PTL DEF Spec

(* A code moves one booking once, before it expires or is replaced.        *)
THEOREM CodesMoveABookingOnce == Spec => []CodesMoveOnce
<1>1. IInv => CodesMoveOnce
  BY DEF IInv, MovesInv, MoveInv, CodesMoveOnce
<1> QED BY <1>1, AccessInvariance, PTL

(* A booking that belongs to an account is never moved to another.         *)
THEOREM OwnersStay == Spec => OwnerStays
<1>1. IInv /\ [Next]_vars =>
        [\A b \in Bookings : owner[b] # None => owner'[b] = owner[b]]_vars
  <2> SUFFICES ASSUME IInv, Next, NEW k \in Bookings, owner[k] # None
               PROVE  owner'[k] = owner[k]
    OBVIOUS
  <2>0. owner \in [Bookings -> Customers \union {None}] /\ Unborn
    BY DEF IInv, TypeOK
  <2>1. ASSUME NEW b \in Bookings, NEW who \in Callers, Create(b, who)
        PROVE  owner'[k] = owner[k]
    BY <2>0, <2>1 DEF Create, Unborn
  <2>2. ASSUME NEW b \in Bookings, NEW who \in Customers, NEW i \in DOMAIN tokens, Claim(b, who, i)
        PROVE  owner'[k] = owner[k]
    BY <2>0, <2>2 DEF Claim
  <2>3. CASE UNCHANGED owner
    BY <2>3
  <2> QED BY <2>1, <2>2, <2>3 DEF Next, Lookup, IssueBoardingQr, IssueDropoffQr, ReissueQr,
             ScanBoarding, ScanDropoff, Consume, Assign, Release, Press, Close, Tick
<1> QED BY <1>1, AccessInvariance, PTL DEF Spec, OwnerStays

-----------------------------------------------------------------------------
(* The worker may still get the notification to the device, or has not     *)
(* got it to any: only once it did will its record end the delivery.       *)
NotDone(w, t) ==
  \/ worker[w].pc = "list"
  \/ t \in worker[w].left
  \/ "delivered" \notin worker[w].results

StillAt(n, t) == {w \in Workers : worker[w].note = n /\ NotDone(w, t)}
Busy(n) == \E w \in Workers : worker[w].note = n

WorkerRow ==
  [pc: {"idle", "list", "push"}, note: Notes \union {None}, left: SUBSET Tokens,
   results: SUBSET {"delivered", "transient", "permanent"}]

PushTypes ==
  /\ device \in [Tokens -> Pushes!DeviceRow]
  /\ holder \in [PushedBookings -> PushedCustomers \union {None}]
  /\ note \in [Notes -> Pushes!Note \union {None}]
  /\ worker \in [Workers -> WorkerRow]
  /\ shown \in [Notes -> [Tokens -> Nat]]
  /\ excused \in [Notes -> Nat]

WorkersInv ==
  \A w \in Workers :
    /\ worker[w].pc # "idle" => worker[w].note \in Notes
    /\ worker[w].note \in Notes => note[worker[w].note] # None

(* One copy may reach each device for nothing; every worker that is not    *)
(* done has that one or an excuse to spend, and an idle notification that  *)
(* will be served again has kept it.                                       *)
CreditInv(n, t) ==
  /\ shown[n][t] + Cardinality(StillAt(n, t)) <= 1 + excused[n]
  /\ ~Busy(n) /\ note[n] # None =>
       (Pushes!Unfinished(note[n]) => shown[n][t] <= excused[n])
  /\ note[n] = None => shown[n][t] = 0

PushInv ==
  /\ PushTypes /\ WorkersInv
  /\ \A n \in Notes, t \in Tokens : CreditInv(n, t)

-----------------------------------------------------------------------------
(* A set of workers has a size.                                            *)
LEMMA StillAtIsFinite ==
  ASSUME NEW n, NEW t
  PROVE  IsFiniteSet(StillAt(n, t)) /\ Cardinality(StillAt(n, t)) \in Nat
<1>1. StillAt(n, t) \in SUBSET Workers
  BY DEF StillAt
<1> QED BY <1>1, FS_Subset, FS_CardinalityType, PushAssumption

(* One worker's step changes the set by that worker at most.               *)
LEMMA StillAtMoves ==
  ASSUME PushTypes, NEW w \in Workers, NEW row \in WorkerRow,
         worker' = [worker EXCEPT ![w] = row], NEW n \in Notes, NEW t \in Tokens
  PROVE  /\ Cardinality(StillAt(n, t)') \in Nat /\ Cardinality(StillAt(n, t)) \in Nat
         /\ Cardinality(StillAt(n, t)') <= Cardinality(StillAt(n, t)) + 1
         /\ (w \in StillAt(n, t) \/ w \notin StillAt(n, t)') =>
               Cardinality(StillAt(n, t)') <= Cardinality(StillAt(n, t))
         /\ w \in StillAt(n, t) /\ w \notin StillAt(n, t)' =>
               Cardinality(StillAt(n, t)') + 1 <= Cardinality(StillAt(n, t))
<1> DEFINE S == StillAt(n, t)
           U == StillAt(n, t)'
<1>1. \A v \in Workers : v # w => worker'[v] = worker[v]
  BY DEF PushTypes
<1>2. S \subseteq Workers /\ U \subseteq Workers /\ S \ {w} = U \ {w}
  BY <1>1 DEF StillAt, NotDone
<1>3. IsFiniteSet(S) /\ IsFiniteSet(U) /\ Cardinality(S) \in Nat /\ Cardinality(U) \in Nat
  BY <1>2, FS_Subset, FS_CardinalityType, PushAssumption
<1> HIDE DEF S, U
<1>4. Cardinality(S \ {w}) = IF w \in S THEN Cardinality(S) - 1 ELSE Cardinality(S)
  BY <1>3, FS_RemoveElement
<1>5. Cardinality(U \ {w}) = IF w \in U THEN Cardinality(U) - 1 ELSE Cardinality(U)
  BY <1>3, FS_RemoveElement
<1>6. /\ Cardinality(U) \in Nat /\ Cardinality(S) \in Nat
      /\ Cardinality(U) <= Cardinality(S) + 1
      /\ (w \in S \/ w \notin U) => Cardinality(U) <= Cardinality(S)
      /\ w \in S /\ w \notin U => Cardinality(U) + 1 <= Cardinality(S)
  BY <1>2, <1>3, <1>4, <1>5
<1> QED BY <1>6 DEF S, U

(* What a worker does for one notification leaves the others' credit.      *)
LEMMA OtherNotesKeep ==
  ASSUME PushTypes, NEW w \in Workers, NEW row \in WorkerRow,
         worker' = [worker EXCEPT ![w] = row], NEW n \in Notes, NEW t \in Tokens,
         worker[w].note # n, row.note # n, note'[n] = note[n],
         shown'[n] = shown[n], excused'[n] = excused[n], CreditInv(n, t)
  PROVE  CreditInv(n, t)'
<1>1. w \notin StillAt(n, t) /\ w \notin StillAt(n, t)' /\ (Busy(n) <=> Busy(n)')
  BY DEF StillAt, Busy, PushTypes
<1>2. /\ Cardinality(StillAt(n, t)') <= Cardinality(StillAt(n, t))
      /\ Cardinality(StillAt(n, t)') \in Nat /\ Cardinality(StillAt(n, t)) \in Nat
  BY <1>1, StillAtMoves
<1>3. shown[n][t] \in Nat /\ excused[n] \in Nat
  BY DEF PushTypes
<1>4. (shown[n][t] + Cardinality(StillAt(n, t)) <= 1 + excused[n])'
  BY <1>2, <1>3 DEF CreditInv
<1>5. (~Busy(n) /\ note[n] # None =>
        (Pushes!Unfinished(note[n]) => shown[n][t] <= excused[n]))'
  BY <1>1 DEF CreditInv, Pushes!Unfinished
<1>6. (note[n] = None => shown[n][t] = 0)'
  BY DEF CreditInv
<1> QED BY <1>4, <1>5, <1>6 DEF CreditInv

(* Whatever leaves workers, pushes and excuses alone, and the status and   *)
(* number of attempts of each notification.                                *)
LEMMA QuietKeeps ==
  ASSUME PushInv, UNCHANGED <<worker, shown, excused>>,
         device' \in [Tokens -> Pushes!DeviceRow],
         holder' \in [PushedBookings -> PushedCustomers \union {None}],
         note' \in [Notes -> Pushes!Note \union {None}],
         \A n \in Notes :
           \/ note'[n] = note[n]
           \/ /\ note[n] # None /\ note'[n] # None
              /\ note'[n].status = note[n].status /\ note'[n].attempts = note[n].attempts
  PROVE  PushInv'
<1>1. PushTypes'
  BY DEF PushInv, PushTypes
<1>2. \A n \in Notes : note[n] = None <=> note'[n] = None
  OBVIOUS
<1>3. WorkersInv'
  BY <1>2 DEF PushInv, WorkersInv
<1>4. ASSUME NEW n \in Notes, NEW t \in Tokens PROVE CreditInv(n, t)'
  <2>1. CreditInv(n, t) /\ StillAt(n, t)' = StillAt(n, t) /\ (Busy(n)' <=> Busy(n))
    BY DEF PushInv, StillAt, NotDone, Busy
  <2>2. note[n] # None => (Pushes!Unfinished(note[n])' <=> Pushes!Unfinished(note[n]))
    BY DEF Pushes!Unfinished
  <2>3. (shown[n][t] + Cardinality(StillAt(n, t)) <= 1 + excused[n])'
    BY <2>1 DEF CreditInv
  <2>4. (~Busy(n) /\ note[n] # None =>
          (Pushes!Unfinished(note[n]) => shown[n][t] <= excused[n]))'
    BY <1>2, <2>1, <2>2 DEF CreditInv
  <2>5. (note[n] = None => shown[n][t] = 0)'
    BY <1>2, <2>1 DEF CreditInv
  <2> QED BY <2>3, <2>4, <2>5 DEF CreditInv
<1> QED BY <1>1, <1>3, <1>4 DEF PushInv

(* An untouched inbox owes nothing.                                        *)
LEMMA PushInitially == Pushes!Init => PushInv
<1> SUFFICES ASSUME Pushes!Init PROVE PushInv
  OBVIOUS
<1> USE DEF Pushes!Init, Pushes!Idle
<1>1. PushTypes
  <2>1. [pc |-> "idle", note |-> None, left |-> {}, results |-> {}] \in WorkerRow
    BY DEF WorkerRow
  <2>2. \A t \in Tokens : device[t] \in Pushes!DeviceRow
    BY DEF Pushes!DeviceRow, Pushes!Owners
  <2> QED BY <2>1, <2>2 DEF PushTypes
<1>2. WorkersInv
  BY PushAssumption DEF WorkersInv
<1>3. ASSUME NEW n \in Notes, NEW t \in Tokens PROVE CreditInv(n, t)
  <2>1. StillAt(n, t) = {} /\ ~Busy(n)
    BY PushAssumption DEF StillAt, Busy
  <2>2. Cardinality(StillAt(n, t)) = 0
    BY <2>1, FS_EmptySet
  <2> QED BY <2>1, <2>2 DEF CreditInv
<1> QED BY <1>1, <1>2, <1>3 DEF PushInv

-----------------------------------------------------------------------------
(* An idle worker takes a notification up.                                 *)
LEMMA TakenUp ==
  ASSUME PushInv, NEW w \in Workers, NEW n \in Notes, worker[w] = Pushes!Idle,
         NEW row \in WorkerRow, row.note = n, row.pc = "list",
         worker' = [worker EXCEPT ![w] = row],
         UNCHANGED <<device, holder, shown>>, note' \in [Notes -> Pushes!Note \union {None}],
         note'[n] # None, \A k \in Notes : k # n => note'[k] = note[k],
         excused' \in [Notes -> Nat], \A k \in Notes : k # n => excused'[k] = excused[k],
         \/ note[n] = None /\ excused'[n] = excused[n]
         \/ note[n] # None /\ ~Busy(n) /\ Pushes!Unfinished(note[n]) /\ excused'[n] = excused[n]
         \/ note[n] # None /\ Busy(n) /\ excused'[n] = excused[n] + 1
  PROVE  PushInv'
<1>1. row \in WorkerRow /\ row.note = n /\ row.pc = "list"
  OBVIOUS
<1>2. worker' = [worker EXCEPT ![w] = row] /\ worker[w].note = None
  BY DEF Pushes!Idle
<1>3. /\ PushTypes /\ WorkersInv /\ worker'[w] = row
      /\ \A v \in Workers : v # w => worker'[v] = worker[v]
  BY <1>2 DEF PushInv, PushTypes
<1>4. PushTypes'
  <2>1. worker' \in [Workers -> WorkerRow]
    BY <1>1, <1>2 DEF PushInv, PushTypes
  <2> QED BY <2>1 DEF PushInv, PushTypes
<1>5. WorkersInv'
  <2>1. \A k \in Notes : note[k] # None => note'[k] # None
    OBVIOUS
  <2> QED BY <1>1, <1>3, <2>1 DEF WorkersInv
<1>6. ASSUME NEW k \in Notes, NEW t \in Tokens, k # n PROVE CreditInv(k, t)'
  <2>1. CreditInv(k, t) /\ worker[w].note # k /\ row.note # k
    BY <1>1, <1>2, <1>6, PushAssumption DEF PushInv
  <2> QED BY <1>1, <1>2, <1>3, <1>6, <2>1, OtherNotesKeep
<1>7. ASSUME NEW t \in Tokens PROVE CreditInv(n, t)'
  <2>1. CreditInv(n, t) /\ shown[n][t] \in Nat /\ excused[n] \in Nat
    BY DEF PushInv, PushTypes
  <2>2. /\ Cardinality(StillAt(n, t)') <= Cardinality(StillAt(n, t)) + 1
        /\ Cardinality(StillAt(n, t)') \in Nat /\ Cardinality(StillAt(n, t)) \in Nat
    BY <1>1, <1>2, <1>3, StillAtMoves
  <2>3. ~Busy(n) => Cardinality(StillAt(n, t)) = 0
    <3>1. ~Busy(n) => StillAt(n, t) = {}
      BY DEF Busy, StillAt
    <3> QED BY <3>1, FS_EmptySet
  <2>4. note[n] = None => ~Busy(n)
    BY <1>3 DEF WorkersInv, Busy
  <2>5. Busy(n)'
    BY <1>1, <1>3 DEF Busy
  <2>6. (shown[n][t] + Cardinality(StillAt(n, t)) <= 1 + excused[n])'
    <3>1. CASE note[n] = None /\ excused'[n] = excused[n]
      BY <3>1, <2>1, <2>2, <2>3, <2>4 DEF CreditInv
    <3>2. CASE note[n] # None /\ ~Busy(n) /\ Pushes!Unfinished(note[n]) /\ excused'[n] = excused[n]
      BY <3>2, <2>1, <2>2, <2>3 DEF CreditInv
    <3>3. CASE note[n] # None /\ Busy(n) /\ excused'[n] = excused[n] + 1
      BY <3>3, <2>1, <2>2 DEF CreditInv
    <3> QED BY <3>1, <3>2, <3>3
  <2> QED BY <2>5, <2>6 DEF CreditInv
<1> QED BY <1>4, <1>5, <1>6, <1>7 DEF PushInv

(* Creating a notification and having it processed again.                  *)
LEMMA StartKeeps ==
  ASSUME PushInv, NEW w \in Workers, NEW n \in Notes
  PROVE  /\ \A b \in PushedBookings : \A u \in Staff \union PushedCustomers \union {None} :
              Pushes!Create(w, n, b, u) => PushInv'
         /\ Pushes!Process(w, n) => PushInv'
<1>0. PushTypes
  BY DEF PushInv
<1> DEFINE row == [Pushes!Idle EXCEPT !.pc = "list", !.note = n]
<1>a. row \in WorkerRow /\ row.note = n /\ row.pc = "list"
  BY DEF Pushes!Idle, WorkerRow
<1> HIDE DEF row
<1>1. ASSUME NEW b \in PushedBookings, NEW u \in Staff \union PushedCustomers \union {None},
             Pushes!Create(w, n, b, u)
      PROVE  PushInv'
  <2>0. Pushes!New(u, b) \in Pushes!Note
    BY PushAssumption DEF Pushes!New, Pushes!Note
  <2>1. Pushes!New(u, b) \in Pushes!Note /\ Pushes!New(u, b) # None
    BY <2>0, PushAssumption
  <2>2. /\ worker[w] = Pushes!Idle /\ note[n] = None
        /\ note' = [note EXCEPT ![n] = Pushes!New(u, b)]
        /\ worker' = [worker EXCEPT ![w] = row]
        /\ UNCHANGED <<device, holder, shown, excused>>
    BY <1>1 DEF row, Pushes!Create, Pushes!Made
  <2>3. /\ note' \in [Notes -> Pushes!Note \union {None}] /\ note'[n] # None
        /\ \A k \in Notes : k # n => note'[k] = note[k]
        /\ excused' \in [Notes -> Nat]
    BY <1>0, <2>1, <2>2 DEF PushTypes
  <2> QED BY <1>a, <2>2, <2>3, TakenUp
<1>2. ASSUME Pushes!Process(w, n) PROVE PushInv'
  <2>1. /\ worker[w] = Pushes!Idle /\ note[n] # None /\ Pushes!Unfinished(note[n])
        /\ excused' = [excused EXCEPT ![n] = IF Busy(n) THEN @ + 1 ELSE @]
        /\ worker' = [worker EXCEPT ![w] = row]
        /\ UNCHANGED <<device, holder, note, shown>>
    BY <1>2 DEF row, Pushes!Process, Pushes!Made, Busy, Pushes!Serves
  <2>2. /\ excused' \in [Notes -> Nat] /\ \A k \in Notes : k # n => excused'[k] = excused[k]
        /\ excused'[n] = IF Busy(n) THEN excused[n] + 1 ELSE excused[n]
    BY <1>0, <2>1 DEF PushTypes
  <2>3. note' \in [Notes -> Pushes!Note \union {None}]
    BY <1>0, <2>1 DEF PushTypes
  <2> QED BY <1>a, <2>1, <2>2, <2>3, TakenUp
<1> QED BY <1>1, <1>2

(* One step of a worker over the devices of its notification: what it      *)
(* shows must be an excuse, or the worker's own copy.                      *)
LEMMA WorkKeeps ==
  ASSUME PushInv, NEW w \in Workers, NEW row \in WorkerRow, NEW n \in Notes,
         worker[w].note = n, row.note = n,
         worker' = [worker EXCEPT ![w] = row], UNCHANGED <<holder, note>>,
         device' \in [Tokens -> Pushes!DeviceRow],
         shown' \in [Notes -> [Tokens -> Nat]], excused' \in [Notes -> Nat],
         \A k \in Notes : k # n => shown'[k] = shown[k] /\ excused'[k] = excused[k],
         \A t \in Tokens :
           \/ /\ shown'[n][t] = shown[n][t] /\ excused[n] <= excused'[n]
              /\ NotDone(w, t)' => NotDone(w, t)
           \/ /\ shown'[n][t] = shown[n][t] + 1 /\ excused'[n] = excused[n] + 1
              /\ NotDone(w, t)' => NotDone(w, t)
           \/ /\ shown'[n][t] = shown[n][t] + 1 /\ excused'[n] = excused[n]
              /\ NotDone(w, t) /\ ~NotDone(w, t)'
  PROVE  PushInv'
<1>1. /\ PushTypes /\ WorkersInv /\ worker'[w] = row
      /\ \A v \in Workers : v # w => worker'[v] = worker[v]
  BY DEF PushInv, PushTypes
<1>2. PushTypes'
  <2>1. worker' \in [Workers -> WorkerRow]
    BY <1>1 DEF PushTypes
  <2> QED BY <1>1, <2>1 DEF PushTypes
<1>3. WorkersInv'
  BY <1>1 DEF WorkersInv
<1>4. ASSUME NEW k \in Notes, NEW t \in Tokens, k # n PROVE CreditInv(k, t)'
  <2>1. CreditInv(k, t) /\ worker[w].note # k /\ row.note # k
    BY <1>4 DEF PushInv
  <2> QED BY <1>1, <1>4, <2>1, OtherNotesKeep
<1>5. ASSUME NEW t \in Tokens PROVE CreditInv(n, t)'
  <2>1. /\ CreditInv(n, t) /\ shown[n][t] \in Nat /\ excused[n] \in Nat
        /\ shown'[n][t] \in Nat /\ excused'[n] \in Nat
    BY <1>1 DEF PushInv, PushTypes
  <2>2. /\ Cardinality(StillAt(n, t)') \in Nat /\ Cardinality(StillAt(n, t)) \in Nat
        /\ (w \in StillAt(n, t) \/ w \notin StillAt(n, t)') =>
               Cardinality(StillAt(n, t)') <= Cardinality(StillAt(n, t))
        /\ w \in StillAt(n, t) /\ w \notin StillAt(n, t)' =>
               Cardinality(StillAt(n, t)') + 1 <= Cardinality(StillAt(n, t))
    BY <1>1, StillAtMoves
  <2>3. /\ w \in StillAt(n, t) <=> NotDone(w, t)
        /\ w \in StillAt(n, t)' <=> NotDone(w, t)'
    BY <1>1 DEF StillAt
  <2>4. (shown[n][t] + Cardinality(StillAt(n, t)) <= 1 + excused[n])'
    BY <2>1, <2>2, <2>3 DEF CreditInv
  <2>5. Busy(n) /\ Busy(n)' /\ note[n] # None
    BY <1>1 DEF Busy, WorkersInv
  <2> QED BY <2>4, <2>5 DEF CreditInv
<1> QED BY <1>2, <1>3, <1>4, <1>5 DEF PushInv

(* Reading the devices, and the three answers of a push.                   *)
LEMMA PushingKeeps ==
  ASSUME PushInv, NEW w \in Workers
  PROVE  /\ Pushes!ListDevices(w) => PushInv'
         /\ \A t \in Tokens : Pushes!PushDelivered(w, t) \/ Pushes!PushFails(w, t)
                              \/ Pushes!PushRefused(w, t) => PushInv'
<1>00. PICK n : n = worker[w].note
  OBVIOUS
<1> DEFINE Types == /\ device' \in [Tokens -> Pushes!DeviceRow]
                    /\ shown' \in [Notes -> [Tokens -> Nat]] /\ excused' \in [Notes -> Nat]
<1>0. /\ PushTypes /\ WorkersInv /\ worker[w] \in WorkerRow
      /\ worker[w].pc # "idle" => n \in Notes
  BY <1>00 DEF PushInv, PushTypes, WorkersInv
<1>1. ASSUME Pushes!ListDevices(w) PROVE PushInv'
  <2> DEFINE row == [worker[w] EXCEPT !.pc = "push", !.left = Pushes!ActiveDevices(note[n])]
  <2>1. worker[w].pc = "list" /\ UNCHANGED <<device, holder, note, shown, excused>>
    BY <1>1 DEF Pushes!ListDevices
  <2>2. worker' = [worker EXCEPT ![w] = row]
    BY <1>00, <1>0, <1>1 DEF Pushes!ListDevices
  <2>3. row \in WorkerRow /\ row.note = n
    BY <1>00, <1>0 DEF WorkerRow, Pushes!ActiveDevices
  <2>4. \A t \in Tokens : NotDone(w, t)
    BY <2>1 DEF NotDone
  <2>5. Types
    BY <1>0, <2>1 DEF PushTypes
  <2> HIDE DEF row
  <2>6. n \in Notes /\ excused[n] \in Nat
    BY <1>0, <2>1 DEF PushTypes
  <2>7. \A k \in Notes : shown'[k] = shown[k] /\ excused'[k] = excused[k]
    BY <2>1
  <2>8. excused[n] <= excused'[n]
    BY <2>1, <2>6
  <2> QED BY <1>00, <2>1, <2>2, <2>3, <2>4, <2>5, <2>6, <2>7, <2>8, WorkKeeps
<1>2. ASSUME NEW t \in Tokens, NEW r \in {"delivered", "transient", "permanent"},
             worker[w].pc = "push", t \in worker[w].left, Pushes!Served(w, t, r),
             UNCHANGED <<holder, note>>, Types,
             \A k \in Notes, s \in Tokens : k # n \/ s # t => shown'[k][s] = shown[k][s],
             \A k \in Notes : k # n => excused'[k] = excused[k],
             \/ shown'[n][t] = shown[n][t] /\ excused'[n] = excused[n]
             \/ shown'[n][t] = shown[n][t] + 1 /\ excused'[n] = excused[n] + 1
             \/ r = "delivered" /\ shown'[n][t] = shown[n][t] + 1 /\ excused'[n] = excused[n]
      PROVE  PushInv'
  <2> DEFINE row == [worker[w] EXCEPT !.left = @ \ {t}, !.results = @ \union {r}]
  <2>1. worker' = [worker EXCEPT ![w] = row]
    BY <1>0, <1>2 DEF Pushes!Served
  <2>2. row \in WorkerRow /\ row.note = n /\ row.pc = "push"
        /\ row.left = worker[w].left \ {t} /\ row.results = worker[w].results \union {r}
    BY <1>00, <1>0, <1>2 DEF WorkerRow
  <2> HIDE DEF row
  <2>3. worker'[w] = row /\ n \in Notes /\ excused[n] \in Nat
    BY <1>0, <1>2, <2>1 DEF PushTypes
  <2>4. \A s \in Tokens : NotDone(w, s)' => NotDone(w, s)
    BY <2>2, <2>3 DEF NotDone
  <2>5. NotDone(w, t) /\ (r = "delivered" => ~NotDone(w, t)')
    BY <1>2, <2>2, <2>3 DEF NotDone
  <2>6. \A k \in Notes : k # n => shown'[k] = shown[k]
    <3> SUFFICES ASSUME NEW k \in Notes, k # n PROVE shown'[k] = shown[k]
      OBVIOUS
    <3>1. shown[k] \in [Tokens -> Nat] /\ shown'[k] \in [Tokens -> Nat]
      BY <1>0, <1>2 DEF PushTypes
    <3> QED BY <3>1, <1>2
  <2>7. \A s \in Tokens :
           \/ /\ shown'[n][s] = shown[n][s] /\ excused[n] <= excused'[n]
              /\ NotDone(w, s)' => NotDone(w, s)
           \/ /\ shown'[n][s] = shown[n][s] + 1 /\ excused'[n] = excused[n] + 1
              /\ NotDone(w, s)' => NotDone(w, s)
           \/ /\ shown'[n][s] = shown[n][s] + 1 /\ excused'[n] = excused[n]
              /\ NotDone(w, s) /\ ~NotDone(w, s)'
    BY <1>2, <2>3, <2>4, <2>5
  <2>8. \A k \in Notes : k # n => shown'[k] = shown[k] /\ excused'[k] = excused[k]
    BY <1>2, <2>6
  <2>9. /\ UNCHANGED <<holder, note>> /\ device' \in [Tokens -> Pushes!DeviceRow]
        /\ shown' \in [Notes -> [Tokens -> Nat]] /\ excused' \in [Notes -> Nat]
    BY <1>2
  <2>10. worker[w].note = n /\ row.note = n /\ row \in WorkerRow /\ n \in Notes
    BY <1>00, <2>2, <2>3
  <2> HIDE DEF Types
  <2> QED BY <2>1, <2>7, <2>8, <2>9, <2>10, WorkKeeps
<1>3. \A k \in Notes, s \in Tokens :
        [shown EXCEPT ![k][s] = @ + 1] \in [Notes -> [Tokens -> Nat]]
  BY <1>0 DEF PushTypes
<1>4. ASSUME NEW t \in Tokens, Pushes!PushDelivered(w, t) PROVE PushInv'
  <2>1. /\ worker[w].pc = "push" /\ t \in worker[w].left /\ Pushes!Served(w, t, "delivered")
        /\ shown' = [shown EXCEPT ![n][t] = @ + 1] /\ UNCHANGED <<device, holder, note, excused>>
        /\ n \in Notes
    BY <1>00, <1>0, <1>4 DEF Pushes!PushDelivered
  <2>2. Types
    BY <1>0, <1>3, <2>1 DEF PushTypes
  <2>3. /\ shown'[n][t] = shown[n][t] + 1
        /\ \A k \in Notes, s \in Tokens : k # n \/ s # t => shown'[k][s] = shown[k][s]
    BY <1>0, <2>1 DEF PushTypes
  <2> QED BY <1>2, <2>1, <2>2, <2>3
<1>5. ASSUME NEW t \in Tokens, Pushes!PushFails(w, t) PROVE PushInv'
  <2>1. /\ worker[w].pc = "push" /\ t \in worker[w].left /\ Pushes!Served(w, t, "transient")
        /\ UNCHANGED <<device, holder, note>> /\ n \in Notes
    BY <1>00, <1>0, <1>5 DEF Pushes!PushFails
  <2>2. CASE UNCHANGED <<shown, excused>>
    <3>1. Types
      BY <1>0, <2>1, <2>2 DEF PushTypes
    <3> QED BY <1>2, <2>1, <2>2, <3>1
  <2>3. CASE /\ shown' = [shown EXCEPT ![n][t] = @ + 1]
             /\ excused' = [excused EXCEPT ![n] = @ + 1]
    <3>1. Types
      BY <1>0, <1>3, <2>1, <2>3 DEF PushTypes
    <3>2. /\ shown'[n][t] = shown[n][t] + 1 /\ excused'[n] = excused[n] + 1
          /\ \A k \in Notes, s \in Tokens : k # n \/ s # t => shown'[k][s] = shown[k][s]
          /\ \A k \in Notes : k # n => excused'[k] = excused[k]
      BY <1>0, <2>1, <2>3 DEF PushTypes
    <3> QED BY <1>2, <2>1, <3>1, <3>2
  <2> QED BY <1>00, <1>5, <2>2, <2>3 DEF Pushes!PushFails
<1>6. ASSUME NEW t \in Tokens, Pushes!PushRefused(w, t) PROVE PushInv'
  <2>1. /\ worker[w].pc = "push" /\ t \in worker[w].left /\ Pushes!Served(w, t, "permanent")
        /\ device' = [device EXCEPT ![t].active = FALSE]
        /\ UNCHANGED <<holder, note, shown, excused>>
    BY <1>6 DEF Pushes!PushRefused
  <2>2. [device[t] EXCEPT !.active = FALSE] \in Pushes!DeviceRow
    BY <1>0 DEF PushTypes, Pushes!DeviceRow
  <2>3. Types
    BY <1>0, <2>1, <2>2 DEF PushTypes
  <2> QED BY <1>2, <2>1, <2>3
<1> QED BY <1>1, <1>4, <1>5, <1>6

(* A recorded answer leaves a row of a delivery.                           *)
LEMMA RecordedIsNote ==
  ASSUME NEW m \in Pushes!Note, NEW results
  PROVE  [m EXCEPT !.status = Pushes!Outcome(results), !.attempts = Pushes!Bumped(@)]
           \in Pushes!Note
<1>1. Pushes!Outcome(results) \in {"PENDING", "DELIVERED", "SKIPPED", "FAILED", "PERMANENT"}
  BY DEF Pushes!Outcome
<1>2. Pushes!Bumped(m.attempts) \in 0..MAX_DELIVERY_ATTEMPTS
  BY PushAssumption DEF Pushes!Bumped, Pushes!Note
<1> QED BY <1>1, <1>2 DEF Pushes!Note

(* The record: without a device served, the worker's copy is left over for *)
(* whoever takes the notification up again.                                *)
LEMMA RecordKeeps ==
  ASSUME PushInv, NEW w \in Workers, Pushes!Record(w)
  PROVE  PushInv'
<1>0. PICK n : n = worker[w].note
  OBVIOUS
<1> DEFINE row == Pushes!Idle
<1>1. /\ PushTypes /\ WorkersInv /\ worker[w] \in WorkerRow /\ n \in Notes
      /\ worker[w].pc = "push" /\ worker[w].left = {} /\ note[n] # None
      /\ worker' = [worker EXCEPT ![w] = row] /\ UNCHANGED <<device, holder, shown>>
  BY <1>0 DEF PushInv, PushTypes, WorkersInv, Pushes!Record
<1>2. row \in WorkerRow /\ row.note = None /\ row.pc = "idle"
  BY DEF WorkerRow, Pushes!Idle
<1> HIDE DEF row
<1>3. \/ /\ excused' = excused
         /\ note'[n] \in Pushes!Note /\ note'[n].status = Pushes!Outcome(worker[w].results)
         /\ note' = [note EXCEPT ![n] = note'[n]]
      \/ excused' = [excused EXCEPT ![n] = @ + 1] /\ note' = note
  <2>1. CASE /\ note' = [note EXCEPT ![n].status = Pushes!Outcome(worker[w].results),
                                     ![n].attempts = Pushes!Bumped(@)]
             /\ UNCHANGED excused
    <3> DEFINE new == [note[n] EXCEPT !.status = Pushes!Outcome(worker[w].results),
                                      !.attempts = Pushes!Bumped(@)]
    <3>1. note' = [note EXCEPT ![n] = new]
      BY <1>1, <2>1 DEF PushTypes
    <3>2. note[n] \in Pushes!Note
      BY <1>1 DEF PushTypes
    <3>5. new \in Pushes!Note /\ new.status = Pushes!Outcome(worker[w].results)
      BY <3>2, RecordedIsNote DEF Pushes!Note
    <3> HIDE DEF new
    <3>6. note'[n] = new
      BY <1>1, <3>1 DEF PushTypes
    <3> QED BY <2>1, <3>1, <3>5, <3>6
  <2>2. CASE excused' = [excused EXCEPT ![n] = @ + 1] /\ UNCHANGED note
    BY <2>2
  <2> QED BY <1>0, <2>1, <2>2 DEF Pushes!Record
<1>4. /\ worker'[w] = row /\ \A v \in Workers : v # w => worker'[v] = worker[v]
      /\ \A k \in Notes : k # n => note'[k] = note[k] /\ excused'[k] = excused[k]
      /\ note'[n] # None /\ note' \in [Notes -> Pushes!Note \union {None}]
      /\ excused' \in [Notes -> Nat]
  <2>1. \/ /\ note' \in [Notes -> Pushes!Note \union {None}] /\ note'[n] # None
           /\ \A k \in Notes : k # n => note'[k] = note[k]
        \/ note' = note
    BY <1>1, <1>3, PushAssumption DEF PushTypes
  <2>2. /\ excused' \in [Notes -> Nat] /\ \A k \in Notes : k # n => excused'[k] = excused[k]
    BY <1>1, <1>3 DEF PushTypes
  <2> QED BY <1>1, <2>1, <2>2 DEF PushTypes
<1>5. PushTypes'
  <2>1. worker' \in [Workers -> WorkerRow]
    BY <1>1, <1>2 DEF PushTypes
  <2> QED BY <1>1, <1>4, <2>1 DEF PushTypes
<1>6. WorkersInv'
  <2>1. \A k \in Notes : note[k] # None => note'[k] # None
    BY <1>4
  <2> QED BY <1>1, <1>2, <1>4, <2>1, PushAssumption DEF WorkersInv
<1>7. ASSUME NEW k \in Notes, NEW t \in Tokens, k # n PROVE CreditInv(k, t)'
  <2>1. CreditInv(k, t) /\ worker[w].note # k /\ row.note # k /\ shown'[k] = shown[k]
    BY <1>0, <1>1, <1>2, <1>7, PushAssumption DEF PushInv
  <2> QED BY <1>1, <1>2, <1>4, <1>7, <2>1, OtherNotesKeep
<1>8. ASSUME NEW t \in Tokens PROVE CreditInv(n, t)'
  <2>1. CreditInv(n, t) /\ shown[n][t] \in Nat /\ excused[n] \in Nat /\ shown'[n][t] = shown[n][t]
    BY <1>1 DEF PushInv, PushTypes
  <2>2. /\ Cardinality(StillAt(n, t)') \in Nat /\ Cardinality(StillAt(n, t)) \in Nat
        /\ Cardinality(StillAt(n, t)') <= Cardinality(StillAt(n, t))
        /\ w \in StillAt(n, t) => Cardinality(StillAt(n, t)') + 1 <= Cardinality(StillAt(n, t))
    <3>1. w \notin StillAt(n, t)'
      BY <1>1, <1>2, <1>4, PushAssumption DEF StillAt
    <3> QED BY <1>1, <1>2, <3>1, StillAtMoves
  <2>3. excused[n] <= excused'[n] /\ excused'[n] \in Nat
    BY <1>1, <1>3, <2>1 DEF PushTypes
  <2>4. (shown[n][t] + Cardinality(StillAt(n, t)) <= 1 + excused[n])'
    BY <2>1, <2>2, <2>3 DEF CreditInv
  <2>5. (Pushes!Unfinished(note[n]))' => (shown[n][t] <= excused[n])'
    <3>1. CASE /\ excused' = excused /\ note'[n].status = Pushes!Outcome(worker[w].results)
      <4>1. CASE "delivered" \in worker[w].results
        <5>1. note'[n].status = "DELIVERED"
          BY <3>1, <4>1 DEF Pushes!Outcome
        <5> QED BY <5>1 DEF Pushes!Unfinished
      <4>2. CASE "delivered" \notin worker[w].results
        <5>1. w \in StillAt(n, t)
          BY <1>0, <4>2 DEF StillAt, NotDone
        <5> QED BY <3>1, <5>1, <2>1, <2>2 DEF CreditInv
      <4> QED BY <4>1, <4>2
    <3>2. CASE excused' = [excused EXCEPT ![n] = @ + 1]
      <4>1. excused'[n] = excused[n] + 1
        BY <1>1, <3>2 DEF PushTypes
      <4> QED BY <4>1, <2>1, <2>2 DEF CreditInv
    <3> QED BY <1>3, <3>1, <3>2
  <2> QED BY <1>4, <2>4, <2>5 DEF CreditInv
<1> QED BY <1>5, <1>6, <1>7, <1>8 DEF PushInv

(* A crash forgets every worker and excuses what each had served.          *)
LEMMA CrashKeeps == PushInv /\ Pushes!Crash => PushInv'
<1> SUFFICES ASSUME PushInv, Pushes!Crash PROVE PushInv'
  OBVIOUS
<1>1. /\ PushTypes /\ UNCHANGED <<device, holder, note, shown>>
      /\ excused' = [n \in Notes |-> IF Busy(n) THEN excused[n] + 1 ELSE excused[n]]
      /\ worker' = [w \in Workers |-> Pushes!Idle]
  BY DEF PushInv, Pushes!Crash, Busy, Pushes!Serves
<1>2. Pushes!Idle \in WorkerRow /\ Pushes!Idle.note = None /\ Pushes!Idle.pc = "idle"
  BY DEF Pushes!Idle, WorkerRow
<1>3. PushTypes'
  <2>1. excused' \in [Notes -> Nat] /\ worker' \in [Workers -> WorkerRow]
    BY <1>1, <1>2 DEF PushTypes
  <2> QED BY <1>1, <2>1 DEF PushTypes
<1>4. WorkersInv'
  BY <1>1, <1>2, PushAssumption DEF WorkersInv
<1>5. ASSUME NEW n \in Notes, NEW t \in Tokens PROVE CreditInv(n, t)'
  <2>1. /\ CreditInv(n, t) /\ shown[n][t] \in Nat /\ excused[n] \in Nat
        /\ Cardinality(StillAt(n, t)) \in Nat
    BY <1>1, StillAtIsFinite DEF PushInv, PushTypes
  <2>2. StillAt(n, t)' = {}
    BY <1>1, <1>2, PushAssumption DEF StillAt
  <2>3. Cardinality(StillAt(n, t)') = 0
    BY <2>2, FS_EmptySet
  <2>4. excused'[n] = IF Busy(n) THEN excused[n] + 1 ELSE excused[n]
    BY <1>1
  <2> QED BY <1>1, <2>1, <2>3, <2>4 DEF CreditInv, Pushes!Unfinished
<1> QED BY <1>3, <1>4, <1>5 DEF PushInv

(* Every step keeps the credit of each device: one case per action.        *)
LEMMA PushKeeps == PushInv /\ [Pushes!Next]_pushVars => PushInv'
<1> SUFFICES ASSUME PushInv, [Pushes!Next]_pushVars PROVE PushInv'
  OBVIOUS
<1>0. PushTypes
  BY DEF PushInv
<1>1. CASE UNCHANGED pushVars
  BY <1>0, <1>1, QuietKeeps DEF pushVars, PushTypes
<1>2. ASSUME NEW t \in Tokens, NEW o \in Staff \union PushedBookings,
             Pushes!UpsertDevice(t, o) \/ Pushes!DeactivateDevice(t, o)
      PROVE  PushInv'
  <2>1. [owner |-> o, active |-> TRUE] \in Pushes!DeviceRow
        /\ [device[t] EXCEPT !.active = FALSE] \in Pushes!DeviceRow
    BY <1>0 DEF PushTypes, Pushes!DeviceRow, Pushes!Owners
  <2>2. /\ device' \in [Tokens -> Pushes!DeviceRow]
        /\ UNCHANGED <<holder, note, worker, shown, excused>>
    BY <1>0, <1>2, <2>1 DEF PushTypes, Pushes!UpsertDevice, Pushes!DeactivateDevice
  <2> QED BY <1>0, <2>2, QuietKeeps DEF PushTypes
<1>3. ASSUME NEW b \in PushedBookings, NEW c \in PushedCustomers, Pushes!Claim(b, c)
      PROVE  PushInv'
  <2>1. holder' \in [PushedBookings -> PushedCustomers \union {None}]
        /\ UNCHANGED <<device, note, worker, shown, excused>>
    BY <1>0, <1>3 DEF PushTypes, Pushes!Claim
  <2> QED BY <1>0, <2>1, QuietKeeps DEF PushTypes
<1>4. \A n \in Notes : Pushes!Made(n) =>
        /\ [note[n] EXCEPT !.read = TRUE] \in Pushes!Note
        /\ [note[n] EXCEPT !.read = TRUE].status = note[n].status
        /\ [note[n] EXCEPT !.read = TRUE].attempts = note[n].attempts
        /\ [note[n] EXCEPT !.read = TRUE] # None
  <2> SUFFICES ASSUME NEW n \in Notes, Pushes!Made(n)
               PROVE  /\ [note[n] EXCEPT !.read = TRUE] \in Pushes!Note
                      /\ [note[n] EXCEPT !.read = TRUE].status = note[n].status
                      /\ [note[n] EXCEPT !.read = TRUE].attempts = note[n].attempts
                      /\ [note[n] EXCEPT !.read = TRUE] # None
    OBVIOUS
  <2>1. note[n] \in Pushes!Note
    BY <1>0 DEF PushTypes, Pushes!Made
  <2>2. /\ [note[n] EXCEPT !.read = TRUE] \in Pushes!Note
        /\ [note[n] EXCEPT !.read = TRUE].status = note[n].status
        /\ [note[n] EXCEPT !.read = TRUE].attempts = note[n].attempts
    BY <2>1 DEF Pushes!Note
  <2> QED BY <2>2, PushAssumption
<1>5. ASSUME note' \in [Notes -> Pushes!Note \union {None}],
             UNCHANGED <<device, holder, worker, shown, excused>>,
             \A n \in Notes : note'[n] = note[n]
                              \/ (Pushes!Made(n) /\ note'[n] = [note[n] EXCEPT !.read = TRUE])
      PROVE  PushInv'
  <2>1. \A n \in Notes :
           \/ note'[n] = note[n]
           \/ /\ note[n] # None /\ note'[n] # None
              /\ note'[n].status = note[n].status /\ note'[n].attempts = note[n].attempts
    BY <1>4, <1>5 DEF Pushes!Made
  <2> QED BY <1>0, <1>5, <2>1, QuietKeeps DEF PushTypes
<1>6. ASSUME NEW u \in Staff \union PushedCustomers, Pushes!MarkAllReadForUser(u) PROVE PushInv'
  <2>1. /\ note' = [n \in Notes |-> IF n \in Pushes!UserList(u)
                                    THEN [note[n] EXCEPT !.read = TRUE] ELSE note[n]]
        /\ UNCHANGED <<device, holder, worker, shown, excused>>
    BY <1>6 DEF Pushes!MarkAllReadForUser
  <2>2. \A n \in Pushes!UserList(u) : Pushes!Made(n)
    BY DEF Pushes!UserList, Pushes!Matches
  <2>3. \A n \in Notes : note'[n] = note[n]
                          \/ (Pushes!Made(n) /\ note'[n] = [note[n] EXCEPT !.read = TRUE])
    BY <2>1, <2>2
  <2>4. \A n \in Notes : note'[n] \in Pushes!Note \union {None}
    BY <1>0, <1>4, <2>3 DEF PushTypes
  <2>5. note' \in [Notes -> Pushes!Note \union {None}]
    BY <2>1, <2>4
  <2> QED BY <1>5, <2>1, <2>3, <2>5
<1>7. ASSUME NEW u \in Staff \union PushedCustomers, NEW n \in Notes, Pushes!MarkReadForUser(u, n)
      PROVE  PushInv'
  <2>1. /\ note' = [note EXCEPT ![n] = [note[n] EXCEPT !.read = TRUE]] /\ Pushes!Made(n)
        /\ UNCHANGED <<device, holder, worker, shown, excused>>
    BY <1>0, <1>7 DEF Pushes!MarkReadForUser, Pushes!UserList, Pushes!Matches, PushTypes
  <2> DEFINE new == [note[n] EXCEPT !.read = TRUE]
  <2>2. new \in Pushes!Note
    BY <1>4, <2>1
  <2> HIDE DEF new
  <2>3. note' = [note EXCEPT ![n] = new]
    BY <2>1 DEF new
  <2>4. note' \in [Notes -> Pushes!Note \union {None}]
    BY <1>0, <2>2, <2>3 DEF PushTypes
  <2>5. \A k \in Notes : note'[k] = note[k] \/ (k = n /\ note'[k] = new)
    BY <1>0, <2>3 DEF PushTypes
  <2> QED BY <1>5, <2>1, <2>4, <2>5 DEF new
<1>8. ASSUME NEW w \in Workers, NEW n \in Notes, NEW b \in PushedBookings,
             NEW u \in Staff \union PushedCustomers \union {None},
             Pushes!Create(w, n, b, u) \/ Pushes!Process(w, n)
      PROVE  PushInv'
  BY <1>8, StartKeeps
<1>8a. ASSUME NEW w \in Workers, NEW n \in Notes, Pushes!Process(w, n) PROVE PushInv'
  BY <1>8a, StartKeeps
<1>9. ASSUME NEW w \in Workers, Pushes!ListDevices(w) \/ Pushes!Record(w) PROVE PushInv'
  BY <1>9, PushingKeeps, RecordKeeps
<1>10. ASSUME NEW w \in Workers, NEW t \in Tokens,
              Pushes!PushDelivered(w, t) \/ Pushes!PushFails(w, t) \/ Pushes!PushRefused(w, t)
       PROVE  PushInv'
  BY <1>10, PushingKeeps
<1> QED
  BY <1>1, <1>2, <1>3, <1>6, <1>7, <1>8, <1>8a, <1>9, <1>10, CrashKeeps
     DEF Pushes!Next, Pushes!RegisterDeviceForUser, Pushes!RegisterDeviceForGuestBooking,
         Pushes!DeactivateDeviceForUser, Pushes!DeactivateDeviceForGuestBooking

-----------------------------------------------------------------------------
(* The inductive invariant of the pushes.                                  *)
THEOREM PushInvariance == CustomersSpec => []PushInv
<1>1. CustomersInit => PushInv
  BY PushInitially DEF CustomersInit
<1>2. PushInv /\ [CustomersNext]_customersVars => PushInv'
  BY PushKeeps DEF CustomersNext, PushStep, AccessStep, ReviewStep, customersVars, pushVars
<1> QED BY <1>1, <1>2, PTL DEF CustomersSpec

(* However many workers serve a notification, and however often it is      *)
(* taken up again, a device shows it again only for an excuse.             *)
THEOREM NotShownTwice == CustomersSpec => []NoSecondPush
<1>1. PushInv => NoSecondPush
  <2> SUFFICES ASSUME PushInv, NEW n \in Notes, NEW t \in Tokens
               PROVE  shown[n][t] <= 1 + excused[n]
    BY DEF NoSecondPush, Pushes!NoSecondPush
  <2>1. /\ shown[n][t] + Cardinality(StillAt(n, t)) <= 1 + excused[n]
        /\ shown[n][t] \in Nat /\ excused[n] \in Nat /\ Cardinality(StillAt(n, t)) \in Nat
    BY StillAtIsFinite DEF PushInv, PushTypes, CreditInv
  <2> QED BY <2>1
<1> QED BY <1>1, PushInvariance, PTL

(* No step takes a notification off a booking's list.                      *)
THEOREM ListsOnlyGrow == CustomersSpec => ListOnlyGrows
<1>1. PushInv /\ [CustomersNext]_customersVars =>
        [\A b \in PushedBookings : Pushes!BookingList(b) \subseteq Pushes!BookingList(b)']_pushVars
  <2> SUFFICES ASSUME PushInv, Pushes!Next, NEW b \in PushedBookings, NEW n \in Pushes!BookingList(b)
               PROVE  n \in Pushes!BookingList(b)'
    BY DEF CustomersNext, PushStep, AccessStep, ReviewStep, customersVars, pushVars
  <2>0. /\ PushTypes /\ WorkersInv
        /\ n \in Notes /\ note[n] # None /\ note[n] \in Pushes!Note
        /\ holder[b] = None => Pushes!Matches(n, None, b)
        /\ holder[b] # None => Pushes!Matches(n, holder[b], b) \/ Pushes!Matches(n, None, b)
    BY DEF PushInv, PushTypes, Pushes!BookingList, Pushes!OwnedList, Pushes!GuestList,
           Pushes!Matches, Pushes!Made
  <2> DEFINE Kept == note'[n] # None /\ note'[n].user = note[n].user
                     /\ note'[n].booking = note[n].booking
  <2>1. ASSUME Kept, holder'[b] = holder[b] \/ holder[b] = None
        PROVE  n \in Pushes!BookingList(b)'
    <3>1. \A u : Pushes!Matches(n, u, b) => Pushes!Matches(n, u, b)'
      BY <2>1 DEF Pushes!Matches, Pushes!Made
    <3>2. Pushes!Matches(n, None, b)' \/ (holder'[b] # None /\ Pushes!Matches(n, holder[b], b)'
                                          /\ holder'[b] = holder[b])
      BY <2>0, <2>1, <3>1
    <3> QED
      BY <2>0, <3>2 DEF Pushes!BookingList, Pushes!OwnedList, Pushes!GuestList, Pushes!Matches
  <2>2. ASSUME NEW c \in PushedCustomers, NEW x \in PushedBookings, Pushes!Claim(x, c)
        PROVE  n \in Pushes!BookingList(b)'
    <3>1. Kept /\ (holder'[b] = holder[b] \/ holder[b] = None)
      BY <2>0, <2>2 DEF Pushes!Claim, PushTypes
    <3> QED BY <2>1, <3>1
  <2>3. ASSUME holder' = holder, Kept PROVE n \in Pushes!BookingList(b)'
    BY <2>1, <2>3
  <2>4. ASSUME NEW u \in Staff \union PushedCustomers,
               \/ Pushes!MarkAllReadForUser(u)
               \/ \E k \in Notes : Pushes!MarkReadForUser(u, k)
        PROVE  n \in Pushes!BookingList(b)'
    <3>1. note'[n] = note[n] \/ note'[n] = [note[n] EXCEPT !.read = TRUE]
      BY <2>0, <2>4 DEF Pushes!MarkAllReadForUser, Pushes!MarkReadForUser, PushTypes
    <3>2. [note[n] EXCEPT !.read = TRUE] \in Pushes!Note
      BY <2>0 DEF Pushes!Note
    <3>3. Kept
      BY <2>0, <3>1, <3>2, PushAssumption DEF Pushes!Note
    <3>4. holder' = holder
      BY <2>4 DEF Pushes!MarkAllReadForUser, Pushes!MarkReadForUser
    <3> QED BY <2>3, <3>3, <3>4
  <2>5. ASSUME NEW w \in Workers, NEW k \in Notes, NEW x \in PushedBookings,
               NEW u \in Staff \union PushedCustomers \union {None}, Pushes!Create(w, k, x, u)
        PROVE  n \in Pushes!BookingList(b)'
    <3>1. Kept /\ holder' = holder
      BY <2>0, <2>5 DEF Pushes!Create, Pushes!Made, PushTypes
    <3> QED BY <2>3, <3>1
  <2>6. ASSUME NEW w \in Workers, Pushes!Record(w) PROVE n \in Pushes!BookingList(b)'
    <3>1. PICK m : m = worker[w].note
      OBVIOUS
    <3> DEFINE new == [note[n] EXCEPT !.status = Pushes!Outcome(worker[w].results),
                                      !.attempts = Pushes!Bumped(@)]
    <3>2. note'[n] = note[n] \/ note'[n] = new
      BY <2>0, <2>6, <3>1 DEF Pushes!Record, PushTypes
    <3>3. new.user = note[n].user /\ new.booking = note[n].booking
      BY <2>0 DEF Pushes!Note
    <3>5. new \in Pushes!Note
      BY <2>0, RecordedIsNote
    <3>6. new # None
      BY <3>5, PushAssumption
    <3>7. Kept /\ holder' = holder
      BY <2>0, <2>6, <3>2, <3>3, <3>6 DEF Pushes!Record
    <3> QED BY <2>3, <3>7
  <2>7. CASE UNCHANGED <<holder, note>>
    BY <2>0, <2>3, <2>7
  <2> QED
    BY <2>2, <2>4, <2>5, <2>6, <2>7
       DEF Pushes!Next, Pushes!RegisterDeviceForUser, Pushes!RegisterDeviceForGuestBooking,
           Pushes!DeactivateDeviceForUser, Pushes!DeactivateDeviceForGuestBooking,
           Pushes!UpsertDevice, Pushes!DeactivateDevice, Pushes!Process, Pushes!ListDevices,
           Pushes!PushDelivered, Pushes!PushFails, Pushes!PushRefused, Pushes!Crash
<1> QED BY <1>1, PushInvariance, PTL DEF CustomersSpec, ListOnlyGrows, Pushes!ListOnlyGrows, pushVars, Pushes!vars

-----------------------------------------------------------------------------
(* The assignment rows of a booking: at most the last is active, and it    *)
(* was written last.                                                       *)
RowsInv(b) ==
  /\ rows[b] \in Seq(Rated!Row)
  /\ \A i \in DOMAIN rows[b] :
       /\ rows[b][i].active => i = Len(rows[b])
       /\ rows[b][i].updated <= rows[b][Len(rows[b])].updated
       /\ rows[b][i].updated <= reviewClock

Driven(b) == Len(rows[b]) # 0 /\ drove[b] = rows[b][Len(rows[b])].driver

(* The column names the driver of the active row, which is the driver who  *)
(* drove once the trip has ended.                                          *)
TripInv(b) ==
  /\ reviewStatus[b] \in {"OPEN", "COMPLETED"} =>
       column[b] = None /\ \A i \in DOMAIN rows[b] : ~rows[b][i].active
  /\ reviewStatus[b] \notin {"OPEN", "COMPLETED"} =>
       /\ Len(rows[b]) # 0 /\ rows[b][Len(rows[b])].active
       /\ column[b] = rows[b][Len(rows[b])].driver
  /\ reviewStatus[b] \in Rated!Ended => Driven(b) /\ request[b].eligible

(* A review is of a trip that ended and credited to its driver; hidden     *)
(* reviews have their reason.                                              *)
ReviewInv(b) ==
  review[b] # None =>
    /\ reviewStatus[b] \in Rated!Ended
    /\ review[b].driver = drove[b]
    /\ review[b].visible <=> review[b].reason = ""

ReviewTypes ==
  /\ reviewStatus \in [ReviewedBookings ->
                        {"OPEN", "PICKED_UP"} \union Rated!Coming \union Rated!Ended]
  /\ column \in [ReviewedBookings -> ReviewedDrivers \union {None}]
  /\ DOMAIN rows = ReviewedBookings
  /\ request \in [ReviewedBookings -> Rated!Request]
  /\ review \in [ReviewedBookings -> Rated!Review \union {None}]
  /\ drove \in [ReviewedBookings -> ReviewedDrivers \union {None}]
  /\ reviewClock \in Nat

RatingInv ==
  /\ ReviewTypes
  /\ \A b \in ReviewedBookings : RowsInv(b) /\ TripInv(b) /\ ReviewInv(b)

-----------------------------------------------------------------------------
(* What a booking's assignment rows hold.                                  *)
LEMMA RowsHold ==
  ASSUME NEW b, RowsInv(b)
  PROVE  /\ Len(rows[b]) \in Nat /\ DOMAIN rows[b] = 1..Len(rows[b])
         /\ \A i \in DOMAIN rows[b] :
              /\ rows[b][i] \in Rated!Row /\ rows[b][i].driver \in ReviewedDrivers
              /\ rows[b][i].active \in BOOLEAN /\ rows[b][i].updated \in Nat
<1>1. rows[b] \in Seq(Rated!Row)
  BY DEF RowsInv
<1>2. /\ Len(rows[b]) \in Nat /\ DOMAIN rows[b] = 1..Len(rows[b])
      /\ \A i \in 1..Len(rows[b]) : rows[b][i] \in Rated!Row
  BY <1>1
<1> QED BY <1>2 DEF Rated!Row

(* Switching off keeps the drivers, and stamps the row that was active.    *)
LEMMA SwitchedOffRows ==
  ASSUME NEW b, RowsInv(b), reviewClock \in Nat, NEW s, s = Rated!SwitchedOff(b)
  PROVE  /\ s \in Seq(Rated!Row) /\ Len(s) = Len(rows[b]) /\ DOMAIN s = DOMAIN rows[b]
         /\ \A i \in DOMAIN s :
              /\ s[i].driver = rows[b][i].driver /\ ~s[i].active
              /\ s[i].updated = IF rows[b][i].active THEN reviewClock ELSE rows[b][i].updated
<1>1. /\ DOMAIN s = 1..Len(rows[b]) /\ Len(rows[b]) \in Nat
      /\ s = [i \in 1..Len(rows[b]) |->
                IF rows[b][i].active
                THEN [rows[b][i] EXCEPT !.active = FALSE, !.updated = reviewClock]
                ELSE rows[b][i]]
  BY RowsHold DEF Rated!SwitchedOff
<1>2. ASSUME NEW i \in 1..Len(rows[b])
      PROVE  /\ s[i] \in Rated!Row
             /\ s[i].driver = rows[b][i].driver /\ ~s[i].active
             /\ s[i].updated = IF rows[b][i].active THEN reviewClock ELSE rows[b][i].updated
  <2>1. rows[b][i] \in Rated!Row
    BY <1>1, RowsHold
  <2>2. s[i] = IF rows[b][i].active
               THEN [rows[b][i] EXCEPT !.active = FALSE, !.updated = reviewClock]
               ELSE rows[b][i]
    BY <1>1
  <2> QED BY <2>1, <2>2 DEF Rated!Row
<1>3. s \in [1..Len(rows[b]) -> Rated!Row]
  BY <1>1, <1>2
<1>4. s \in Seq(Rated!Row) /\ Len(s) = Len(rows[b])
  <2>1. s \in Seq(Rated!Row)
    BY <1>1, <1>3, SeqDef
  <2>2. Len(s) \in Nat /\ 1..Len(s) = 1..Len(rows[b])
    BY <1>1, <2>1, LenProperties
  <2> DEFINE k == Len(s)
             n == Len(rows[b])
  <2>3. k \in Nat /\ n \in Nat /\ 1..k = 1..n
    BY <1>1, <2>2
  <2> HIDE DEF k, n
  <2>4. k = n
    <3>1. \A i : i \in 1..k <=> i \in 1..n
      BY <2>3
    <3>2. k # 0 => k \in 1..n
      BY <2>3, <3>1
    <3>3. n # 0 => n \in 1..k
      BY <2>3, <3>1
    <3> QED BY <2>3, <3>2, <3>3
  <2> QED BY <2>1, <2>4 DEF k, n
<1> QED BY <1>1, <1>2, <1>4, RowsHold

(* Once a trip has ended, its driver is found, and is the one who drove.   *)
LEMMA DriverIsFound ==
  ASSUME RatingInv, NEW b \in ReviewedBookings, reviewStatus[b] \in Rated!Ended
  PROVE  Rated!DriverOf(b) = drove[b] /\ drove[b] \in ReviewedDrivers
<1> DEFINE n == Len(rows[b])
<1>1. /\ RowsInv(b) /\ TripInv(b) /\ n \in Nat /\ DOMAIN rows[b] = 1..n
      /\ n # 0 /\ drove[b] = rows[b][n].driver
      /\ \A i \in 1..n : rows[b][i].active \in BOOLEAN /\ rows[b][i].updated \in Nat
      /\ rows[b][n].driver \in ReviewedDrivers
  BY RowsHold DEF RatingInv, TripInv, Driven
<1>2. CASE reviewStatus[b] # "COMPLETED"
  <2>1. column[b] = rows[b][n].driver
    BY <1>1, <1>2 DEF TripInv, Rated!Ended
  <2> QED BY <2>1, <1>1, ReviewAssumption DEF Rated!DriverOf
<1>3. CASE reviewStatus[b] = "COMPLETED"
  <2>1. column[b] = None /\ \A i \in 1..n : ~rows[b][i].active
    BY <1>1, <1>3 DEF TripInv
  <2>2. \A i \in 1..n : rows[b][i].updated <= rows[b][n].updated
    BY <1>1 DEF RowsInv
  <2>3. \A j \in (1..n) \ {n} : Rated!Before(b, n, j)
    BY <1>1, <2>1, <2>2 DEF Rated!Before
  <2>4. ASSUME NEW i \in 1..n, \A j \in (1..n) \ {i} : Rated!Before(b, i, j)
        PROVE  i = n
    <3> SUFFICES ASSUME i # n PROVE FALSE
      OBVIOUS
    <3>1. Rated!Before(b, i, n)
      BY <1>1, <2>4
    <3> QED BY <3>1, <1>1, <2>1, <2>2 DEF Rated!Before
  <2>5. (CHOOSE i \in 1..n : \A j \in (1..n) \ {i} : Rated!Before(b, i, j)) = n
    BY <1>1, <2>3, <2>4
  <2>6. reviewStatus[b] \in Rated!Ended /\ 1..n # {}
    BY <1>1, <1>3 DEF Rated!Ended
  <2>7. Rated!DriverOf(b) =
          rows[b][CHOOSE i \in 1..n : \A j \in (1..n) \ {i} : Rated!Before(b, i, j)].driver
    BY <1>1, <2>1, <2>6, Zenon DEF Rated!DriverOf
  <2> QED BY <1>1, <2>5, <2>7
<1> QED BY <1>2, <1>3

(* A step of one booking that writes its rows so, keeps the others.        *)
LEMMA OtherBookingsKeep ==
  ASSUME RatingInv, NEW b \in ReviewedBookings, ReviewTypes', reviewClock' = reviewClock,
         \A c \in ReviewedBookings : c # b =>
           /\ reviewStatus'[c] = reviewStatus[c] /\ column'[c] = column[c]
           /\ rows'[c] = rows[c] /\ request'[c] = request[c]
           /\ review'[c] = review[c] /\ drove'[c] = drove[c],
         RowsInv(b)', TripInv(b)', ReviewInv(b)'
  PROVE  RatingInv'
<1>1. ASSUME NEW c \in ReviewedBookings, c # b
      PROVE  (RowsInv(c) /\ TripInv(c) /\ ReviewInv(c))'
  <2>1. RowsInv(c) /\ TripInv(c) /\ ReviewInv(c)
    BY DEF RatingInv
  <2>2. /\ reviewStatus'[c] = reviewStatus[c] /\ column'[c] = column[c]
        /\ rows'[c] = rows[c] /\ request'[c] = request[c]
        /\ review'[c] = review[c] /\ drove'[c] = drove[c]
    BY <1>1
  <2>3. RowsInv(c)'
    BY <2>1, <2>2 DEF RowsInv
  <2>4. TripInv(c)' /\ ReviewInv(c)'
    BY <2>1, <2>2 DEF TripInv, ReviewInv, Driven
  <2> QED BY <2>3, <2>4
<1> QED BY <1>1 DEF RatingInv

(* No row, no driver, no review at first.                                  *)
LEMMA RatingInitially == Rated!Init => RatingInv
<1> SUFFICES ASSUME Rated!Init PROVE RatingInv
  OBVIOUS
<1> USE DEF Rated!Init
<1>1. ReviewTypes
  <2>1. [eligible |-> FALSE, copied |-> FALSE, sent |-> FALSE, optedOut |-> FALSE]
          \in Rated!Request
    BY DEF Rated!Request
  <2> QED BY <2>1 DEF ReviewTypes
<1>2. ASSUME NEW b \in ReviewedBookings PROVE RowsInv(b) /\ TripInv(b) /\ ReviewInv(b)
  <2>1. rows[b] = <<>> /\ <<>> \in Seq(Rated!Row) /\ DOMAIN rows[b] = {}
    OBVIOUS
  <2> QED BY <2>1 DEF RowsInv, TripInv, ReviewInv, Rated!Ended
<1> QED BY <1>1, <1>2 DEF RatingInv

-----------------------------------------------------------------------------
(* An assignment: the row that was active is stamped and switched off, the *)
(* new one comes last.                                                     *)
LEMMA AssignmentKeeps ==
  ASSUME RatingInv, NEW b \in ReviewedBookings, NEW d \in ReviewedDrivers, Rated!Assign(b, d)
  PROVE  RatingInv'
<1> DEFINE row == [driver |-> d, active |-> TRUE, updated |-> reviewClock]
<1>0. PICK s : s = Rated!SwitchedOff(b)
  OBVIOUS
<1>1. /\ ReviewTypes /\ RowsInv(b) /\ TripInv(b) /\ ReviewInv(b) /\ reviewClock \in Nat
  BY DEF RatingInv, ReviewTypes
<1>2. row \in Rated!Row /\ row.driver = d /\ row.active /\ row.updated = reviewClock
  BY <1>1 DEF Rated!Row
<1>3. /\ s \in Seq(Rated!Row) /\ Len(s) = Len(rows[b]) /\ DOMAIN s = DOMAIN rows[b]
      /\ \A i \in DOMAIN s :
           /\ s[i].driver = rows[b][i].driver /\ ~s[i].active
           /\ s[i].updated = IF rows[b][i].active THEN reviewClock ELSE rows[b][i].updated
  BY <1>0, <1>1, SwitchedOffRows
<1>4. /\ rows' = [rows EXCEPT ![b] = Append(s, row)]
      /\ column' = [column EXCEPT ![b] = d]
      /\ reviewStatus' = [reviewStatus EXCEPT ![b] = IF @ = "OPEN" THEN "DRIVER_ASSIGNED" ELSE @]
      /\ reviewStatus[b] \in {"OPEN"} \union Rated!Coming
      /\ UNCHANGED <<request, review, drove, reviewClock>>
  BY <1>0 DEF Rated!Assign
<1> HIDE DEF row
<1>5. /\ rows'[b] = Append(s, row) /\ column'[b] = d
      /\ reviewStatus'[b] \in Rated!Coming
      /\ \A c \in ReviewedBookings : c # b =>
           /\ reviewStatus'[c] = reviewStatus[c] /\ column'[c] = column[c] /\ rows'[c] = rows[c]
  BY <1>1, <1>4 DEF ReviewTypes, Rated!Coming
<1>6. ReviewTypes'
  BY <1>1, <1>4 DEF ReviewTypes, Rated!Coming
<1>7. /\ rows'[b] \in Seq(Rated!Row) /\ Len(rows'[b]) = Len(rows[b]) + 1
      /\ Len(rows[b]) \in Nat /\ DOMAIN rows'[b] = 1..(Len(rows[b]) + 1)
      /\ rows'[b][Len(rows[b]) + 1] = row
      /\ \A i \in 1..Len(rows[b]) : rows'[b][i] = s[i] /\ i \in DOMAIN s
  BY <1>1, <1>2, <1>3, <1>5, RowsHold
<1>8. \A i \in 1..Len(rows[b]) : ~rows'[b][i].active /\ rows'[b][i].updated <= reviewClock
  BY <1>1, <1>3, <1>7, RowsHold DEF RowsInv
<1>9. RowsInv(b)'
  <2> SUFFICES ASSUME NEW i \in DOMAIN rows'[b]
               PROVE  /\ rows'[b][i].active => i = Len(rows[b]) + 1
                      /\ rows'[b][i].updated <= reviewClock
    BY <1>2, <1>4, <1>7 DEF RowsInv
  <2>1. CASE i = Len(rows[b]) + 1
    BY <1>1, <1>2, <1>7, <2>1
  <2>2. CASE i \in 1..Len(rows[b])
    BY <1>8, <2>2
  <2> QED BY <1>7, <2>1, <2>2
<1>10. TripInv(b)'
  BY <1>2, <1>5, <1>7 DEF TripInv, Rated!Coming, Rated!Ended
<1>11. ReviewInv(b)'
  BY <1>1, <1>4 DEF ReviewInv, Rated!Coming, Rated!Ended
<1> QED BY <1>4, <1>5, <1>6, <1>9, <1>10, <1>11, OtherBookingsKeep

(* A release and the settlement: the active row is stamped and switched    *)
(* off, which leaves it the latest.                                        *)
LEMMA ReleaseKeeps ==
  ASSUME RatingInv, NEW b \in ReviewedBookings, Rated!Release(b) \/ Rated!Complete(b)
  PROVE  RatingInv'
<1>0. PICK s : s = Rated!SwitchedOff(b)
  OBVIOUS
<1>1. /\ ReviewTypes /\ RowsInv(b) /\ TripInv(b) /\ ReviewInv(b) /\ reviewClock \in Nat
  BY DEF RatingInv, ReviewTypes
<1>2. /\ s \in Seq(Rated!Row) /\ Len(s) = Len(rows[b]) /\ DOMAIN s = DOMAIN rows[b]
      /\ \A i \in DOMAIN s :
           /\ s[i].driver = rows[b][i].driver /\ ~s[i].active
           /\ s[i].updated = IF rows[b][i].active THEN reviewClock ELSE rows[b][i].updated
  BY <1>0, <1>1, SwitchedOffRows
<1>3. /\ rows' = [rows EXCEPT ![b] = s] /\ column' = [column EXCEPT ![b] = None]
      /\ UNCHANGED <<request, review, drove, reviewClock>>
      /\ \/ /\ reviewStatus[b] = "DRIVER_ASSIGNED"
            /\ reviewStatus' = [reviewStatus EXCEPT ![b] = "OPEN"]
         \/ /\ reviewStatus[b] = "SETTLEMENT_PENDING"
            /\ reviewStatus' = [reviewStatus EXCEPT ![b] = "COMPLETED"]
  BY <1>0 DEF Rated!Release, Rated!Complete
<1>4. /\ rows'[b] = s /\ column'[b] = None
      /\ \/ reviewStatus[b] = "DRIVER_ASSIGNED" /\ reviewStatus'[b] = "OPEN"
         \/ reviewStatus[b] = "SETTLEMENT_PENDING" /\ reviewStatus'[b] = "COMPLETED"
      /\ \A c \in ReviewedBookings : c # b =>
           /\ reviewStatus'[c] = reviewStatus[c] /\ column'[c] = column[c] /\ rows'[c] = rows[c]
  BY <1>1, <1>3 DEF ReviewTypes
<1>5. ReviewTypes'
  BY <1>1, <1>3 DEF ReviewTypes, Rated!Ended
<1>6. /\ Len(rows[b]) \in Nat \ {0} /\ DOMAIN rows[b] = 1..Len(rows[b])
      /\ rows[b][Len(rows[b])].active
      /\ \A i \in DOMAIN rows[b] : rows[b][i].updated \in Nat /\ rows[b][i].updated <= reviewClock
  BY <1>1, <1>4, RowsHold DEF RowsInv, TripInv
<1>7. /\ s[Len(rows[b])].updated = reviewClock
      /\ \A i \in DOMAIN s : ~s[i].active /\ s[i].updated <= reviewClock
      /\ s[Len(rows[b])].driver = rows[b][Len(rows[b])].driver
  BY <1>1, <1>2, <1>6
<1>8. RowsInv(b)'
  BY <1>2, <1>3, <1>4, <1>7 DEF RowsInv
<1>9. TripInv(b)'
  BY <1>1, <1>2, <1>3, <1>4, <1>6, <1>7 DEF TripInv, Driven, Rated!Ended
<1>10. ReviewInv(b)'
  BY <1>1, <1>3, <1>4 DEF ReviewInv, Rated!Ended
<1> QED BY <1>3, <1>4, <1>5, <1>8, <1>9, <1>10, OtherBookingsKeep

(* The steps of the trip, and its end.                                     *)
LEMMA TripKeeps ==
  ASSUME RatingInv, NEW b \in ReviewedBookings, Rated!Drive(b) \/ Rated!Finish(b)
  PROVE  RatingInv'
<1>1. /\ ReviewTypes /\ RowsInv(b) /\ TripInv(b) /\ ReviewInv(b)
  BY DEF RatingInv
<1>2. CASE Rated!Drive(b)
  <2>1. /\ reviewStatus'[b] \in {"DRIVER_ARRIVED", "PICKED_UP"} /\ reviewStatus[b] \in Rated!Coming
        /\ UNCHANGED <<column, rows, request, review, drove, reviewClock>>
        /\ \A c \in ReviewedBookings : c # b => reviewStatus'[c] = reviewStatus[c]
    BY <1>1, <1>2 DEF Rated!Drive, ReviewTypes
  <2>2. ReviewTypes'
    BY <1>1, <1>2 DEF Rated!Drive, ReviewTypes, Rated!Coming
  <2>3. RowsInv(b)' /\ TripInv(b)' /\ ReviewInv(b)'
    BY <1>1, <2>1 DEF RowsInv, TripInv, ReviewInv, Rated!Coming, Rated!Ended
  <2> QED BY <2>1, <2>2, <2>3, OtherBookingsKeep
<1>3. CASE Rated!Finish(b)
  <2> DEFINE new == [request[b] EXCEPT !.eligible = TRUE]
  <2>0. request[b] \in Rated!Request
    BY <1>1 DEF ReviewTypes
  <2>1. new \in Rated!Request /\ new.eligible
    BY <2>0 DEF Rated!Request
  <2> HIDE DEF new
  <2>2. /\ request' = [request EXCEPT ![b] = new] /\ drove' = [drove EXCEPT ![b] = column[b]]
        /\ reviewStatus' = [reviewStatus EXCEPT ![b] = "SETTLEMENT_PENDING"]
        /\ reviewStatus[b] = "PICKED_UP"
        /\ UNCHANGED <<column, rows, review, reviewClock>>
    BY <1>3 DEF Rated!Finish, new
  <2>3. /\ request'[b] = new /\ drove'[b] = column[b] /\ reviewStatus'[b] = "SETTLEMENT_PENDING"
        /\ \A c \in ReviewedBookings : c # b =>
             /\ reviewStatus'[c] = reviewStatus[c] /\ request'[c] = request[c]
             /\ drove'[c] = drove[c]
    BY <1>1, <2>2 DEF ReviewTypes
  <2>4. ReviewTypes'
    BY <1>1, <2>1, <2>2 DEF ReviewTypes, Rated!Ended
  <2>5. RowsInv(b)'
    BY <1>1, <2>2 DEF RowsInv
  <2>6. TripInv(b)'
    BY <1>1, <2>1, <2>2, <2>3 DEF TripInv, Driven
  <2>7. ReviewInv(b)'
    BY <1>1, <2>2 DEF ReviewInv, Rated!Ended
  <2> QED BY <2>2, <2>3, <2>4, <2>5, <2>6, <2>7, OtherBookingsKeep
<1> QED BY <1>2, <1>3

(* Reviews are written for the driver found, and hidden with a reason.     *)
LEMMA ReviewingKeeps ==
  ASSUME RatingInv, NEW b \in ReviewedBookings
  PROVE  /\ \A r \in Ratings : Rated!Submit(b, r) => RatingInv'
         /\ \A r \in {"r1", "r2"} : Rated!Hide(b, r) => RatingInv'
         /\ Rated!Restore(b) => RatingInv'
<1>1. /\ ReviewTypes /\ RowsInv(b) /\ TripInv(b) /\ ReviewInv(b)
      /\ review[b] # None => review[b] \in Rated!Review
  BY DEF RatingInv, ReviewTypes
<1>2. ASSUME NEW new \in Rated!Review, review' = [review EXCEPT ![b] = new],
             UNCHANGED <<reviewStatus, column, rows, request, drove, reviewClock>>,
             reviewStatus[b] \in Rated!Ended, new.driver = drove[b],
             new.visible <=> new.reason = ""
      PROVE  RatingInv'
  <2>1. review'[b] = new /\ \A c \in ReviewedBookings : c # b => review'[c] = review[c]
    BY <1>1, <1>2 DEF ReviewTypes
  <2>2. ReviewTypes'
    BY <1>1, <1>2 DEF ReviewTypes
  <2>3. RowsInv(b)' /\ TripInv(b)' /\ ReviewInv(b)'
    BY <1>1, <1>2, <2>1 DEF RowsInv, TripInv, ReviewInv, Driven
  <2> QED BY <1>2, <2>1, <2>2, <2>3, OtherBookingsKeep
<1>3. ASSUME NEW r \in Ratings, Rated!Submit(b, r) PROVE RatingInv'
  <2> DEFINE new == [driver |-> Rated!DriverOf(b), rating |-> r, visible |-> TRUE, reason |-> ""]
  <2>1. /\ reviewStatus[b] \in Rated!Ended /\ review' = [review EXCEPT ![b] = new]
        /\ UNCHANGED <<reviewStatus, column, rows, request, drove, reviewClock>>
    BY <1>3 DEF Rated!Submit, Rated!IsReviewEligible
  <2>2. Rated!DriverOf(b) = drove[b] /\ drove[b] \in ReviewedDrivers
    BY <2>1, DriverIsFound
  <2>3. new \in Rated!Review /\ new.driver = drove[b] /\ new.visible /\ new.reason = ""
    BY <2>2 DEF Rated!Review
  <2> HIDE DEF new
  <2> QED BY <1>2, <2>1, <2>3
<1>4. ASSUME NEW r \in {"r1", "r2"}, Rated!Hide(b, r) PROVE RatingInv'
  <2> DEFINE new == [review[b] EXCEPT !.visible = FALSE, !.reason = r]
  <2>1. /\ review[b] # None /\ review' = [review EXCEPT ![b] = new]
        /\ UNCHANGED <<reviewStatus, column, rows, request, drove, reviewClock>>
    BY <1>1, <1>4 DEF Rated!Hide, ReviewTypes
  <2>2. /\ new \in Rated!Review /\ new.driver = review[b].driver
        /\ ~new.visible /\ new.reason # ""
    BY <1>1, <1>4, <2>1 DEF Rated!Review
  <2> HIDE DEF new
  <2>3. reviewStatus[b] \in Rated!Ended /\ review[b].driver = drove[b]
    BY <1>1, <2>1 DEF ReviewInv
  <2> QED BY <1>2, <2>1, <2>2, <2>3
<1>5. ASSUME Rated!Restore(b) PROVE RatingInv'
  <2> DEFINE new == [review[b] EXCEPT !.visible = TRUE, !.reason = ""]
  <2>1. /\ review[b] # None /\ review' = [review EXCEPT ![b] = new]
        /\ UNCHANGED <<reviewStatus, column, rows, request, drove, reviewClock>>
    BY <1>1, <1>5 DEF Rated!Restore, ReviewTypes
  <2>2. /\ new \in Rated!Review /\ new.driver = review[b].driver
        /\ new.visible /\ new.reason = ""
    BY <1>1, <2>1 DEF Rated!Review
  <2> HIDE DEF new
  <2>3. reviewStatus[b] \in Rated!Ended /\ review[b].driver = drove[b]
    BY <1>1, <2>1 DEF ReviewInv
  <2> QED BY <1>2, <2>1, <2>2, <2>3
<1> QED BY <1>3, <1>4, <1>5

(* The operator's requests, which keep whether the trip is eligible.       *)
LEMMA RequestKeeps ==
  ASSUME RatingInv, NEW b \in ReviewedBookings, NEW act \in {"COPY", "SENT", "OPT_OUT"},
         NEW c \in BOOLEAN, NEW o \in BOOLEAN, Rated!UpdateRequest(b, act, c, o)
  PROVE  RatingInv'
<1>1. /\ ReviewTypes /\ RowsInv(b) /\ TripInv(b) /\ ReviewInv(b) /\ request[b] \in Rated!Request
  BY DEF RatingInv, ReviewTypes
<1> DEFINE new == CASE act = "COPY"    -> [request[b] EXCEPT !.copied = TRUE]
                    [] act = "SENT"    -> [request[b] EXCEPT !.sent = TRUE]
                    [] act = "OPT_OUT" -> [request[b] EXCEPT !.optedOut = o]
<1>2. new \in Rated!Request /\ new.eligible = request[b].eligible
  <2>1. CASE act = "COPY"
    BY <1>1, <2>1 DEF Rated!Request
  <2>2. CASE act = "SENT"
    BY <1>1, <2>2 DEF Rated!Request
  <2>3. CASE act = "OPT_OUT"
    BY <1>1, <2>3 DEF Rated!Request
  <2> QED BY <2>1, <2>2, <2>3
<1>3. /\ request' = [request EXCEPT ![b] = new]
      /\ UNCHANGED <<reviewStatus, column, rows, review, drove, reviewClock>>
  BY DEF Rated!UpdateRequest
<1> HIDE DEF new
<1>4. request'[b] = new /\ \A k \in ReviewedBookings : k # b => request'[k] = request[k]
  BY <1>1, <1>3 DEF ReviewTypes
<1>5. ReviewTypes'
  BY <1>1, <1>2, <1>3 DEF ReviewTypes
<1>6. RowsInv(b)' /\ TripInv(b)' /\ ReviewInv(b)'
  BY <1>1, <1>2, <1>3, <1>4 DEF RowsInv, TripInv, ReviewInv, Driven
<1> QED BY <1>3, <1>4, <1>5, <1>6, OtherBookingsKeep

(* Every step keeps the invariant: one case per action.                    *)
LEMMA RatingKeeps == RatingInv /\ [Rated!Next]_reviewVars => RatingInv'
<1> SUFFICES ASSUME RatingInv, [Rated!Next]_reviewVars PROVE RatingInv'
  OBVIOUS
<1>1. ASSUME UNCHANGED <<reviewStatus, column, rows, request, review, drove>>,
             reviewClock' \in Nat, reviewClock <= reviewClock'
      PROVE  RatingInv'
  <2>1. ReviewTypes'
    BY <1>1 DEF RatingInv, ReviewTypes
  <2>2. ASSUME NEW b \in ReviewedBookings PROVE (RowsInv(b) /\ TripInv(b) /\ ReviewInv(b))'
    <3>1. RowsInv(b) /\ TripInv(b) /\ ReviewInv(b) /\ reviewClock \in Nat
      BY DEF RatingInv, ReviewTypes
    <3>2. RowsInv(b)'
      BY <1>1, <3>1, RowsHold DEF RowsInv
    <3> QED BY <1>1, <3>1, <3>2 DEF TripInv, ReviewInv, Driven
  <2> QED BY <2>1, <2>2 DEF RatingInv
<1>2. reviewClock \in Nat
  BY DEF RatingInv, ReviewTypes
<1>3. CASE UNCHANGED reviewVars
  BY <1>1, <1>2, <1>3 DEF reviewVars
<1>4. ASSUME NEW b \in ReviewedBookings, Rated!SendArrival(b) PROVE RatingInv'
  BY <1>1, <1>2, <1>4 DEF Rated!SendArrival
<1>5. CASE Rated!Tick
  BY <1>1, <1>2, <1>5 DEF Rated!Tick
<1> QED
  BY <1>3, <1>4, <1>5, AssignmentKeeps, ReleaseKeeps, TripKeeps, ReviewingKeeps, RequestKeeps
     DEF Rated!Next

-----------------------------------------------------------------------------
(* The inductive invariant of the reviews.                                 *)
THEOREM RatingInvariance == CustomersSpec => []RatingInv
<1>1. CustomersInit => RatingInv
  BY RatingInitially DEF CustomersInit
<1>2. RatingInv /\ [CustomersNext]_customersVars => RatingInv'
  BY RatingKeeps DEF CustomersNext, PushStep, AccessStep, ReviewStep, customersVars, reviewVars
<1> QED BY <1>1, <1>2, PTL DEF CustomersSpec

(* However a booking was reassigned, released and rated, the rating is of  *)
(* the driver of the trip, and every trip that ended is asked about.       *)
THEOREM DriversEarnTheirRatings == CustomersSpec => []RatingsAreEarned
<1>1. RatingInv => RatingsAreEarned
  <2> SUFFICES ASSUME RatingInv PROVE RatingsAreEarned
    OBVIOUS
  <2>1. Rated!RatingsAreEarned
    <3>1. \A b \in ReviewedBookings : ReviewInv(b)
      BY DEF RatingInv
    <3> QED BY <3>1 DEF Rated!RatingsAreEarned, Rated!Summarised, ReviewInv
  <2>2. Rated!EndedTripsAreQueued
    <3>1. \A b \in ReviewedBookings : reviewStatus[b] \in Rated!Ended =>
            Rated!DriverOf(b) # None /\ request[b].eligible
      BY DriverIsFound, ReviewAssumption DEF RatingInv, TripInv
    <3> QED BY <3>1 DEF Rated!EndedTripsAreQueued, Rated!RequestQueue
  <2> QED BY <2>1, <2>2 DEF RatingsAreEarned
<1> QED BY <1>1, RatingInvariance, PTL
=============================================================================
