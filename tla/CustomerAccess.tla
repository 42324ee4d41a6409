---------------------------- MODULE CustomerAccess -----------------------------
(***************************************************************************)
(* What a customer may do with a booking from outside the app: look it up, *)
(* claim it into an account, and show the boarding and drop-off codes the  *)
(* driver scans (GuestBookingLookupService, claimBookingWithGuestToken,    *)
(* issueBoardingQr, issueDropoffQr, AdminQrReissueService, DriverQrService *)
(* and the columns of bookings they share).  Every handler locks the       *)
(* booking's row first and is one action here.                             *)
(***************************************************************************)
EXTENDS Naturals, Sequences

CONSTANTS Bookings, Customers, Drivers,
          None,         \* SQL NULL
          CreationTTL,  \* GUEST_TOKEN_TTL_DAYS, in ticks of the clock
          LookupTTL,    \* LOOKUP_GUEST_TOKEN_TTL_HOURS
          QrTTL,        \* BOARDING_QR_TTL_HOURS = DROPOFF_QR_TTL_HOURS
          MaxTime, MaxTokens, MaxCodes   \* bounds

ASSUME AccessAssumption ==
  /\ CreationTTL \in Nat /\ LookupTTL \in Nat /\ QrTTL \in Nat
  /\ MaxTime \in Nat /\ MaxTokens \in Nat /\ MaxCodes \in Nat

VARIABLES
  status,   \* bookings.status; "NONE" before the row is inserted
  driver,   \* the driver of the booking's active assignment
  owner,    \* bookings.customer_user_id
  tokens,   \* guest_access_tokens, in the order they were inserted
  codes,    \* every QR token ever made, in order; the raw one stays with its reader
  qr,       \* the token_hash and used_at columns of bookings, per purpose
  moves,    \* the scans that moved a booking
  clock

vars == <<status, driver, owner, tokens, codes, qr, moves, clock>>

BeforePickup == {"OPEN", "DRIVER_ASSIGNED", "DRIVER_ARRIVED"}
Status == {"NONE", "PICKED_UP", "SETTLEMENT_PENDING", "COMPLETED", "CANCELLED"}
          \union BeforePickup
Purpose == {"BOARDING", "DROPOFF"}
NoCode == 0

Token == [booking: Bookings, expires: Nat]
(* forced: the customer asked for forceReissue, or an admin re-issued it.  *)
Code == [booking: Bookings, purpose: Purpose, made: Nat, expires: Nat, forced: BOOLEAN]
(* A scan that moved a booking, with what was true when it was made.       *)
Move == [code: Nat, booking: Bookings, purpose: Purpose, at: Nat, made: Nat]

TypeOK ==
  /\ status \in [Bookings -> Status]
  /\ driver \in [Bookings -> Drivers \union {None}]
  /\ owner \in [Bookings -> Customers \union {None}]
  /\ tokens \in Seq(Token)
  /\ codes \in Seq(Code)
  /\ qr \in [Bookings -> [Purpose -> [code: 0..Len(codes), used: BOOLEAN]]]
  /\ moves \subseteq Move
  /\ clock \in 0..MaxTime

Init ==
  /\ status = [b \in Bookings |-> "NONE"]
  /\ driver = [b \in Bookings |-> None]
  /\ owner = [b \in Bookings |-> None]
  /\ tokens = <<>>
  /\ codes = <<>>
  /\ qr = [b \in Bookings |-> [p \in Purpose |-> [code |-> NoCode, used |-> FALSE]]]
  /\ moves = {}
  /\ clock = 0

-----------------------------------------------------------------------------
(* Tokens and codes.                                                       *)

InsertGuestToken(b, ttl) ==
  /\ Len(tokens) < MaxTokens
  /\ tokens' = Append(tokens, [booking |-> b, expires |-> clock + ttl])

(* findActiveGuestTokenForBooking and assertCustomerOrGuestAccess.         *)
TokenOpens(i, b) ==
  i \in DOMAIN tokens /\ tokens[i].booking = b /\ tokens[i].expires > clock

HasAccess(who, i, b) ==
  (owner[b] # None /\ who = owner[b]) \/ TokenOpens(i, b)

(* setBoardingQr and setDropoffQr: a new hash, and used_at cleared.        *)
SetQr(b, purpose, expires, forced) ==
  /\ Len(codes) < MaxCodes
  /\ codes' = Append(codes, [booking |-> b, purpose |-> purpose, made |-> clock,
                             expires |-> expires, forced |-> forced])
  /\ qr' = [qr EXCEPT ![b][purpose] = [code |-> Len(codes) + 1, used |-> FALSE]]

Unexpired(code) == code # NoCode /\ codes[code].expires > clock

Live(b) == status[b] \in Status \ {"NONE"}

-----------------------------------------------------------------------------
(* Creating, looking up and claiming.                                      *)

(* createBooking: the boarding code outlives the pickup, one tick ahead,   *)
(* by QrTTL, and a guest gets a token.                                     *)
Create(b, who) ==
  /\ status[b] = "NONE"
  /\ status' = [status EXCEPT ![b] = "OPEN"]
  /\ owner' = [owner EXCEPT ![b] = who]
  /\ SetQr(b, "BOARDING", clock + 1 + QrTTL, FALSE)
  /\ IF who = None THEN InsertGuestToken(b, CreationTTL) ELSE UNCHANGED tokens
  /\ UNCHANGED <<driver, moves, clock>>

(* The customer columns findGuestLookupBookingByNumber selects: the phone, *)
(* and not customer_name (only the search by phone adds it).               *)
SelectedColumns == {"phone"}

(* lookup: the credential is compared with the row that was selected, so a *)
(* column it leaves out matches nothing.                                   *)
Matches(credential) == credential \in SelectedColumns

Lookup(b, credential) ==
  /\ Live(b) /\ Matches(credential)
  /\ InsertGuestToken(b, LookupTTL)
  /\ UNCHANGED <<status, driver, owner, codes, qr, moves, clock>>

(* Mutant of Claim: neither the check nor the UPDATE looks at the owner.   *)
ClaimAnyway(b, who, i) ==
  /\ Live(b) /\ TokenOpens(i, b)
  /\ owner' = [owner EXCEPT ![b] = who]
  /\ UNCHANGED <<status, driver, tokens, codes, qr, moves, clock>>

(* claimBookingWithGuestToken, with claimBookingOwnership.                 *)
Claim(b, who, i) ==
  /\ Live(b) /\ owner[b] = None /\ TokenOpens(i, b)
  /\ owner' = [owner EXCEPT ![b] = who]
  /\ UNCHANGED <<status, driver, tokens, codes, qr, moves, clock>>

-----------------------------------------------------------------------------
(* The codes.                                                              *)

(* The row findByBookingNumberForUpdate returns has none of the boarding_qr*)
(* columns, so that issueBoardingQr and canReissueBoarding read no code    *)
(* and no use; the drop-off columns are there.                             *)
RowQr(b, purpose) ==
  IF purpose = "BOARDING" THEN [code |-> NoCode, used |-> FALSE] ELSE qr[b][purpose]

CanIssueBoarding(b, force) ==
  /\ status[b] \in BeforePickup /\ ~RowQr(b, "BOARDING").used
  /\ Unexpired(RowQr(b, "BOARDING").code) => force

IssueBoardingQr(b, who, i, force) ==
  /\ HasAccess(who, i, b) /\ CanIssueBoarding(b, force)
  /\ SetQr(b, "BOARDING", clock + QrTTL, force)
  /\ UNCHANGED <<status, driver, owner, tokens, moves, clock>>

IssueDropoffQr(b, who, i) ==
  /\ status[b] = "PICKED_UP" /\ HasAccess(who, i, b)
  /\ SetQr(b, "DROPOFF", clock + QrTTL, FALSE)
  /\ UNCHANGED <<status, driver, owner, tokens, moves, clock>>

(* reissueQr, where ALLOW_DEV_QR_REISSUE is on.                            *)
CanReissue(b, purpose) ==
  /\ ~RowQr(b, purpose).used
  /\ status[b] \in IF purpose = "BOARDING" THEN {"DRIVER_ASSIGNED", "DRIVER_ARRIVED"}
                   ELSE {"PICKED_UP"}

ReissueQr(b, purpose) ==
  /\ CanReissue(b, purpose)
  /\ SetQr(b, purpose, clock + QrTTL, TRUE)
  /\ UNCHANGED <<status, driver, owner, tokens, moves, clock>>

(* Mutant of VerifyTokenIdentity: any code that was made for the booking.  *)
VerifyAnyPurpose(b, purpose, code) == \E p \in Purpose : qr[b][p].code = code

(* verifyTokenIdentity: the hash in the column of this purpose.            *)
VerifyTokenIdentity(b, purpose, code) == qr[b][purpose].code = code

(* A scan by the assigned driver; a second scan of a code that has moved   *)
(* the trip answers as the first and changes nothing.                      *)
Consume(d, b, purpose, code, from, to) ==
  /\ driver[b] = d /\ code # NoCode /\ VerifyTokenIdentity(b, purpose, code)
  /\ ~qr[b][purpose].used /\ Unexpired(qr[b][purpose].code)
  /\ status[b] = from
  /\ status' = [status EXCEPT ![b] = to]
  /\ qr' = [qr EXCEPT ![b][purpose].used = TRUE]
  /\ moves' = moves \union {[code |-> code, booking |-> b, purpose |-> purpose,
                             at |-> clock, made |-> Len(codes)]}
  /\ UNCHANGED <<driver, owner, tokens, codes, clock>>

ScanBoarding(d, b, code) == Consume(d, b, "BOARDING", code, "DRIVER_ARRIVED", "PICKED_UP")
ScanDropoff(d, b, code) ==
  Consume(d, b, "DROPOFF", code, "PICKED_UP", "SETTLEMENT_PENDING")

-----------------------------------------------------------------------------
(* The rest of the booking's life, modelled in BookingLifecycle: the same  *)
(* moves made with the driver's buttons, and the assignment.               *)

Assign(b, d) ==
  /\ status[b] = "OPEN"
  /\ status' = [status EXCEPT ![b] = "DRIVER_ASSIGNED"]
  /\ driver' = [driver EXCEPT ![b] = d]
  /\ UNCHANGED <<owner, tokens, codes, qr, moves, clock>>

Release(b) ==
  /\ status[b] = "DRIVER_ASSIGNED"
  /\ status' = [status EXCEPT ![b] = "OPEN"]
  /\ driver' = [driver EXCEPT ![b] = None]
  /\ UNCHANGED <<owner, tokens, codes, qr, moves, clock>>

Press(b, to) ==
  /\ <<status[b], to>> \in
       {<<"DRIVER_ASSIGNED", "DRIVER_ARRIVED">>, <<"DRIVER_ARRIVED", "PICKED_UP">>,
        <<"PICKED_UP", "SETTLEMENT_PENDING">>}
  /\ status' = [status EXCEPT ![b] = to]
  /\ UNCHANGED <<driver, owner, tokens, codes, qr, moves, clock>>

Close(b, to) ==
  /\ <<status[b], to>> \in {<<"SETTLEMENT_PENDING", "COMPLETED">>}
       \union (BeforePickup \X {"CANCELLED"})
  /\ status' = [status EXCEPT ![b] = to]
  /\ driver' = [driver EXCEPT ![b] = None]
  /\ UNCHANGED <<owner, tokens, codes, qr, moves, clock>>

Tick ==
  /\ clock < MaxTime
  /\ clock' = clock + 1
  /\ UNCHANGED <<status, driver, owner, tokens, codes, qr, moves>>

Callers == Customers \union {None}

Next ==
  \/ \E b \in Bookings, who \in Callers : Create(b, who)
  \/ \E b \in Bookings, c \in {"phone", "name"} : Lookup(b, c)
  \/ \E b \in Bookings, who \in Customers, i \in DOMAIN tokens : Claim(b, who, i)
  \/ \E b \in Bookings, who \in Callers, i \in 0..Len(tokens), force \in BOOLEAN :
       IssueBoardingQr(b, who, i, force)
  \/ \E b \in Bookings, who \in Callers, i \in 0..Len(tokens) : IssueDropoffQr(b, who, i)
  \/ \E b \in Bookings, p \in Purpose : ReissueQr(b, p)
  \/ \E d \in Drivers, b \in Bookings, c \in DOMAIN codes :
       ScanBoarding(d, b, c) \/ ScanDropoff(d, b, c)
  \/ \E b \in Bookings, d \in Drivers : Assign(b, d)
  \/ \E b \in Bookings : Release(b)
  \/ \E b \in Bookings, s \in Status : Press(b, s) \/ Close(b, s)
  \/ Tick

Spec == Init /\ [][Next]_vars

-----------------------------------------------------------------------------
(* A code moves one booking once, the one and in the direction it was made *)
(* for, before it expires and before a later code of that booking and      *)
(* purpose replaced it, whatever the order of issues, re-issues, scans and *)
(* button presses (driverQr.service.js, setBoardingQr, setDropoffQr).      *)
CodesMoveOnce ==
  \A m \in moves :
    /\ codes[m.code].booking = m.booking /\ codes[m.code].purpose = m.purpose
    /\ codes[m.code].expires > m.at
    /\ \A later \in (m.code + 1)..m.made :
         codes[later].booking = m.booking => codes[later].purpose # m.purpose
    /\ \A n \in moves : n.code = m.code => n = m

(* A booking that belongs to an account is never moved to another, however *)
(* many people hold a guest token of it (claimBookingWithGuestToken).      *)
OwnerStays ==
  [][\A b \in Bookings : owner[b] # None => owner'[b] = owner[b]]_vars

(* Whoever gives the booking's phone or its customer's name is let in:     *)
(* guestBookingLookup.test.js, "booking number and normalized customer     *)
(* name authorize without a phone".                                        *)
NameOpens == \A b \in Bookings : Live(b) => Matches("phone") /\ Matches("name")

(* A boarding code still active is replaced only when forceReissue asks    *)
(* for it: customerBoardingQr.test.js, "rejects duplicate active issue".   *)
ActiveCodeStays ==
  \A i, j \in DOMAIN codes :
    i < j /\ codes[i].booking = codes[j].booking
          /\ codes[i].purpose = "BOARDING" /\ codes[j].purpose = "BOARDING"
          /\ codes[i].expires > codes[j].made
      => codes[j].forced
=============================================================================
