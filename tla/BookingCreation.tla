--------------------------- MODULE BookingCreation ---------------------------
(***************************************************************************)
(* A customer's POST /bookings and what it spends: an idempotency key, a   *)
(* coupon and mileage; then what the end of the booking gives back.        *)
(*                                                                         *)
(* createBooking is taken apart into the statements of its transaction     *)
(* that can wait or fail.  Several requests, retries of one another among  *)
(* them, run at once as tasks of the server; the handlers that end or      *)
(* cancel a booking credit or return mileage in a transaction of their own *)
(* after their commit.  What a transaction inserts or changes is in its    *)
(* task's draft until it commits: its locks keep the others away.          *)
(*                                                                         *)
(* A FOR UPDATE read of a row that exists locks it.  Of a row that does    *)
(* not exist it locks the gap, which other transactions may lock as well;  *)
(* an insert into the gap waits for them, and two that wait for one        *)
(* another are a deadlock, of which InnoDB rolls one back.                 *)
(*                                                                         *)
(* One customer, who owns all coupons, and guests.  Amounts of a booking   *)
(* are in half baht, since prices are decimals; mileage is in baht.        *)
(***************************************************************************)
EXTENDS Integers, Functions

CONSTANTS Tasks, NoTask,
          Keys, NoKey,       \* values of the Idempotency-Key header
          Bodies,            \* values of the request's fingerprint
          Coupons, NoCoupon,
          Discount,          \* discount_amount of a coupon, in baht
          Requests,          \* the requests that clients send
          Balances,          \* mileage the customer may have at first
          MaxBookings,       \* bound on the bookings of the day
          MaxFaults          \* bound on the crashes and failed statements

VARIABLES
  keys,       \* booking_idempotency_keys
  coupons,    \* customer_coupons
  sequence,   \* booking_number_sequences.last_sequence of the day, 0: no row
  bookings,   \* booking number -> booking
  account,    \* customer_mileage_accounts
  ledger,     \* booking number -> its mileage_transactions
  lock,       \* row -> the task whose transaction has locked it
  gap,        \* row -> the tasks that have locked the gap where it is absent
  task,       \* the server's memory: what each task is doing
  faults      \* faults so far

tables == <<keys, coupons, sequence, bookings, account, ledger>>
locks == <<lock, gap>>
vars == <<tables, locks, task, faults>>

RowIds == 1..MaxBookings
Unset == 0

(* Rows that are locked: the keys, the coupons, the day's sequence and the *)
(* customer's mileage account.                                             *)
Rows == Keys \cup Coupons \cup {"sequence", "account"}

(* A key row; "expired" is expires_at in the past.                         *)
KeyRow == [status: {"NONE", "PENDING", "COMPLETED"}, body: Bodies,
           booking: RowIds \cup {Unset}, expired: BOOLEAN]
CouponRow == [status: {"NONE", "AVAILABLE", "USED", "DELETED"},
              booking: RowIds \cup {Unset}]

(* mileage is the charge item MILEAGE and discount the charge item COUPON, *)
(* as positive numbers; total is total_amount.  "recent" is a booking      *)
(* created less than getIdempotencyTtlHours ago.                           *)
Booking == [status: {"NONE", "OPEN", "ENDED", "CANCELLED"}, key: Keys \cup {NoKey},
            body: Bodies, member: BOOLEAN, coupon: Coupons \cup {NoCoupon},
            discount: Nat, mileage: Nat, total: Nat, exhausted: BOOLEAN,
            recent: BOOLEAN]
LedgerRow == [redeem: Nat, reversal: Nat, accrue: Nat]
(* "opening" is the balance that earlier days left.                        *)
AccountRow == [exists: BOOLEAN, balance: Int, opening: Nat]

AnyBody == CHOOSE body \in Bodies : TRUE
NoRow == [status |-> "NONE", body |-> AnyBody, booking |-> Unset, expired |-> FALSE]
NoBooking == [status |-> "NONE", key |-> NoKey, body |-> AnyBody, member |-> FALSE,
              coupon |-> NoCoupon, discount |-> 0, mileage |-> 0, total |-> 0,
              exhausted |-> FALSE, recent |-> FALSE]
NoLedger == [redeem |-> 0, reversal |-> 0, accrue |-> 0]
NoRequest == [key |-> NoKey, body |-> AnyBody, fare |-> 1, coupon |-> NoCoupon,
              mileage |-> 0, member |-> FALSE]

(* A task: the request or the effect it runs, the statement it is at, the  *)
(* booking it works on (or has answered with), the charge items it has     *)
(* worked out.                                                             *)
Idle == [at |-> "idle", job |-> "none", request |-> NoRequest, number |-> Unset,
         discount |-> 0, mileage |-> 0]
At == {"idle", "begin", "insert", "quote", "number", "first", "write", "redeem",
       "finish", "answered", "account", "open", "post"}
TaskState == [at: At, job: {"none", "create", "accrue", "refund"},
              request: Requests \cup {NoRequest}, number: RowIds \cup {Unset},
              discount: Nat, mileage: Nat]

TypeOK ==
  /\ keys \in [Keys -> KeyRow]
  /\ coupons \in [Coupons -> CouponRow]
  /\ sequence \in 0..MaxBookings
  /\ bookings \in [RowIds -> Booking]
  /\ account \in AccountRow
  /\ ledger \in [RowIds -> LedgerRow]
  /\ lock \in [Rows -> Tasks \cup {NoTask}]
  /\ gap \in [Rows -> SUBSET Tasks]
  /\ task \in [Tasks -> TaskState]
  /\ faults \in 0..MaxFaults

Init ==
  /\ keys = [k \in Keys |-> NoRow]
  /\ coupons = [c \in Coupons |-> [status |-> "NONE", booking |-> Unset]]
  /\ sequence = 0
  /\ bookings = [n \in RowIds |-> NoBooking]
  /\ \/ account = [exists |-> FALSE, balance |-> 0, opening |-> 0]
     \/ \E b \in Balances :
          account = [exists |-> TRUE, balance |-> b, opening |-> b]
  /\ ledger = [n \in RowIds |-> NoLedger]
  /\ lock = [r \in Rows |-> NoTask]
  /\ gap = [r \in Rows |-> {}]
  /\ task = [t \in Tasks |-> Idle]
  /\ faults = 0

-----------------------------------------------------------------------------
(* Locks and transactions.                                                 *)

Lesser(x, y) == IF x <= y THEN x ELSE y
Stored(r) ==
  CASE r \in Keys     -> keys[r].status # "NONE"
    [] r \in Coupons  -> coupons[r].status \in {"AVAILABLE", "USED"}
    [] r = "sequence" -> sequence > 0
    [] r = "account"  -> account.exists

Free(t, r) == lock[r] \in {t, NoTask}

(* SELECT ... FOR UPDATE of row r.                                         *)
LockRead(t, r) ==
  /\ Free(t, r)
  /\ IF Stored(r)
     THEN lock' = [lock EXCEPT ![r] = t] /\ gap' = gap
     ELSE gap' = [gap EXCEPT ![r] = @ \cup {t}] /\ lock' = lock

(* INSERT of row r, after LockRead found it absent.                        *)
InsertRow(t, r) ==
  /\ lock[r] = NoTask /\ gap[r] \subseteq {t}
  /\ lock' = [lock EXCEPT ![r] = t]
  /\ gap' = gap

Release(t) ==
  /\ lock' = [r \in Rows |-> IF lock[r] = t THEN NoTask ELSE lock[r]]
  /\ gap' = [r \in Rows |-> gap[r] \ {t}]

(* The row a task inserts next, and the rows whose gap may be the same:    *)
(* random keys lie in one gap of the index as long as there are few.       *)
Inserting(t) ==
  CASE task[t].at = "insert" -> {task[t].request.key}
    [] task[t].at = "first"  -> {"sequence"}
    [] task[t].at = "open"   -> {"account"}
    [] OTHER                 -> {}
SameGap(t) == IF task[t].at = "insert" THEN Keys ELSE Inserting(t)

(* releasePending and ROLLBACK: a PENDING row is only ever seen by the     *)
(* transaction that has inserted it, so that the DELETE finds no other.    *)
RolledBack(S) ==
  [k \in Keys |-> IF lock[k] \in S /\ keys[k].status = "PENDING"
                  THEN NoRow ELSE keys[k]]
Rollback(t) ==
  /\ keys' = RolledBack({t})
  /\ Release(t)
  /\ task' = [task EXCEPT ![t] = Idle]
  /\ UNCHANGED <<coupons, sequence, bookings, account, ledger>>

Go(t, at) == task' = [task EXCEPT ![t].at = at]

-----------------------------------------------------------------------------
(* createBooking.                                                          *)

Start(t, r) ==
  /\ task[t].at = "idle"
  /\ task' = [task EXCEPT ![t] =
       [Idle EXCEPT !.at = IF r.key = NoKey THEN "quote" ELSE "begin",
                    !.job = "create", !.request = r]]
  /\ UNCHANGED <<tables, locks, faults>>

(* begin: an expired row is not found, yet still in the way of the INSERT. *)
Usable(t) == LET row == keys[task[t].request.key]
             IN  ~row.expired /\ row.body = task[t].request.body

BeginNew(t) ==
  /\ task[t].at = "begin" /\ ~Stored(task[t].request.key)
  /\ LockRead(t, task[t].request.key)
  /\ Go(t, "insert")
  /\ UNCHANGED <<tables, faults>>

(* insertPending.                                                          *)
InsertPending(t) ==
  LET r == task[t].request
  IN  /\ task[t].at = "insert"
      /\ InsertRow(t, r.key)
      /\ keys' = [keys EXCEPT ![r.key] = [NoRow EXCEPT !.status = "PENDING",
                                                      !.body = r.body]]
      /\ Go(t, "quote")
      /\ UNCHANGED <<coupons, sequence, bookings, account, ledger, faults>>

(* resolveExistingRecord: the stored booking is the answer.                *)
Replay(t) ==
  LET k == task[t].request.key
  IN  /\ task[t].at = "begin" /\ Stored(k) /\ Free(t, k) /\ Usable(t)
      /\ keys[k].status = "COMPLETED"
      /\ task' = [task EXCEPT ![t].at = "answered", ![t].number = keys[k].booking]
      /\ UNCHANGED <<tables, locks, faults>>

RefuseKey(t) ==
  LET k == task[t].request.key
  IN  /\ task[t].at = "begin" /\ Stored(k) /\ Free(t, k)
      /\ ~Usable(t) \/ keys[k].status # "COMPLETED"
      /\ Rollback(t)
      /\ UNCHANGED faults

(* The price, the coupon as the transaction sees it, and the balance,      *)
(* which is read through the pool.                                         *)
CouponApplies(r) ==
  r.coupon # NoCoupon => r.member /\ coupons[r.coupon].status = "AVAILABLE"
MayPay(r) == r.mileage # 0 => r.member

CouponItem(r) == IF r.coupon = NoCoupon THEN 0 ELSE Lesser(2 * Discount, r.fare)

MileageItem(r) ==
  IF r.mileage = 0 THEN 0
  ELSE Lesser(2 * r.mileage, Lesser(r.fare - CouponItem(r), 2 * account.balance))

Quote(t) ==
  LET r == task[t].request
  IN  /\ task[t].at = "quote" /\ CouponApplies(r) /\ MayPay(r)
      /\ task' = [task EXCEPT ![t].at = "number", ![t].discount = CouponItem(r),
                             ![t].mileage = MileageItem(r)]
      /\ UNCHANGED <<tables, locks, faults>>

RefuseQuote(t) ==
  /\ task[t].at = "quote"
  /\ ~CouponApplies(task[t].request) \/ ~MayPay(task[t].request)
  /\ Rollback(t)
  /\ UNCHANGED faults

(* generateNext: the numbers of a day come from one row, which stays       *)
(* locked until the booking is committed.                                  *)
TakeNumber(t) ==
  /\ task[t].at = "number" /\ sequence < MaxBookings
  /\ LockRead(t, "sequence")
  /\ IF sequence > 0
     THEN task' = [task EXCEPT ![t].at = "write", ![t].number = sequence + 1]
     ELSE Go(t, "first")
  /\ UNCHANGED <<tables, faults>>

FirstNumber(t) ==
  /\ task[t].at = "first"
  /\ InsertRow(t, "sequence")
  /\ task' = [task EXCEPT ![t].at = "write", ![t].number = 1]
  /\ UNCHANGED <<tables, faults>>

(* insertBooking and its parts, then markCouponUsed.                       *)
Redeemed(t) == task[t].mileage > 0
CouponFree(t) ==
  task[t].request.coupon # NoCoupon =>
    coupons[task[t].request.coupon].status = "AVAILABLE"

(* Mutant of WriteBooking: markUsed does not look at the coupon's status.  *)
WriteBookingBlindly(t) ==
  LET c == task[t].request.coupon
  IN  /\ task[t].at = "write"
      /\ IF c = NoCoupon THEN lock' = lock
         ELSE Free(t, c) /\ lock' = [lock EXCEPT ![c] = t]
      /\ Go(t, IF Redeemed(t) THEN "redeem" ELSE "finish")
      /\ UNCHANGED <<tables, gap, faults>>

(* Mutant of WriteBooking: the coupon is marked in a transaction of its    *)
(* own, before the booking is committed.                                   *)
WriteBookingInParts(t) ==
  LET c == task[t].request.coupon
  IN  /\ task[t].at = "write" /\ CouponFree(t)
      /\ coupons' = IF c = NoCoupon THEN coupons
                    ELSE [coupons EXCEPT ![c] = [status |-> "USED",
                                                 booking |-> task[t].number]]
      /\ Go(t, IF Redeemed(t) THEN "redeem" ELSE "finish")
      /\ UNCHANGED <<keys, sequence, bookings, account, ledger, locks, faults>>

WriteBooking(t) ==
  LET c == task[t].request.coupon
  IN  /\ task[t].at = "write" /\ CouponFree(t)
      /\ IF c = NoCoupon THEN lock' = lock
         ELSE Free(t, c) /\ lock' = [lock EXCEPT ![c] = t]
      /\ Go(t, IF Redeemed(t) THEN "redeem" ELSE "finish")
      /\ UNCHANGED <<tables, gap, faults>>

RefuseCoupon(t) ==
  /\ task[t].at = "write" /\ ~CouponFree(t)
  /\ Rollback(t)
  /\ UNCHANGED faults

(* redeemForBooking, in the transaction of the booking: it takes a whole   *)
(* number of baht or nothing, and no more than the account holds now.      *)
Baht(t) == IF task[t].mileage % 2 = 0 THEN task[t].mileage \div 2 ELSE 0
Affordable(t) == account.balance >= Baht(t)

Redeem(t) ==
  /\ task[t].at = "redeem" /\ Affordable(t)
  /\ IF Baht(t) = 0 THEN UNCHANGED locks ELSE LockRead(t, "account")
  /\ Go(t, "finish")
  /\ UNCHANGED <<tables, faults>>

RefuseRedemption(t) ==
  /\ task[t].at = "redeem" /\ ~Affordable(t) /\ Free(t, "account")
  /\ Rollback(t)
  /\ UNCHANGED faults

(* complete, and the commit: the draft becomes visible.                    *)
Drafted(t) ==
  LET r == task[t].request
  IN  [status |-> "OPEN", key |-> r.key, body |-> r.body, member |-> r.member,
       coupon |-> r.coupon, discount |-> task[t].discount,
       mileage |-> task[t].mileage,
       total |-> r.fare - task[t].discount - task[t].mileage,
       exhausted |-> FALSE, recent |-> TRUE]

CompletedKey(t) ==
  IF task[t].request.key = NoKey THEN keys
  ELSE [keys EXCEPT ![task[t].request.key].status = "COMPLETED",
                    ![task[t].request.key].booking = task[t].number]

UsedCoupon(t) ==
  IF task[t].request.coupon = NoCoupon THEN coupons
  ELSE [coupons EXCEPT ![task[t].request.coupon] =
          [status |-> "USED", booking |-> task[t].number]]

Finish(t) ==
  LET n == task[t].number
  IN  /\ task[t].at = "finish"
      /\ sequence' = n
      /\ bookings' = [bookings EXCEPT ![n] = Drafted(t)]
      /\ keys' = CompletedKey(t)
      /\ coupons' = UsedCoupon(t)
      /\ account' = [account EXCEPT !.balance = @ - Baht(t)]
      /\ ledger' = [ledger EXCEPT ![n].redeem = Baht(t)]
      /\ Release(t)
      /\ Go(t, "answered")
      /\ UNCHANGED faults

(* The answer, after the dispatch that follows the commit.                 *)
Answer(t) ==
  /\ task[t].at = "answered"
  /\ task' = [task EXCEPT ![t] = Idle]
  /\ UNCHANGED <<tables, locks, faults>>

-----------------------------------------------------------------------------
(* The end of a booking, and its mileage: handlePostCommitMileageEffects   *)
(* runs in the handler that has just committed the new status.             *)

Effect(t, n, job) ==
  task' = [task EXCEPT ![t] = [Idle EXCEPT !.at = "account", !.job = job, !.number = n]]
CloseAs(n, status) ==
  bookings' = [bookings EXCEPT ![n].status = status]

(* The trip ends (SETTLEMENT_PENDING).                                     *)
EndTrip(t, n) ==
  /\ task[t].at = "idle" /\ bookings[n].status = "OPEN"
  /\ CloseAs(n, "ENDED")
  /\ Effect(t, n, "accrue")
  /\ UNCHANGED <<keys, coupons, sequence, account, ledger, locks, faults>>

(* Mutant of Cancel: the handler does not return the mileage.              *)
CancelOnly(t, n) ==
  /\ task[t].at = "idle" /\ bookings[n].status = "OPEN"
  /\ CloseAs(n, "CANCELLED")
  /\ task' = task
  /\ UNCHANGED <<keys, coupons, sequence, account, ledger, locks, faults>>

(* Cancelled by the customer or by an administrator.                       *)
Cancel(t, n) ==
  /\ task[t].at = "idle" /\ bookings[n].status = "OPEN"
  /\ CloseAs(n, "CANCELLED")
  /\ Effect(t, n, "refund")
  /\ UNCHANGED <<keys, coupons, sequence, account, ledger, locks, faults>>

(* The negotiation of an urgent booking has used up its attempts: the      *)
(* booking is cancelled without the status service, hence without effects. *)
Exhaust(n) ==
  /\ bookings[n].status = "OPEN"
  /\ bookings' = [bookings EXCEPT ![n].status = "CANCELLED", ![n].exhausted = TRUE]
  /\ UNCHANGED <<keys, coupons, sequence, account, ledger, locks, task, faults>>

(* computeAccrualAmount, 5% in whole baht.                                 *)
Accrual(n) == bookings[n].total \div 40

(* What the task's effect adds to the account; 0: it is skipped.           *)
Amount(t) ==
  LET n == task[t].number
  IN  IF task[t].job = "accrue"
      THEN IF bookings[n].member /\ ledger[n].accrue = 0 THEN Accrual(n) ELSE 0
      ELSE IF ledger[n].reversal = 0 THEN ledger[n].redeem ELSE 0

Skip(t) ==
  /\ task[t].at = "account" /\ Amount(t) = 0
  /\ task' = [task EXCEPT ![t] = Idle]
  /\ UNCHANGED <<tables, locks, faults>>

(* getAccountForUpdate.                                                    *)
LockAccount(t) ==
  /\ task[t].at = "account" /\ Amount(t) > 0
  /\ LockRead(t, "account")
  /\ Go(t, IF Stored("account") THEN "post" ELSE "open")
  /\ UNCHANGED <<tables, faults>>

(* createAccount.                                                          *)
OpenAccount(t) ==
  /\ task[t].at = "open"
  /\ InsertRow(t, "account")
  /\ Go(t, "post")
  /\ UNCHANGED <<tables, faults>>

(* insertTransaction, updateAccountBalance, commit: accrueForBooking ...   *)
Deposit(amount) ==
  account' = [account EXCEPT !.exists = TRUE, !.balance = @ + amount]

Credit(t) ==
  LET n == task[t].number
  IN  /\ task[t].at = "post" /\ task[t].job = "accrue"
      /\ Deposit(Amount(t))
      /\ ledger' = [ledger EXCEPT ![n].accrue = Amount(t)]
      /\ Release(t)
      /\ task' = [task EXCEPT ![t] = Idle]
      /\ UNCHANGED <<keys, coupons, sequence, bookings, faults>>

(* ... and reverseRedemptionForBooking.                                    *)
Return(t) ==
  LET n == task[t].number
  IN  /\ task[t].at = "post" /\ task[t].job = "refund"
      /\ Deposit(Amount(t))
      /\ ledger' = [ledger EXCEPT ![n].reversal = Amount(t)]
      /\ Release(t)
      /\ task' = [task EXCEPT ![t] = Idle]
      /\ UNCHANGED <<keys, coupons, sequence, bookings, faults>>

-----------------------------------------------------------------------------
(* The administrator's coupons, the clock, the cleanup worker, failures.   *)

IssueCoupon(c) ==
  /\ coupons[c].status = "NONE"
  /\ coupons' = [coupons EXCEPT ![c].status = "AVAILABLE"]
  /\ UNCHANGED <<keys, sequence, bookings, account, ledger, locks, task, faults>>

(* cancelCoupon: deleteAvailable waits for the row and looks at it again.  *)
CancelCoupon(c) ==
  /\ coupons[c].status = "AVAILABLE" /\ lock[c] = NoTask
  /\ coupons' = [coupons EXCEPT ![c].status = "DELETED"]
  /\ UNCHANGED <<keys, sequence, bookings, account, ledger, locks, task, faults>>

Expire(k) ==
  /\ keys[k].status = "COMPLETED" /\ ~keys[k].expired
  /\ keys' = [keys EXCEPT ![k].expired = TRUE]
  /\ bookings' = [bookings EXCEPT ![keys[k].booking].recent = FALSE]
  /\ UNCHANGED <<coupons, sequence, account, ledger, locks, task, faults>>

(* Mutant of Cleanup: every completed row is deleted.                      *)
CleanupCompleted(k) ==
  /\ keys[k].status = "COMPLETED" /\ lock[k] = NoTask
  /\ keys' = [keys EXCEPT ![k] = NoRow]
  /\ UNCHANGED <<coupons, sequence, bookings, account, ledger, locks, task, faults>>

(* deleteExpiredBatch, one of its rows.                                    *)
Cleanup(k) ==
  /\ keys[k].expired /\ lock[k] = NoTask
  /\ keys' = [keys EXCEPT ![k] = NoRow]
  /\ UNCHANGED <<coupons, sequence, bookings, account, ledger, locks, task, faults>>

(* A deadlock: InnoDB rolls one of the two back.                           *)
Deadlock(t) ==
  /\ Inserting(t) # {} /\ faults < MaxFaults
  /\ \E u \in Tasks \ {t} : Inserting(u) # {} /\ Inserting(u) \subseteq SameGap(t)
  /\ Rollback(t)
  /\ faults' = faults + 1

(* A statement fails or times out, or a later validation refuses.          *)
Fail(t) ==
  /\ task[t].at \notin {"idle", "answered"} /\ faults < MaxFaults
  /\ Rollback(t)
  /\ faults' = faults + 1

(* The server crashes and is started again.                                *)
Crash ==
  /\ faults < MaxFaults
  /\ keys' = RolledBack(Tasks)
  /\ lock' = [r \in Rows |-> NoTask] /\ gap' = [r \in Rows |-> {}]
  /\ task' = [t \in Tasks |-> Idle]
  /\ faults' = faults + 1
  /\ UNCHANGED <<coupons, sequence, bookings, account, ledger>>

Step(t) ==
  \/ BeginNew(t) \/ InsertPending(t) \/ Replay(t) \/ RefuseKey(t)
  \/ Quote(t) \/ RefuseQuote(t) \/ TakeNumber(t) \/ FirstNumber(t)
  \/ WriteBooking(t) \/ RefuseCoupon(t) \/ Redeem(t) \/ RefuseRedemption(t)
  \/ Finish(t) \/ Answer(t)
  \/ Skip(t) \/ LockAccount(t) \/ OpenAccount(t) \/ Credit(t) \/ Return(t)

Next ==
  \/ \E t \in Tasks, r \in Requests : Start(t, r)
  \/ \E t \in Tasks : Step(t) \/ Deadlock(t) \/ Fail(t)
  \/ \E t \in Tasks, n \in RowIds : EndTrip(t, n) \/ Cancel(t, n)
  \/ \E n \in RowIds : Exhaust(n)
  \/ \E c \in Coupons : IssueCoupon(c) \/ CancelCoupon(c)
  \/ \E k \in Keys : Expire(k) \/ Cleanup(k)
  \/ Crash

Spec == Init /\ [][Next]_vars

-----------------------------------------------------------------------------
(* Properties.                                                             *)

(* A key makes one booking in the 72 hours it is kept, however often the   *)
(* request is retried, also across failures and crashes; and no key is     *)
(* left PENDING, which would block its retries.                            *)
OneBookingPerKey ==
  /\ \A m, n \in RowIds :
       bookings[m].recent /\ bookings[n].recent /\ bookings[m].key = bookings[n].key
         /\ bookings[m].key # NoKey => m = n
  /\ \A k \in Keys : keys[k].status = "PENDING" => lock[k] # NoTask

(* What a client is answered is a booking made from the same request.      *)
AnswerIsForRequest ==
  \A t \in Tasks :
    task[t].at = "answered" /\ task[t].request.key # NoKey =>
      LET b == bookings[task[t].number]
      IN  b.key = task[t].request.key /\ b.body = task[t].request.body

(* A coupon lowers the price of one booking, the one it is marked with,    *)
(* and one that an administrator took back lowers none.                    *)
CouponSpentOnce ==
  \A n \in RowIds, c \in Coupons :
    bookings[n].coupon = c /\ bookings[n].status # "NONE" =>
      coupons[c] = [status |-> "USED", booking |-> n]

(* The account holds what its ledger adds up to, never less than nothing,  *)
(* and the discount of a booking is the mileage it took from the account.  *)
Movement == [n \in RowIds |-> ledger[n].accrue + ledger[n].reversal - ledger[n].redeem]
AccountMatchesLedger ==
  /\ account.balance >= 0
  /\ account.balance = account.opening + SumFunction(Movement)
  /\ \A n \in RowIds : bookings[n].mileage = 2 * ledger[n].redeem

(* Without a fault, a booking that ended or was cancelled by a handler of  *)
(* the status service has its mileage credited or returned, or the handler *)
(* is at it.                                                               *)
Settled(n) ==
  CASE bookings[n].status = "ENDED" /\ bookings[n].member ->
         ledger[n].accrue = Accrual(n)
    [] bookings[n].status = "CANCELLED" /\ ~bookings[n].exhausted ->
         ledger[n].reversal = ledger[n].redeem
    [] OTHER -> TRUE
Pending(n) == \E t \in Tasks : task[t].job \in {"accrue", "refund"} /\ task[t].number = n
MileageFollowsTrip ==
  faults = 0 => \A n \in RowIds : Settled(n) \/ Pending(n)

(* As the tests of the mileage service have it: every cancelled booking    *)
(* gets its mileage back.                                                  *)
CancelledIsRefunded ==
  faults = 0 =>
    \A n \in RowIds :
      bookings[n].status = "CANCELLED" =>
        ledger[n].reversal = ledger[n].redeem \/ Pending(n)
=============================================================================
