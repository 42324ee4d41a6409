---------------------------- MODULE CustomerMail ----------------------------
(***************************************************************************)
(* The e-mails one booking sends to its customer: from the outbox event    *)
(* that a handler commits with the booking, over the notification and its  *)
(* EMAIL delivery row, to the mail server.  The outbox dispatch after the  *)
(* commit, the two recoveries at startup, an administrator's booking       *)
(* confirmation or receipt, and an approved retry all run as tasks of one  *)
(* server process, which may crash between any two of their steps and is   *)
(* started again by its supervisor.                                        *)
(*                                                                         *)
(* The other notifications of a booking have no customer e-mail (their row *)
(* is inserted SKIPPED), and IN_APP and FCM share nothing with EMAIL.      *)
(* SMTP is configured.                                                     *)
(***************************************************************************)
EXTENDS Integers, FiniteSets

CONSTANTS Tasks,         \* concurrent executions inside the server
          MaxRetries,    \* outbox_events.max_retries
          BatchSize,     \* rows that the startup recovery claims
          MaxSends,      \* bound on the SMTP attempts of a delivery
          MaxFaults      \* bound on the crashes and failed queries

(* A batch holds the two events that one booking may publish, its creation *)
(* and its end.                                                            *)
ASSUME MailAssumption ==
  /\ MaxRetries \in Nat \ {0} /\ BatchSize \in Nat \ {0, 1}
  /\ MaxSends \in Nat \ {0} /\ MaxFaults \in Nat

(* "ended" is TRIP_ENDED, or TRIP_COMPLETED of a trip completed directly.  *)
EventMail == {"created", "ended", "cancelled"}
AdminMail == {"confirmation", "receipt"}
Mail == EventMail \cup AdminMail

(* customerEmailSlot: a confirmation is BOOKING_CREATED, a receipt is      *)
(* TRIP_ENDED.                                                             *)
Opening == {"created", "confirmation"}
Slot(m) == IF m \in Opening THEN "RECEIPT" ELSE "TERMINAL"

VARIABLES
  (* the booking *)
  trip,       \* "ACTIVE", "ENDED" or "CANCELLED"
  started,    \* the status log shows the trip under way
  address,    \* a valid customer_email is known
  approved,   \* AdminMail that an administrator approved (in the metadata)
  (* the tables of the pipeline *)
  outbox,     \* EventMail -> row of outbox_events
  delivery,   \* Mail -> row of notification_deliveries
  attempt,    \* Mail -> latest row of notification_email_attempts
  confirmed,  \* Mail with a review ACCEPTED_CONFIRMED
  (* the server's memory *)
  server,     \* what the process remembers, or has to do
  task,       \* Tasks -> what it is doing
  (* history: copies of a mail the mail server took *)
  accepted

bookingVars == <<trip, started, address, approved>>
tables == <<outbox, delivery, attempt, confirmed>>
vars == <<bookingVars, tables, server, task, accepted>>

OutboxRow == [status: {"NONE", "PENDING", "PROCESSING", "COMPLETED", "FAILED"},
              retries: Nat]
(* last_error: the classes that the code tells apart; the first three are  *)
(* the PERMANENT_EMAIL_ ones.                                              *)
MailErrors == {"RESERVED", "UNCERTAIN", "NOT_ACCEPTED"}
PermanentErrors == MailErrors \cup {"INVALID_RECIPIENT"}
DeliveryRow == [status: {"NONE", "PENDING", "DELIVERED", "FAILED", "SKIPPED"},
                attempts: 0..3,
                error: PermanentErrors \cup {"none", "POLICY"}]
AttemptRow == [n: 0..MaxSends,
               outcome: {"none", "SENDING", "ACCEPTED", "NOT_ACCEPTED", "UNKNOWN"},
               envelope: BOOLEAN]
Task == [pc: {"free", "persist", "load", "claim", "reserved", "record",
              "complete"},
         mail: Mail,
         attempt: 0..MaxSends,      \* the attempt row it holds or was shown
         recovery: BOOLEAN,         \* an approved retry
         event: BOOLEAN,            \* it holds the outbox row of mail
         result: {"none", "SKIP", "INVALID", "ACCEPTED", "NOT_ACCEPTED", "UNKNOWN"},
         todo: SUBSET EventMail,    \* outbox rows claimed in a batch
         redo: SUBSET Mail]         \* deliveries listed for recovery
Server == [up: BOOLEAN, dispatch: SUBSET EventMail, outboxDue: BOOLEAN,
           deliveriesDue: BOOLEAN, faults: 0..MaxFaults]

TypeOK ==
  /\ trip \in {"ACTIVE", "ENDED", "CANCELLED"}
  /\ started \in BOOLEAN
  /\ address \in BOOLEAN
  /\ approved \subseteq AdminMail
  /\ outbox \in [EventMail -> OutboxRow]
  /\ delivery \in [Mail -> DeliveryRow]
  /\ attempt \in [Mail -> AttemptRow]
  /\ confirmed \subseteq Mail
  /\ server \in Server
  /\ task \in [Tasks -> Task]
  /\ accepted \in [Mail -> 0..MaxSends]

Free == [pc |-> "free", mail |-> "created", attempt |-> 0, recovery |-> FALSE,
         event |-> FALSE, result |-> "none", todo |-> {}, redo |-> {}]
NewRow == [status |-> "PENDING", attempts |-> 0, error |-> "none"]

(* createBooking has committed; its handler has yet to dispatch the event. *)
Init ==
  /\ trip = "ACTIVE" /\ started = FALSE /\ address \in BOOLEAN /\ approved = {}
  /\ outbox = [e \in EventMail |->
       [status |-> IF e = "created" THEN "PENDING" ELSE "NONE", retries |-> 0]]
  /\ delivery = [m \in Mail |-> [NewRow EXCEPT !.status = "NONE"]]
  /\ attempt = [m \in Mail |-> [n |-> 0, outcome |-> "none", envelope |-> FALSE]]
  /\ confirmed = {}
  /\ server = [up |-> TRUE, dispatch |-> {"created"}, outboxDue |-> FALSE,
               deliveriesDue |-> FALSE, faults |-> 0]
  /\ task = [w \in Tasks |-> Free]
  /\ accepted = [m \in Mail |-> 0]

-----------------------------------------------------------------------------
(* The booking.                                                            *)

(* insertNotificationEvent in the transaction that changes the status; its *)
(* handler dispatches the row after the commit.                            *)
Publish(e) ==
  /\ outbox' = [outbox EXCEPT ![e].status = "PENDING"]
  /\ server' = [server EXCEPT !.dispatch = @ \cup {e}]

(* SETTLEMENT_PENDING, or COMPLETED at once by an administrator.           *)
EndTrip ==
  /\ server.up /\ trip = "ACTIVE"
  /\ trip' = "ENDED" /\ started' = TRUE
  /\ Publish("ended")
  /\ UNCHANGED <<address, approved, delivery, attempt, confirmed, task, accepted>>

(* An administrator may cancel a trip under way.  Only this mail asks      *)
(* whether the trip had started.                                           *)
Cancel ==
  /\ server.up /\ trip = "ACTIVE"
  /\ trip' = "CANCELLED" /\ started' \in BOOLEAN
  /\ Publish("cancelled")
  /\ UNCHANGED <<address, approved, delivery, attempt, confirmed, task, accepted>>

(* customerBookingEdit: the customer gives the address that was missing.   *)
EditAddress ==
  /\ server.up /\ trip = "ACTIVE" /\ ~address
  /\ address' = TRUE
  /\ UNCHANGED <<trip, started, approved, tables, server, task, accepted>>

-----------------------------------------------------------------------------
(* What the pipeline asks of its tables.                                   *)

Exists(m) == delivery[m].status # "NONE"
SmtpTried(m) == attempt[m].n > 0

(* emailPolicyError: LATE_CONFIRMATION_DISABLED is the only one that these *)
(* mails can meet.                                                         *)
PolicyError(m) == m \in Opening /\ "receipt" \in approved

(* findRecoverableNotificationIds *)
Recoverable(m) ==
  /\ delivery[m].status \in {"PENDING", "FAILED"}
  /\ delivery[m].attempts < 3
  /\ delivery[m].error \notin PermanentErrors

(* claimCustomerEmail: EMAIL_POLICY_SUPERSEDED_BY_ADMIN_*                  *)
Superseded(m) ==
  \/ m = "created" /\ "confirmation" \in approved
  \/ m # "receipt" /\ "receipt" \in approved

(* claimCustomerEmail: the deliveries that may have reached the customer.  *)
MayHaveReached(m) ==
  /\ Exists(m)
  /\ \/ delivery[m].status = "DELIVERED"
     \/ delivery[m].error \in MailErrors
     \/ m \in confirmed
     \/ /\ delivery[m].attempts > 0
        /\ delivery[m].status # "SKIPPED"
        /\ delivery[m].error # "INVALID_RECIPIENT"

(* A retry does not count against itself.                                  *)
SlotUsed(m, recovery) ==
  LET history == {h \in Mail : MayHaveReached(h) /\ (recovery => h # m)}
  IN  \/ Cardinality(history) >= 2
      \/ \E h \in history : Slot(h) = Slot(m)
      \/ m = "cancelled" /\ started

(* Mutant of CanRecover: an unknown outcome counts as a refusal.           *)
CanRecoverUnknown(m) ==
  /\ attempt[m].outcome \in {"NOT_ACCEPTED", "UNKNOWN"}
  /\ attempt[m].envelope
  /\ m \notin confirmed

(* canRecoverAttempt on the latest attempt, its envelope and the reviews   *)
CanRecover(m) ==
  /\ attempt[m].outcome = "NOT_ACCEPTED"
  /\ attempt[m].envelope
  /\ m \notin confirmed

(* adminReceiptEmail: safeNoSmtp *)
SafeNoSmtp(m) ==
  ~SmtpTried(m) /\ (delivery[m].attempts = 0 \/ delivery[m].error \in {"INVALID_RECIPIENT", "POLICY"})

Reached(m) == delivery[m].status = "DELIVERED" \/ m \in confirmed

(* AdminBookingEmailService.eligibility *)
ConfirmationEligible ==
  /\ trip = "ACTIVE"
  /\ approved = {}
  /\ \A m \in Opening : Exists(m) =>
       /\ ~Reached(m) /\ ~SmtpTried(m)
       /\ delivery[m].attempts > 0 => delivery[m].error = "INVALID_RECIPIENT"
  /\ Cardinality({m \in Mail : Reached(m) \/ SmtpTried(m)}) < 2

(* AdminReceiptEmailService.eligibility *)
ReceiptEligible ==
  /\ trip = "ENDED"
  /\ "receipt" \notin approved
  /\ \A m \in Mail : Exists(m) =>
       IF m \in Opening
       THEN \/ delivery[m].status = "DELIVERED"
            \/ attempt[m].outcome \in {"ACCEPTED", "NOT_ACCEPTED"}
            \/ SafeNoSmtp(m)
       ELSE ~Reached(m) /\ SafeNoSmtp(m)
  /\ Cardinality({m \in Mail : \/ Reached(m) \/ SmtpTried(m)
                               \/ delivery[m].error \in MailErrors}) < 2

-----------------------------------------------------------------------------
(* Tasks.                                                                  *)

Idle(w) == task[w].pc = "free" /\ task[w].todo = {} /\ task[w].redo = {}
At(w, pc) == server.up /\ task[w].pc = pc
Fault ==
  /\ server.faults < MaxFaults
  /\ server' = [server EXCEPT !.faults = @ + 1]

(* OutboxProcessor.dispatchOutboxIds with claimById, after the commit; a   *)
(* COMPLETED row is left alone.                                            *)
Dispatch(w, e) ==
  /\ server.up /\ Idle(w)
  /\ e \in server.dispatch
  /\ server' = [server EXCEPT !.dispatch = @ \ {e}]
  /\ IF outbox[e].status = "COMPLETED"
     THEN UNCHANGED <<outbox, task>>
     ELSE /\ outbox' = [outbox EXCEPT ![e].status = "PROCESSING"]
          /\ task' = [task EXCEPT ![w] = [Free EXCEPT !.pc = "persist", !.mail = e, !.event = TRUE]]
  /\ UNCHANGED <<bookingVars, delivery, attempt, confirmed, accepted>>

(* claimPendingBatch *)
Claimable(e) == outbox[e].status \in {"PENDING", "FAILED"} /\ outbox[e].retries < MaxRetries

(* OutboxProcessor.recoverOnStartup, processPendingBatch: one batch.       *)
RecoverOutbox(w) ==
  /\ server.up /\ Idle(w)
  /\ server.outboxDue
  /\ \E batch \in SUBSET {e \in EventMail : Claimable(e)} :
       /\ \/ Cardinality(batch) = BatchSize
          \/ batch = {e \in EventMail : Claimable(e)} /\ Cardinality(batch) < BatchSize
       /\ outbox' = [e \in EventMail |->
            IF e \in batch THEN [outbox[e] EXCEPT !.status = "PROCESSING"] ELSE outbox[e]]
       /\ task' = [task EXCEPT ![w].todo = batch]
  /\ server' = [server EXCEPT !.outboxDue = FALSE]
  /\ UNCHANGED <<bookingVars, delivery, attempt, confirmed, accepted>>

NextRow(w) ==
  /\ At(w, "free")
  /\ \E e \in task[w].todo :
       task' = [task EXCEPT ![w] = [task[w] EXCEPT !.pc = "persist", !.mail = e,
                                                   !.event = TRUE, !.todo = @ \ {e}]]
  /\ UNCHANGED <<bookingVars, tables, server, accepted>>

(* NotificationService.recoverPendingDeliveries *)
RecoverDeliveries(w) ==
  /\ server.up /\ Idle(w)
  /\ server.deliveriesDue
  /\ task' = [task EXCEPT ![w].redo = {m \in Mail : Recoverable(m)}]
  /\ server' = [server EXCEPT !.deliveriesDue = FALSE]
  /\ UNCHANGED <<bookingVars, tables, accepted>>

NextDelivery(w) ==
  /\ At(w, "free")
  /\ \E m \in task[w].redo :
       task' = [task EXCEPT ![w] =
                  [task[w] EXCEPT !.pc = "load", !.mail = m, !.redo = @ \ {m}]]
  /\ UNCHANGED <<bookingVars, tables, server, accepted>>

(* createNotificationIdempotent: the notification and its deliveries in    *)
(* one transaction; a notification that exists already is not processed.   *)
Persist(w) ==
  /\ At(w, "persist")
  /\ LET m == task[w].mail IN
       IF Exists(m)
       THEN /\ task' = [task EXCEPT ![w].pc = "complete"]
            /\ UNCHANGED delivery
       ELSE /\ delivery' = [delivery EXCEPT ![m] = NewRow]
            /\ task' = [task EXCEPT ![w].pc = "load"]
  /\ UNCHANGED <<bookingVars, outbox, attempt, confirmed, server, accepted>>

(* Back to whoever called processDeliveries.                               *)
Return(t) ==
  IF t.event THEN [t EXCEPT !.pc = "complete", !.attempt = 0, !.result = "none"]
  ELSE [Free EXCEPT !.todo = t.todo, !.redo = t.redo]

(* processDeliveries up to the claim.  An approved mail carries its own    *)
(* address.                                                                *)
Load(w) ==
  /\ At(w, "load")
  /\ LET m == task[w].mail
         row == delivery[m]
     IN  task' = [task EXCEPT ![w] =
           IF \/ row.status \in {"DELIVERED", "SKIPPED"}
              \/ row.error \in PermanentErrors \/ row.attempts >= 3
           THEN Return(@)
           ELSE IF PolicyError(m) THEN [@ EXCEPT !.pc = "record", !.result = "SKIP"]
           ELSE IF m \in EventMail /\ ~address
                THEN [@ EXCEPT !.pc = "record", !.result = "INVALID"]
           ELSE [@ EXCEPT !.pc = "claim"]]
  /\ UNCHANGED <<bookingVars, tables, server, accepted>>

(* reviewEmailDelivery, action RETRY_APPROVED, up to the claim, for a row  *)
(* that the review page offers, with the attempt it shows.                 *)
ApproveRetry(w, m) ==
  /\ server.up /\ Idle(w)
  /\ CanRecover(m) /\ attempt[m].n < MaxSends
  /\ ~PolicyError(m)
  /\ m \in AdminMail \/ address
  /\ task' = [task EXCEPT ![w] = [Free EXCEPT !.pc = "claim", !.mail = m, !.recovery = TRUE,
                                       !.attempt = attempt[m].n]]
  /\ UNCHANGED <<bookingVars, tables, server, accepted>>

(* reviewEmailDelivery, the other actions, on a row of the review page,    *)
(* which shows an attempt that is still SENDING after ten minutes: only    *)
(* ACCEPTED_CONFIRMED is read again.                                       *)
ConfirmAccepted(m) ==
  /\ server.up
  /\ \/ attempt[m].outcome \in {"UNKNOWN", "NOT_ACCEPTED"}
     \/ attempt[m].outcome = "SENDING" /\ \A w \in Tasks : task[w].mail = m => task[w].attempt = 0
  /\ confirmed' = confirmed \cup {m}
  /\ UNCHANGED <<bookingVars, outbox, delivery, attempt, server, task, accepted>>

(* claimCustomerEmail, under the lock of the booking's row.  A refused     *)
(* retry throws to the administrator; the other refusals are recorded.     *)
Claim(w) ==
  /\ At(w, "claim")
  /\ LET m == task[w].mail
         retry == task[w].recovery
         row == delivery[m]
         refuse == IF retry THEN Free ELSE [task[w] EXCEPT !.pc = "record", !.result = "SKIP"]
     IN  IF Superseded(m)
         THEN /\ task' = [task EXCEPT ![w] = refuse]
              /\ UNCHANGED <<delivery, attempt>>
         ELSE IF \/ row.status \in {"DELIVERED", "SKIPPED"}
                 \/ ~retry /\ row.error \in MailErrors
         THEN /\ task' = [task EXCEPT ![w] = IF retry THEN Free ELSE Return(@)]
              /\ UNCHANGED <<delivery, attempt>>
         ELSE IF \/ retry /\ ~(attempt[m].n = task[w].attempt /\ CanRecover(m))
                 \/ SlotUsed(m, retry)
         THEN /\ task' = [task EXCEPT ![w] = refuse]
              /\ UNCHANGED <<delivery, attempt>>
         ELSE /\ attempt' = [attempt EXCEPT ![m] =
                   [n |-> @.n + 1, outcome |-> "SENDING", envelope |-> retry]]
              /\ delivery' = [delivery EXCEPT
                   ![m].attempts = IF @ < 3 THEN @ + 1 ELSE @, ![m].error = "RESERVED"]
              /\ task' = [task EXCEPT ![w].pc = "reserved", ![w].attempt = attempt'[m].n]
  /\ UNCHANGED <<bookingVars, outbox, confirmed, server, accepted>>

(* An exception of the claim (a deadlock, a lost connection) is recorded   *)
(* like one of the send.                                                   *)
ClaimFails(w) ==
  /\ At(w, "claim")
  /\ Fault
  /\ task' = [task EXCEPT ![w] =
       IF @.recovery THEN Free ELSE [@ EXCEPT !.pc = "record", !.result = "UNKNOWN"]]
  /\ UNCHANGED <<bookingVars, tables, accepted>>

(* Mutant of Send: every error of sendMail is reported as a refusal.       *)
SendAnyError(w) ==
  /\ At(w, "reserved")
  /\ LET m == task[w].mail IN
       /\ attempt' = [attempt EXCEPT ![m].envelope = TRUE]
       /\ \E taken \in BOOLEAN :
            \E r \in {"NOT_ACCEPTED", IF taken THEN "ACCEPTED" ELSE "NOT_ACCEPTED"} :
              /\ accepted' = [accepted EXCEPT ![m] = IF taken THEN @ + 1 ELSE @]
              /\ task' = [task EXCEPT ![w].pc = "record", ![w].result = r]
  /\ UNCHANGED <<bookingVars, outbox, delivery, confirmed, server>>

(* EmailNotificationAdapter.send: the message is built and saved with      *)
(* saveEmailEnvelope, either of which may fail, and handed to sendMail.    *)
(* smtpFailureEvidence reports a refusal only for a message that the mail  *)
(* server did not take.                                                    *)
Send(w) ==
  /\ At(w, "reserved")
  /\ LET m == task[w].mail IN
       \/ /\ task' = [task EXCEPT ![w].pc = "record", ![w].result = "UNKNOWN"]
          /\ UNCHANGED <<attempt, accepted>>
       \/ /\ attempt[m].n = task[w].attempt /\ attempt[m].outcome = "SENDING"
          /\ attempt' = [attempt EXCEPT ![m].envelope = TRUE]
          /\ \E taken \in BOOLEAN :
               \E r \in {"UNKNOWN", IF taken THEN "ACCEPTED" ELSE "NOT_ACCEPTED"} :
                 /\ accepted' = [accepted EXCEPT ![m] = IF taken THEN @ + 1 ELSE @]
                 /\ task' = [task EXCEPT ![w].pc = "record", ![w].result = r]
  /\ UNCHANGED <<bookingVars, outbox, delivery, confirmed, server>>

(* recordDeliveryResult: finishEmailAttempt and updateDeliveryStatus in    *)
(* one transaction.                                                        *)
StatusOf(r) == IF r = "ACCEPTED" THEN "DELIVERED" ELSE IF r = "SKIP" THEN "SKIPPED" ELSE "FAILED"
ErrorOf(r) == CASE r = "ACCEPTED" -> "none"
                [] r = "SKIP" -> "POLICY"
                [] r = "INVALID" -> "INVALID_RECIPIENT"
                [] r = "NOT_ACCEPTED" -> "NOT_ACCEPTED"
                [] OTHER -> "UNCERTAIN"

Record(w) ==
  /\ At(w, "record")
  /\ LET m == task[w].mail
         r == task[w].result
         held == task[w].attempt
     IN  /\ attempt' = [attempt EXCEPT ![m].outcome =
              IF held > 0 /\ held = attempt[m].n /\ @ = "SENDING" THEN r ELSE @]
         /\ delivery' = [delivery EXCEPT ![m] =
              [status |-> StatusOf(r), error |-> ErrorOf(r),
               attempts |-> IF held = 0 /\ @.attempts < 3 THEN @.attempts + 1 ELSE @.attempts]]
  /\ task' = [task EXCEPT ![w] = Return(@)]
  /\ UNCHANGED <<bookingVars, outbox, confirmed, server, accepted>>

(* recordDeliveryResult swallows its failure.                              *)
RecordFails(w) ==
  /\ At(w, "record")
  /\ Fault
  /\ task' = [task EXCEPT ![w] = Return(@)]
  /\ UNCHANGED <<bookingVars, tables, accepted>>

(* OutboxRepository.markCompleted *)
MarkCompleted(w) ==
  /\ At(w, "complete")
  /\ outbox' = [outbox EXCEPT ![task[w].mail].status = "COMPLETED"]
  /\ task' = [task EXCEPT ![w] = [Free EXCEPT !.todo = task[w].todo]]
  /\ UNCHANGED <<bookingVars, delivery, attempt, confirmed, server, accepted>>

(* OutboxRepository.markFailed: MySQL evaluates the CASE after it has      *)
(* incremented retry_count.                                                *)
MarkFailed(row) ==
  LET n == row.retries + 1
  IN  [retries |-> n, status |-> IF n + 1 >= MaxRetries THEN "FAILED" ELSE "PENDING"]

(* A query outside the delivery's own try: the event is marked failed, the *)
(* recovery of deliveries gives up the rest of its list.                   *)
Throw(w) ==
  /\ \E pc \in {"persist", "load", "complete"} : At(w, pc)
  /\ Fault
  /\ IF task[w].event
     THEN /\ outbox' = [outbox EXCEPT ![task[w].mail] = MarkFailed(@)]
          /\ task' = [task EXCEPT ![w] = [Free EXCEPT !.todo = task[w].todo]]
     ELSE /\ task' = [task EXCEPT ![w] = Free]
          /\ UNCHANGED outbox
  /\ UNCHANGED <<bookingVars, delivery, attempt, confirmed, accepted>>

-----------------------------------------------------------------------------
(* Administrators' mails.                                                  *)

(* approveBookingEmail, approve: rows without an SMTP attempt are SKIPPED. *)
Supersede(m) ==
  delivery' = [h \in Mail |->
    IF h = m THEN NewRow
    ELSE IF /\ delivery[h].status \notin {"NONE", "DELIVERED"}
            /\ ~SmtpTried(h)
            /\ IF m = "confirmation" THEN h \in Opening
               ELSE delivery[h].attempts = 0 \/ delivery[h].error \in {"INVALID_RECIPIENT", "POLICY"}
    THEN [delivery[h] EXCEPT !.status = "SKIPPED", !.error = "POLICY"]
    ELSE delivery[h]]

(* AdminBookingEmailService.send *)
SendConfirmation(w) ==
  /\ server.up /\ Idle(w)
  /\ ConfirmationEligible
  /\ Supersede("confirmation")
  /\ approved' = approved \cup {"confirmation"}
  /\ address' = TRUE
  /\ task' = [task EXCEPT ![w] = [Free EXCEPT !.pc = "load", !.mail = "confirmation"]]
  /\ UNCHANGED <<trip, started, outbox, attempt, confirmed, server, accepted>>

(* AdminReceiptEmailService.send *)
SendReceipt(w) ==
  /\ server.up /\ Idle(w)
  /\ ReceiptEligible
  /\ Supersede("receipt")
  /\ approved' = approved \cup {"receipt"}
  /\ address' = TRUE
  /\ task' = [task EXCEPT ![w] = [Free EXCEPT !.pc = "load", !.mail = "receipt"]]
  /\ UNCHANGED <<trip, started, outbox, attempt, confirmed, server, accepted>>

-----------------------------------------------------------------------------
(* The process.                                                            *)

Crash ==
  /\ server.up /\ server.faults < MaxFaults
  /\ server' = [up |-> FALSE, dispatch |-> {}, outboxDue |-> FALSE,
                deliveriesDue |-> FALSE, faults |-> server.faults + 1]
  /\ task' = [w \in Tasks |-> Free]
  /\ UNCHANGED <<bookingVars, tables, accepted>>

(* Mutant of Restart: only the deliveries are recovered.                   *)
RestartDeliveriesOnly ==
  /\ ~server.up
  /\ server' = [server EXCEPT !.up = TRUE, !.deliveriesDue = TRUE]
  /\ UNCHANGED <<bookingVars, tables, task, accepted>>

(* server.js: both recoveries start when the server listens.               *)
Restart ==
  /\ ~server.up
  /\ server' = [server EXCEPT !.up = TRUE, !.outboxDue = TRUE, !.deliveriesDue = TRUE]
  /\ UNCHANGED <<bookingVars, tables, task, accepted>>

TaskStep(w) ==
  \/ NextRow(w) \/ NextDelivery(w) \/ Persist(w) \/ Load(w) \/ Claim(w) \/ ClaimFails(w)
  \/ Send(w) \/ Record(w) \/ RecordFails(w) \/ MarkCompleted(w) \/ Throw(w)

Next ==
  \/ EndTrip \/ Cancel \/ EditAddress
  \/ \E m \in Mail : ConfirmAccepted(m)
  \/ \E w \in Tasks :
       \/ TaskStep(w) \/ RecoverOutbox(w) \/ RecoverDeliveries(w)
       \/ \E e \in EventMail : Dispatch(w, e)
       \/ \E m \in Mail : ApproveRetry(w, m)
       \/ SendConfirmation(w) \/ SendReceipt(w)
  \/ Crash \/ Restart

Spec == Init /\ [][Next]_vars

-----------------------------------------------------------------------------
(* Properties.                                                             *)

(* The mail server takes at most one copy of one mail for each slot of a   *)
(* booking: not two of the same delivery (two tasks, a retry, a crash      *)
(* between the send and its record), and not the automatic mail and the    *)
(* administrator's one.                                                    *)
OneMailPerSlot ==
  \A m, h \in Mail :
    /\ accepted[m] <= 1
    /\ m # h /\ Slot(m) = Slot(h) => accepted[m] = 0 \/ accepted[h] = 0

(* What the review page offers to send again was never taken by the mail   *)
(* server, whatever was recorded and in whichever order.                   *)
RetryIsSafe == \A m \in Mail : CanRecover(m) => accepted[m] = 0

(* No event is lost between the booking's commit and its mail: it is       *)
(* closed only when its notification is stored, and while it was not       *)
(* handled once and the server is up, somebody still has to take it, in    *)
(* spite of crashes between the commit and the dispatch.                   *)
NoEventIsLost ==
  \A e \in EventMail :
    /\ outbox[e].status = "COMPLETED" => Exists(e)
    /\ server.up /\ outbox[e] = [status |-> "PENDING", retries |-> 0]
         => e \in server.dispatch \/ server.outboxDue
=============================================================================
