--------------------------- MODULE ContactDispatch ---------------------------
(***************************************************************************)
(* One booking made through the public form when a verified messenger      *)
(* contact is required: the customer connects a messenger and may edit his *)
(* contact later, an administrator verifies it, and the drivers are only   *)
(* called then.                                                            *)
(*                                                                         *)
(* A handler that holds the booking row (FOR UPDATE) for its whole         *)
(* transaction is one step.  dispatchAfterContactVerified holds no row: it *)
(* is serialised by a named lock of the database session only, and reads   *)
(* and writes bookings.metadata in separate statements, so each of its     *)
(* statements is a step.  The metadata is one JSON column, always written  *)
(* whole; of its keys the model keeps the messenger and the two markers.   *)
(***************************************************************************)
EXTENDS Integers, Sequences

CONSTANTS Tasks,           \* concurrent requests of administrators
          Drivers,
          Messengers,      \* the customer's messenger types (SMS is not offered)
          Phones,
          Channels,        \* channels enabled in the platform settings
          DefaultChannel,
          None,
          MaxConnections,  \* bound on the rows of booking_contact_connections
          MaxEdits,        \* bound on the customer's edits
          MaxFaults        \* bound on crashes and failed queries

VARIABLES
  booking,      \* the row of bookings
  connections,  \* its rows of booking_contact_connections, oldest first
  calls,        \* drivers with a DRIVER_CALL notification (unique key)
  eligible,     \* drivers that an open booking would be offered to
  lock,         \* the session that holds the named lock, or None
  task,         \* Tasks -> what the request is doing
  page,         \* the details the customer's edit form was opened with
  saved,        \* history: the details of the customer's last edit
  broadcasts,   \* history: socket broadcasts of the open call
  attempted,    \* history: the deliveries were attempted
  edits, faults

rows == <<booking, connections, calls>>
history == <<saved, broadcasts, attempted>>
vars == <<rows, eligible, lock, task, page, history, edits, faults>>

Metadata == [messenger: Messengers, completed: BOOLEAN, delivered: BOOLEAN]
Details == [phone: Phones, messenger: Messengers]
ContactStatus == {"PENDING", "CONFIRM_REQUESTED", "VERIFIED"}
Booking == [status: {"OPEN", "DRIVER_ASSIGNED", "PICKED_UP", "CANCELLED"},
            contact: ContactStatus, channel: Channels, phone: Phones,
            metadata: Metadata]
Connection == [channel: Channels, status: ContactStatus \cup {"CANCELLED"}]
Task == [pc: {"free", "asked", "locked", "checked", "read", "committed", "sent",
              "marking"},
         seen: Metadata,             \* the metadata it read
         drivers: SUBSET Drivers,    \* the eligible drivers it read
         strict: BOOLEAN]            \* failOnLockContention

(* resolveBookingContactChannel: the preferred channel if it is usable.    *)
ResolveChannel(m) == IF m \in Channels THEN m ELSE DefaultChannel

DetailsOf(b) == [phone |-> b.phone, messenger |-> b.metadata.messenger]
Free == [pc |-> "free", seen |-> [messenger |-> DefaultChannel,
                                  completed |-> FALSE, delivered |-> FALSE],
         drivers |-> {}, strict |-> FALSE]

TypeOK ==
  /\ booking \in Booking
  /\ connections \in Seq(Connection)
  /\ calls \in SUBSET Drivers /\ eligible \in SUBSET Drivers
  /\ lock \in Tasks \cup {None}
  /\ task \in [Tasks -> Task]
  /\ page \in Details /\ saved \in Details
  /\ broadcasts \in Nat /\ attempted \in BOOLEAN
  /\ edits \in 0..MaxEdits /\ faults \in 0..MaxFaults

Init ==
  /\ \E m \in Messengers, p \in Phones :
       /\ booking = [status |-> "OPEN", contact |-> "PENDING",
                     channel |-> ResolveChannel(m), phone |-> p,
                     metadata |-> [messenger |-> m, completed |-> FALSE,
                                   delivered |-> FALSE]]
       /\ page = [phone |-> p, messenger |-> m]
       /\ saved = page
  /\ connections = <<>> /\ calls = {}
  /\ eligible \in SUBSET Drivers
  /\ lock = None
  /\ task = [t \in Tasks |-> Free]
  /\ broadcasts = 0 /\ attempted = FALSE
  /\ edits = 0 /\ faults = 0

-----------------------------------------------------------------------------
(* The customer's messenger.                                               *)

IsActive(c) == c.status \in ContactStatus
Active == {i \in 1..Len(connections) : IsActive(connections[i])}
(* findActiveByBookingId: the guard of the table leaves at most one.       *)
ActiveRow == CHOOSE i \in Active : \A j \in Active : j <= i

(* cancelActiveConnections leaves a VERIFIED row alone.                    *)
CancelActive(cs) ==
  [i \in DOMAIN cs |-> IF cs[i].status \in {"PENDING", "CONFIRM_REQUESTED"}
                       THEN [cs[i] EXCEPT !.status = "CANCELLED"] ELSE cs[i]]

(* uk_bcc_one_active_per_booking.                                          *)
OneActive(cs) ==
  \A i, j \in DOMAIN cs : IsActive(cs[i]) /\ IsActive(cs[j]) => i = j

(* POST contact-connection: every booking of the public form follows the   *)
(* channel policy, so that the channel is resolved from the preference,    *)
(* whatever the client asks for.  A verified booking is answered as it is; *)
(* one whose VERIFIED row is still active is refused by the unique key.    *)
StartConnection ==
  LET channel == ResolveChannel(booking.metadata.messenger)
      started == Append(CancelActive(connections),
                        [channel |-> channel, status |-> "PENDING"])
  IN /\ booking.contact # "VERIFIED"
     /\ Len(connections) < MaxConnections
     /\ OneActive(started)
     /\ connections' = started
     /\ booking' = [booking EXCEPT !.contact = "PENDING", !.channel = channel]
     /\ UNCHANGED <<calls, eligible, lock, task, page, history, edits, faults>>

(* POST contact-connection/confirm: "I have sent the message".             *)
ConfirmSent ==
  /\ booking.contact = "PENDING"
  /\ Active # {}
  /\ connections' = [connections EXCEPT ![ActiveRow].status = "CONFIRM_REQUESTED"]
  /\ booking' = [booking EXCEPT !.contact = "CONFIRM_REQUESTED",
                                !.channel = connections[ActiveRow].channel]
  /\ UNCHANGED <<calls, eligible, lock, task, page, history, edits, faults>>

(* GET bookings/:number/edit, whose answer carries the revision.           *)
OpenForm ==
  /\ page' = DetailsOf(booking)
  /\ UNCHANGED <<rows, eligible, lock, task, history, edits, faults>>

Editable == {"OPEN", "DRIVER_ASSIGNED"}

(* PATCH bookings/:number/edit: the revision must be the current one; any  *)
(* change of phone or messenger resets the contact and the channel, but    *)
(* neither the connection rows nor the dispatch markers.                   *)
Edit(d) ==
  /\ edits < MaxEdits
  /\ booking.status \in Editable
  /\ d # DetailsOf(booking)
  /\ page = DetailsOf(booking)
  /\ booking' = [booking EXCEPT !.phone = d.phone,
                                !.metadata.messenger = d.messenger,
                                !.contact = "PENDING",
                                !.channel = ResolveChannel(d.messenger)]
  /\ page' = d /\ saved' = d /\ edits' = edits + 1
  /\ UNCHANGED <<connections, calls, eligible, lock, task, broadcasts, attempted,
                 faults>>

-----------------------------------------------------------------------------
(* The administrators.                                                     *)

Verifiable == {"OPEN", "DRIVER_ASSIGNED", "PICKED_UP"}

(* What an accepted request does next: it dispatches, or it is over.       *)
Proceed(t, dispatch, strict) ==
  task' = IF dispatch
          THEN [task EXCEPT ![t] = [Free EXCEPT !.pc = "asked", !.strict = strict]]
          ELSE task

(* isContactDispatchDelivered, needsContactDispatchRetry.                  *)
Undelivered(m) == ~m.delivered
NeedsRetry(b) == b.status = "OPEN" /\ b.contact = "VERIFIED"
                 /\ ~(b.metadata.completed /\ b.metadata.delivered)

(* adminVerify of a confirmed contact.                                     *)
Verify(t) ==
  /\ task[t].pc = "free"
  /\ booking.status \in Verifiable
  /\ booking.contact = "CONFIRM_REQUESTED"
  /\ Active # {}
  /\ connections' = [connections EXCEPT ![ActiveRow].status = "VERIFIED"]
  /\ booking' = [booking EXCEPT !.contact = "VERIFIED",
                                !.channel = connections[ActiveRow].channel]
  /\ Proceed(t, booking.status = "OPEN" /\ Undelivered(booking.metadata), FALSE)
  /\ UNCHANGED <<calls, eligible, lock, page, history, edits, faults>>

(* adminVerify repeated on a verified contact.                             *)
VerifyAgain(t) ==
  /\ task[t].pc = "free"
  /\ booking.contact = "VERIFIED" /\ NeedsRetry(booking)
  /\ Proceed(t, TRUE, FALSE)
  /\ UNCHANGED <<rows, eligible, lock, page, history, edits, faults>>

(* isContactDispatchRetryable.  A verified contact was requested, so that  *)
(* there is evidence of the contact flow.                                  *)
Retryable(b) ==
  /\ b.status = "OPEN" /\ b.contact = "VERIFIED"
  /\ ~b.metadata.delivered
  /\ b.metadata.completed \/ Active # {}

(* adminRetryDispatch.                                                     *)
RetryDispatch(t) ==
  /\ task[t].pc = "free"
  /\ Retryable(booking)
  /\ Proceed(t, TRUE, TRUE)
  /\ UNCHANGED <<rows, eligible, lock, page, history, edits, faults>>

-----------------------------------------------------------------------------
(* dispatchAfterContactVerified.                                           *)

Finish(t) == task' = [task EXCEPT ![t] = Free]
Release(t) == lock' = IF lock = t THEN None ELSE lock
Step(t, pc) == task' = [task EXCEPT ![t].pc = pc]

(* Mutant of Lock: the named lock is not asked for.                        *)
LockNothing(t) ==
  /\ task[t].pc = "asked" /\ Step(t, "locked")
  /\ UNCHANGED <<rows, eligible, lock, page, history, edits, faults>>

Lock(t) ==
  /\ task[t].pc = "asked" /\ lock = None
  /\ lock' = t /\ Step(t, "locked")
  /\ UNCHANGED <<rows, eligible, page, history, edits, faults>>

(* GET_LOCK times out: FALSE, or CONTACT_DISPATCH_IN_PROGRESS for a retry. *)
LockTimeout(t) ==
  /\ task[t].pc = "asked" /\ lock # None
  /\ Finish(t)
  /\ UNCHANGED <<rows, eligible, lock, page, history, edits, faults>>

(* findById: is the booking still open and verified?                       *)
Check(t) ==
  /\ task[t].pc = "locked"
  /\ IF booking.status = "OPEN" /\ booking.contact = "VERIFIED"
     THEN Step(t, "checked") /\ lock' = lock
     ELSE Finish(t) /\ Release(t)
  /\ UNCHANGED <<rows, eligible, page, history, edits, faults>>

(* findOpenDriverCallByBookingId, which asks for an OPEN booking again but *)
(* not for its contact, and the eligible drivers.                          *)
ReadCall(t) ==
  /\ task[t].pc = "checked"
  /\ IF booking.status = "OPEN"
        /\ ~(booking.metadata.completed /\ booking.metadata.delivered)
     THEN /\ task' = [task EXCEPT ![t] = [@ EXCEPT !.pc = "read",
                                                   !.seen = booking.metadata,
                                                   !.drivers = eligible]]
          /\ lock' = lock
     ELSE Finish(t) /\ Release(t)
  /\ UNCHANGED <<rows, eligible, page, history, edits, faults>>

(* One transaction: the notifications, one per driver for ever, and the    *)
(* first marker, in the metadata that was read before.                     *)
Persist(t) ==
  /\ task[t].pc = "read"
  /\ IF task[t].seen.completed
     THEN UNCHANGED rows
     ELSE /\ calls' = calls \cup task[t].drivers
          /\ booking' = [booking EXCEPT
                           !.metadata = [task[t].seen EXCEPT !.completed = TRUE]]
          /\ UNCHANGED connections
  /\ Step(t, "committed")
  /\ UNCHANGED <<eligible, lock, page, history, edits, faults>>

(* dispatchContactDispatchPostCommit: the sockets only the first time, the *)
(* deliveries of the rows that exist every time.                           *)
PostCommit(t) ==
  /\ task[t].pc = "committed"
  /\ broadcasts' = IF task[t].seen.completed THEN broadcasts ELSE broadcasts + 1
  /\ attempted' = TRUE
  /\ Step(t, "sent")
  /\ UNCHANGED <<rows, eligible, lock, page, saved, edits, faults>>

(* findBookingMetadata on the second connection...                         *)
Reread(t) ==
  /\ task[t].pc = "sent"
  /\ task' = [task EXCEPT ![t].pc = "marking", ![t].seen = booking.metadata]
  /\ UNCHANGED <<rows, eligible, lock, page, history, edits, faults>>

(* ... and the second marker, in what it read.                             *)
MarkDelivered(t) ==
  /\ task[t].pc = "marking"
  /\ booking' = [booking EXCEPT
                   !.metadata = [task[t].seen EXCEPT !.delivered = TRUE]]
  /\ Finish(t) /\ Release(t)
  /\ UNCHANGED <<connections, calls, eligible, page, history, edits, faults>>

(* A statement fails: the transaction, if any, is rolled back, and the     *)
(* lock is released.                                                       *)
Fail(t) ==
  /\ faults < MaxFaults /\ faults' = faults + 1
  /\ task[t].pc # "free"
  /\ Finish(t) /\ Release(t)
  /\ UNCHANGED <<rows, eligible, page, history, edits>>

(* The process dies with all its sessions.                                 *)
Crash ==
  /\ faults < MaxFaults /\ faults' = faults + 1
  /\ \E t \in Tasks : task[t].pc # "free"
  /\ task' = [t \in Tasks |-> Free] /\ lock' = None
  /\ UNCHANGED <<rows, eligible, page, history, edits>>

-----------------------------------------------------------------------------
(* The rest of the system.                                                 *)

SetStatus(s) ==
  /\ booking' = [booking EXCEPT !.status = s]
  /\ UNCHANGED <<connections, calls, eligible, lock, task, page, history, edits,
                 faults>>

(* A claim or an assignment asks for a verified contact.                   *)
AssignDriver == /\ booking.status = "OPEN" /\ booking.contact = "VERIFIED"
                /\ SetStatus("DRIVER_ASSIGNED")
ReopenBooking == /\ booking.status = "DRIVER_ASSIGNED"
                 /\ booking.contact = "VERIFIED"
                 /\ SetStatus("OPEN")
PickUp == booking.status = "DRIVER_ASSIGNED" /\ SetStatus("PICKED_UP")
CancelBooking == booking.status \in Editable /\ SetStatus("CANCELLED")

(* A driver goes on or off duty.                                           *)
ChangeEligible ==
  /\ eligible' \in SUBSET Drivers \ {eligible}
  /\ UNCHANGED <<rows, lock, task, page, history, edits, faults>>

Dispatch(t) ==
  \/ Lock(t) \/ LockTimeout(t) \/ Check(t) \/ ReadCall(t) \/ Persist(t)
  \/ PostCommit(t) \/ Reread(t) \/ MarkDelivered(t) \/ Fail(t)

Next ==
  \/ StartConnection \/ ConfirmSent \/ OpenForm
  \/ \E d \in Details : Edit(d)
  \/ \E t \in Tasks : Verify(t) \/ VerifyAgain(t) \/ RetryDispatch(t) \/ Dispatch(t)
  \/ AssignDriver \/ ReopenBooking \/ PickUp \/ CancelBooking
  \/ ChangeEligible \/ Crash

Spec == Init /\ [][Next]_vars

-----------------------------------------------------------------------------
(* However often the dispatch is repeated, by whomever, and whatever fails *)
(* in between, the open call is broadcast once: the drivers' screens do    *)
(* not ring again for a booking that was called already.                   *)
CalledOnce == broadcasts <= 1

(* The markers, on which every retry and the administrators' screen rely,  *)
(* survive the edits that rewrite the same column: the drivers have rows   *)
(* or heard the broadcast only under the first marker, and the second says *)
(* that a delivery was attempted under the first.                          *)
MarkersTellTruth ==
  /\ (calls # {} \/ broadcasts > 0) => booking.metadata.completed
  /\ booking.metadata.delivered => booking.metadata.completed /\ attempted

(* The booking and its connection rows tell the same story: at most one    *)
(* row is active, and a booking that awaits verification, or is verified,  *)
(* has an active row in that very state, on the booking's channel.         *)
SnapshotMatchesConnection ==
  /\ OneActive(connections)
  /\ booking.contact # "PENDING" =>
       \E i \in Active : /\ connections[i].status = booking.contact
                         /\ connections[i].channel = booking.channel

(* What the customer saved is what the booking holds.                      *)
EditsSurvive == DetailsOf(booking) = saved
=============================================================================
