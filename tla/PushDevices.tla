---------------------------- MODULE PushDevices ----------------------------
(***************************************************************************)
(* Notifications in a person's inbox and on his devices: registering and   *)
(* giving up devices, a notification's FCM delivery over every device of   *)
(* its recipient, and who reads what in the app.                           *)
(*                                                                         *)
(* A device row is found by the hash of its token, which is unique: who    *)
(* registers the token takes the row over.  Nothing locks a notification   *)
(* while its devices are served, one awaited push after the other, so two  *)
(* workers may serve it at once: the one that created it, the recovery of  *)
(* a start, and a repeated contact dispatch.                               *)
(***************************************************************************)
EXTENDS Naturals

CONSTANTS Tokens, Bookings, Notes, Workers,
          Staff, Customers,         \* users; customers cannot register devices
          None,
          MAX_DELIVERY_ATTEMPTS,    \* attempt_count < 3
          MaxExcuses                \* bound on lost answers, records and crashes

VARIABLES
  device,   \* Tokens -> row of notification_devices
  holder,   \* Bookings -> customer_user_id
  note,     \* Notes -> notification and its FCM delivery row, or None
  worker,   \* Workers -> where sendFcmToActiveDevices is
  shown,    \* history: Notes -> Tokens -> pushes that reached the device
  excused   \* history: Notes -> lost answers and records, crashes, overlaps

vars == <<device, holder, note, worker, shown, excused>>

Owners == Staff \cup Bookings
DeviceRow == [owner : Owners \cup {None}, active : BOOLEAN]
Note == [user : Staff \cup Customers \cup {None}, booking : Bookings, read : BOOLEAN,
         status : {"PENDING", "DELIVERED", "SKIPPED", "FAILED", "PERMANENT"},
         attempts : 0..MAX_DELIVERY_ATTEMPTS]

Idle == [pc |-> "idle", note |-> None, left |-> {}, results |-> {}]

TypeOK ==
  /\ device \in [Tokens -> DeviceRow]
  /\ holder \in [Bookings -> Customers \cup {None}]
  /\ \A n \in Notes : note[n] = None \/ note[n] \in Note
  /\ \A w \in Workers : worker[w].left \subseteq Tokens

Init ==
  /\ device = [t \in Tokens |-> [owner |-> None, active |-> FALSE]]
  /\ holder = [b \in Bookings |-> None]
  /\ note = [n \in Notes |-> None]
  /\ worker = [w \in Workers |-> Idle]
  /\ shown = [n \in Notes |-> [t \in Tokens |-> 0]]
  /\ excused = [n \in Notes |-> 0]

Made(n) == note[n] # None
Serves(w, n) == worker[w].note = n

-----------------------------------------------------------------------------
(* Devices.                                                                *)

(* upsertDevice: of two first registrations of a token at once one fails   *)
(* on the unique key.                                                      *)
UpsertDevice(t, o) ==
  /\ device' = [device EXCEPT ![t] = [owner |-> o, active |-> TRUE]]
  /\ UNCHANGED <<holder, note, worker, shown, excused>>

RegisterDeviceForUser(t, u) == UpsertDevice(t, u)
RegisterDeviceForGuestBooking(t, b) == UpsertDevice(t, b)

(* deactivateDevice: only the owner's active row. *)
DeactivateDevice(t, o) ==
  /\ device[t] = [owner |-> o, active |-> TRUE]
  /\ device' = [device EXCEPT ![t].active = FALSE]
  /\ UNCHANGED <<holder, note, worker, shown, excused>>

DeactivateDeviceForUser(t, u) == DeactivateDevice(t, u)
DeactivateDeviceForGuestBooking(t, b) == DeactivateDevice(t, b)

(* findActiveFcmDevicesForRecipient: by the user when there is one.        *)
Recipient(m) == IF m.user # None THEN m.user ELSE m.booking
ActiveDevices(m) == {t \in Tokens : device[t] = [owner |-> Recipient(m), active |-> TRUE]}

-----------------------------------------------------------------------------
(* The inbox.                                                              *)

(* buildListFilters: a guest's notifications are those without a user. *)
Matches(n, u, b) ==
  /\ Made(n) /\ note[n].user = u
  /\ b # None => note[n].booking = b

GuestList(b) == {n \in Notes : Matches(n, None, b)}
UserList(u) == {n \in Notes : Matches(n, u, None)}

(* Mutant of OwnedList: only what was sent to the account. *)
OwnedListUserOnly(b, u) == {n \in Notes : Matches(n, u, b)}

(* listForCustomerOwnedBooking *)
OwnedList(b, u) == {n \in Notes : Matches(n, u, b)} \cup GuestList(b)

(* getBookingNotifications *)
BookingList(b) == IF holder[b] = None THEN GuestList(b) ELSE OwnedList(b, holder[b])

(* guestBooking claim: the notifications stay as they are. *)
Claim(b, c) ==
  /\ holder[b] = None
  /\ holder' = [holder EXCEPT ![b] = c]
  /\ UNCHANGED <<device, note, worker, shown, excused>>

MarkReadForUser(u, n) ==
  /\ n \in UserList(u)
  /\ note' = [note EXCEPT ![n].read = TRUE]
  /\ UNCHANGED <<device, holder, worker, shown, excused>>

MarkAllReadForUser(u) ==
  /\ \E n \in UserList(u) : ~note[n].read
  /\ note' = [n \in Notes |-> IF n \in UserList(u) THEN [note[n] EXCEPT !.read = TRUE]
                               ELSE note[n]]
  /\ UNCHANGED <<device, holder, worker, shown, excused>>

-----------------------------------------------------------------------------
(* Sending.                                                                *)

New(u, b) == [user |-> u, booking |-> b, read |-> FALSE, status |-> "PENDING", attempts |-> 0]

(* persistDirectNotificationTx, then processDeliveries: to the customer of *)
(* a booking (its account, else the booking itself), or to staff.          *)
Create(w, n, b, u) ==
  /\ worker[w] = Idle /\ ~Made(n)
  /\ u \in Staff \cup {holder[b]}
  /\ note' = [note EXCEPT ![n] = New(u, b)]
  /\ worker' = [worker EXCEPT ![w] = [Idle EXCEPT !.pc = "list", !.note = n]]
  /\ UNCHANGED <<device, holder, shown, excused>>

Unfinished(m) ==
  /\ m.status \in {"PENDING", "FAILED"}
  /\ m.attempts < MAX_DELIVERY_ATTEMPTS

(* processDeliveries by recoverPendingDeliveries or, for a repeated        *)
(* contact dispatch, by processDeliveriesForIdempotencyKey.                *)
Process(w, n) ==
  /\ worker[w] = Idle /\ Made(n) /\ Unfinished(note[n])
  /\ excused[n] < MaxExcuses
  /\ excused' = [excused EXCEPT ![n] = IF \E v \in Workers : Serves(v, n) THEN @ + 1 ELSE @]
  /\ worker' = [worker EXCEPT ![w] = [Idle EXCEPT !.pc = "list", !.note = n]]
  /\ UNCHANGED <<device, holder, note, shown>>

(* sendFcmToActiveDevices reads the devices once. *)
ListDevices(w) ==
  /\ worker[w].pc = "list"
  /\ worker' = [worker EXCEPT ![w].pc = "push",
                              ![w].left = ActiveDevices(note[worker[w].note])]
  /\ UNCHANGED <<device, holder, note, shown, excused>>

Served(w, t, r) ==
  worker' = [worker EXCEPT ![w].left = @ \ {t}, ![w].results = @ \cup {r}]

PushDelivered(w, t) ==
  /\ worker[w].pc = "push" /\ t \in worker[w].left
  /\ Served(w, t, "delivered")
  /\ shown' = [shown EXCEPT ![worker[w].note][t] = @ + 1]
  /\ UNCHANGED <<device, holder, note, excused>>

(* An error for now; it may also be the answer that was lost. *)
PushFails(w, t) ==
  /\ worker[w].pc = "push" /\ t \in worker[w].left
  /\ Served(w, t, "transient")
  /\ \/ UNCHANGED <<shown, excused>>
     \/ /\ excused[worker[w].note] < MaxExcuses
        /\ shown' = [shown EXCEPT ![worker[w].note][t] = @ + 1]
        /\ excused' = [excused EXCEPT ![worker[w].note] = @ + 1]
  /\ UNCHANGED <<device, holder, note>>

(* An invalid token: deactivateDeviceById, whoever has the row by now. *)
PushRefused(w, t) ==
  /\ worker[w].pc = "push" /\ t \in worker[w].left
  /\ Served(w, t, "permanent")
  /\ device' = [device EXCEPT ![t].active = FALSE]
  /\ UNCHANGED <<holder, note, shown, excused>>

(* Mutant of Outcome: one failing device makes the delivery fail. *)
OutcomeWorst(results) ==
  CASE "transient" \in results -> "FAILED"
    [] "delivered" \in results -> "DELIVERED"
    [] "permanent" \in results -> "PERMANENT"
    [] OTHER -> "SKIPPED"

(* sendFcmToActiveDevices, the answer: one device served is enough. *)
Outcome(results) ==
  CASE "delivered" \in results -> "DELIVERED"
    [] "delivered" \notin results /\ "transient" \in results -> "FAILED"
    [] results = {"permanent"} -> "PERMANENT"
    [] OTHER -> "SKIPPED"

Bumped(k) == IF k < MAX_DELIVERY_ATTEMPTS THEN k + 1 ELSE k

(* recordDeliveryResult; the failure to record is logged and forgotten. *)
Record(w) ==
  LET n == worker[w].note IN
  /\ worker[w].pc = "push" /\ worker[w].left = {}
  /\ worker' = [worker EXCEPT ![w] = Idle]
  /\ \/ /\ note' = [note EXCEPT ![n].status = Outcome(worker[w].results),
                                ![n].attempts = Bumped(@)]
        /\ UNCHANGED excused
     \/ /\ excused[n] < MaxExcuses
        /\ excused' = [excused EXCEPT ![n] = @ + 1]
        /\ UNCHANGED note
  /\ UNCHANGED <<device, holder, shown>>

(* The server stops: what was pushed and not recorded is forgotten. *)
Crash ==
  /\ \E w \in Workers : worker[w] # Idle
  /\ \A n \in Notes : excused[n] < MaxExcuses
  /\ excused' = [n \in Notes |-> IF \E w \in Workers : Serves(w, n)
                                 THEN excused[n] + 1 ELSE excused[n]]
  /\ worker' = [w \in Workers |-> Idle]
  /\ UNCHANGED <<device, holder, note, shown>>

Next ==
  \/ \E t \in Tokens, u \in Staff : RegisterDeviceForUser(t, u) \/ DeactivateDeviceForUser(t, u)
  \/ \E t \in Tokens, b \in Bookings :
       RegisterDeviceForGuestBooking(t, b) \/ DeactivateDeviceForGuestBooking(t, b)
  \/ \E b \in Bookings, c \in Customers : Claim(b, c)
  \/ \E u \in Staff \cup Customers : MarkAllReadForUser(u)
  \/ \E u \in Staff \cup Customers, n \in Notes : MarkReadForUser(u, n)
  \/ \E w \in Workers, n \in Notes : Process(w, n)
  \/ \E w \in Workers, n \in Notes, b \in Bookings, u \in Staff \cup Customers \cup {None} :
       Create(w, n, b, u)
  \/ \E w \in Workers : ListDevices(w) \/ Record(w)
  \/ \E w \in Workers, t \in Tokens :
       PushDelivered(w, t) \/ PushFails(w, t) \/ PushRefused(w, t)
  \/ Crash

Spec == Init /\ [][Next]_vars

-----------------------------------------------------------------------------
(* A device shows a notification again only for an answer or a record that *)
(* was lost, a crash, or a second worker on the same notification: never   *)
(* because another device of its owner could not be reached.               *)
NoSecondPush == \A n \in Notes, t \in Tokens : shown[n][t] <= 1 + excused[n]

(* Claiming a booking hides none of the notifications its guest could read *)
(* before, and no later step takes one away.                               *)
ListOnlyGrows == [][\A b \in Bookings : BookingList(b) \subseteq BookingList(b)']_vars
=============================================================================
