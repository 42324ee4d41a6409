-------------------------- MODULE CustomerMailProofs --------------------------
(***************************************************************************)
(* For any number of tasks, crashes and failed queries: one mail reaches   *)
(* the customer per slot, only a refused one is offered again, and no      *)
(* event is forgotten.  What makes the first two hold: the row of the      *)
(* delivery and its latest attempt keep a second automatic send out        *)
(* (AttemptInv), because at most two tasks ever process a delivery at once,*)
(* the one that stored it and the one that recovers (TokensInv), so that   *)
(* no third one can be about to send when one of them blots out the record *)
(* of the other (BlotInv); and the attempt has one holder, who alone sends *)
(* and records (HolderInv).                                                *)
(***************************************************************************)
EXTENDS CustomerMail, FiniteSetTheorems, TLAPS

Working == {"load", "claim", "reserved", "record"}
Answers == {"ACCEPTED", "NOT_ACCEPTED", "UNKNOWN"}   \* of a send

(* What a task carries at each of its steps.                               *)
Shape(t) ==
  /\ t.pc = "reserved" => t.attempt > 0
  /\ t.pc \in {"free", "persist", "load", "complete"} => t.attempt = 0 /\ ~t.recovery
  /\ t.pc = "claim" => (t.recovery <=> t.attempt > 0) /\ t.attempt < MaxSends
  /\ t.recovery => ~t.event /\ t.attempt > 0 /\ t.todo = {} /\ t.redo = {}
  /\ t.event => t.mail \in EventMail /\ t.redo = {} /\ t.pc # "free"
  /\ t.todo = {} \/ t.redo = {}
  /\ t.pc \in {"persist", "complete"} => t.event
  /\ t.pc = "record" =>
       t.result \in IF t.attempt > 0 THEN Answers ELSE {"SKIP", "INVALID", "UNKNOWN"}
  /\ t.pc = "record" /\ t.result = "INVALID" => t.mail \in EventMail

(* What a task works on was published and, once it is processed, stored.   *)
Published(e) == outbox[e].status # "NONE"
Sound(w) ==
  /\ Shape(task[w])
  /\ task[w].pc \in Working \cup {"complete"} => Exists(task[w].mail)
  /\ task[w].event => Published(task[w].mail)
  /\ \A e \in task[w].todo : Published(e)
  /\ \A m \in task[w].redo : Exists(m)
SourceInv ==
  /\ \A w \in Tasks : Sound(w)
  /\ \A e \in server.dispatch : Published(e)
  /\ \A e \in EventMail : Exists(e) => Published(e)
  /\ Published("ended") => trip = "ENDED"
  /\ Published("cancelled") => trip = "CANCELLED"
  /\ ~server.up => \A w \in Tasks : Idle(w)

(* A delivery of an event is processed by the task that stored it, by the  *)
(* one that recovers the deliveries, and by nobody else but for retries.   *)
Stores(w) == task[w].event /\ task[w].pc \in Working
Recovers(w) ==
  \/ task[w].redo # {}
  \/ /\ task[w].mail \in EventMail /\ task[w].pc \in Working
     /\ ~task[w].event /\ ~task[w].recovery
TokensInv ==
  /\ \A u, w \in Tasks :
       /\ Stores(u) /\ Stores(w) /\ task[u].mail = task[w].mail => u = w
       /\ Recovers(u) /\ Recovers(w) => u = w
  /\ server.deliveriesDue => \A w \in Tasks : ~Recovers(w)

(* A delivery that was attempted looks so in its row.                      *)
Marked(m) ==
  /\ SmtpTried(m) => /\ Exists(m) /\ delivery[m].attempts > 0
                     /\ \/ delivery[m].error \in PermanentErrors
                        \/ delivery[m].status \in {"DELIVERED", "SKIPPED"}
  /\ attempt[m].outcome = "none" <=> ~SmtpTried(m)
  /\ delivery[m].error = "INVALID_RECIPIENT" => m \in EventMail
AttemptInv == \A m \in Mail : Marked(m)

(* Who is about to send a mail that was attempted finds that out: no task  *)
(* has written, or is about to write, that it had no address.              *)
Blotted(m) ==
  \/ delivery[m].error = "INVALID_RECIPIENT"
  \/ \E u \in Tasks : task[u].mail = m /\ task[u].pc = "record" /\ task[u].result = "INVALID"
Automatic(w, m) == task[w].pc = "claim" /\ ~task[w].recovery /\ task[w].mail = m
BlotInv == \A w \in Tasks, m \in Mail : Automatic(w, m) /\ SmtpTried(m) => ~Blotted(m)

(* The attempt under way has one holder.                                   *)
Holds(w) == task[w].pc \in {"reserved", "record"} /\ task[w].attempt > 0
Current(w) ==
  /\ attempt[task[w].mail].n = task[w].attempt
  /\ attempt[task[w].mail].outcome = "SENDING"
HolderInv ==
  /\ \A w \in Tasks : Holds(w) => Current(w)
  /\ \A u, w \in Tasks : Holds(u) /\ Holds(w) /\ task[u].mail = task[w].mail => u = w

(* What the mail server took is not offered or sent again.                 *)
Unsent(w) ==
  \/ task[w].pc = "reserved"
  \/ task[w].pc = "record" /\ task[w].result = "NOT_ACCEPTED"
AcceptedInv ==
  /\ \A m \in Mail :
       /\ accepted[m] <= 1
       /\ accepted[m] > 0 => attempt[m].outcome \in {"SENDING", "ACCEPTED", "UNKNOWN"}
  /\ \A w \in Tasks : Unsent(w) => accepted[task[w].mail] = 0

(* An administrator's mail takes the slot of one that was never attempted. *)
SlotInv ==
  /\ \A m \in AdminMail : Exists(m) => m \in approved
  /\ "confirmation" \in approved => ~SmtpTried("created")
  /\ "receipt" \in approved => ~SmtpTried("ended") /\ trip = "ENDED"

IInv ==
  /\ TypeOK
  /\ SourceInv /\ TokensInv /\ AttemptInv /\ BlotInv /\ HolderInv
  /\ AcceptedInv /\ SlotInv /\ NoEventIsLost

-----------------------------------------------------------------------------
(***************************************************************************)
(* What the steps do to the task that takes them.                          *)
(***************************************************************************)
Becomes(w, s) ==
  /\ s \in Task /\ task' \in [Tasks -> Task]
  /\ task'[w] = s
  /\ \A u \in Tasks : u # w => task'[u] = task[u]

(* A record of the task's type that a step stores is what the task         *)
(* becomes.                                                                *)
LEMMA Put ==
  ASSUME TypeOK, NEW w \in Tasks, NEW s \in Task, task' = [task EXCEPT ![w] = s]
  PROVE  Becomes(w, s)
  BY DEF TypeOK, Becomes

(* The same, field by field.                                               *)
Turns(w, pc, mail, held, recovery, event, result, todo, redo) ==
  /\ task' \in [Tasks -> Task]
  /\ \A u \in Tasks : u # w => task'[u] = task[u]
  /\ LET s == task'[w]
     IN  /\ s.pc = pc /\ s.mail = mail /\ s.attempt = held /\ s.recovery = recovery
         /\ s.event = event /\ s.result = result /\ s.todo = todo /\ s.redo = redo

(* The rows that a step writes.                                            *)
EventTurns(e, status, retries) ==
  /\ outbox' \in [EventMail -> OutboxRow]
  /\ \A f \in EventMail : f # e => outbox'[f] = outbox[f]
  /\ outbox'[e].status = status /\ outbox'[e].retries = retries
DeliveryTurns(m, status, attempts, error) ==
  /\ delivery' \in [Mail -> DeliveryRow]
  /\ \A h \in Mail : h # m => delivery'[h] = delivery[h]
  /\ delivery'[m].status = status /\ delivery'[m].attempts = attempts
  /\ delivery'[m].error = error
AttemptTurns(m, n, outcome) ==
  /\ attempt' \in [Mail -> AttemptRow]
  /\ \A h \in Mail : h # m => attempt'[h] = attempt[h]
  /\ attempt'[m].n = n /\ attempt'[m].outcome = outcome

(* A row that a step stores for an event is what the event turns to.       *)
LEMMA PutEvent ==
  ASSUME TypeOK, NEW e \in EventMail, NEW row \in OutboxRow, outbox' = [outbox EXCEPT ![e] = row]
  PROVE  EventTurns(e, row.status, row.retries)
  BY DEF TypeOK, EventTurns

(* So for a delivery.                                                      *)
LEMMA PutDelivery ==
  ASSUME TypeOK, NEW m \in Mail, NEW row \in DeliveryRow,
         delivery' = [delivery EXCEPT ![m] = row]
  PROVE  DeliveryTurns(m, row.status, row.attempts, row.error)
  BY DEF TypeOK, DeliveryTurns

(* So for the latest attempt of a mail.                                    *)
LEMMA PutAttempt ==
  ASSUME TypeOK, NEW m \in Mail, NEW row \in AttemptRow, attempt' = [attempt EXCEPT ![m] = row]
  PROVE  AttemptTurns(m, row.n, row.outcome)
  BY DEF TypeOK, AttemptTurns

(* A step that sets an event's status leaves its retries.                  *)
LEMMA PutEventStatus ==
  ASSUME TypeOK, NEW e \in EventMail,
         NEW status \in {"NONE", "PENDING", "PROCESSING", "COMPLETED", "FAILED"},
         outbox' = [outbox EXCEPT ![e].status = status]
  PROVE  EventTurns(e, status, outbox[e].retries)
<1> DEFINE row == [outbox[e] EXCEPT !.status = status]
<1>1. outbox[e] \in OutboxRow
  BY DEF TypeOK
<1>2. row \in OutboxRow /\ row.status = status /\ row.retries = outbox[e].retries
  BY <1>1 DEF OutboxRow
<1>3. outbox' = [outbox EXCEPT ![e] = row]
  OBVIOUS
<1> HIDE DEF row
<1>4. EventTurns(e, row.status, row.retries)
  BY <1>2, <1>3, PutEvent
<1> QED BY <1>2, <1>4

(* A task that has ended its work is a task.                               *)
LEMMA FreeTyped == Free \in Task
  BY MailAssumption DEF Task, Free, Mail, EventMail

(* So is one that returns from processDelivery.                            *)
LEMMA ReturnTyped == ASSUME NEW t \in Task PROVE Return(t) \in Task
<1>1. CASE t.event
  <2>1. 0 \in 0..MaxSends
    BY MailAssumption
  <2>2. [t EXCEPT !.pc = "complete", !.attempt = 0, !.result = "none"] \in Task
    BY <2>1 DEF Task
  <2> QED BY <1>1, <2>2 DEF Return
<1>2. CASE ~t.event
  <2>1. [Free EXCEPT !.todo = t.todo, !.redo = t.redo] \in Task
    BY FreeTyped DEF Task
  <2> QED BY <1>2, <2>1 DEF Return
<1> QED BY <1>1, <1>2 DEF Task

(* A task that takes an event, with the rows it has claimed.               *)
Takes(t, e) == [t EXCEPT !.pc = "persist", !.mail = e, !.event = TRUE, !.todo = @ \ {e}]
Begins(pc, m) == [Free EXCEPT !.pc = pc, !.mail = m]

Returned(w) ==
  LET t == task[w]
  IN  IF t.event
      THEN Turns(w, "complete", t.mail, 0, t.recovery, TRUE, "none", t.todo, t.redo)
      ELSE Turns(w, "free", "created", 0, FALSE, FALSE, "none", t.todo, t.redo)
Answered(w, r) ==
  LET t == task[w]
  IN  Turns(w, "record", t.mail, t.attempt, t.recovery, t.event, r, t.todo, t.redo)
Proceeds(w) ==
  LET t == task[w]
  IN  Turns(w, "claim", t.mail, t.attempt, t.recovery, t.event, t.result, t.todo, t.redo)
Freed(w, todo) == Turns(w, "free", "created", 0, FALSE, FALSE, "none", todo, {})

(* What returning from processDelivery changes of a task.                  *)
LEMMA ReturnEffect ==
  ASSUME TypeOK, NEW w \in Tasks, task' = [task EXCEPT ![w] = Return(task[w])]
  PROVE  Returned(w)
<1>1. Becomes(w, Return(task[w]))
  BY Put, ReturnTyped DEF TypeOK
<1> QED BY <1>1 DEF Becomes, Turns, Returned, Return, Free, Task, TypeOK

(* What the outcome of a send changes of a task.                           *)
LEMMA AnswerEffect ==
  ASSUME TypeOK, NEW w \in Tasks,
         NEW r \in {"none", "SKIP", "INVALID", "ACCEPTED", "NOT_ACCEPTED", "UNKNOWN"},
         task' = [task EXCEPT ![w] = [task[w] EXCEPT !.pc = "record", !.result = r]]
  PROVE  Answered(w, r)
<1>1. [task[w] EXCEPT !.pc = "record", !.result = r] \in Task
  BY DEF Task, TypeOK
<1>2. Becomes(w, [task[w] EXCEPT !.pc = "record", !.result = r])
  BY <1>1, Put
<1> QED BY <1>2 DEF Becomes, Turns, Answered, Task, TypeOK

(* What the end of its work leaves of a task.                              *)
LEMMA FreeEffect ==
  ASSUME TypeOK, NEW w \in Tasks, task' = [task EXCEPT ![w] = Free]
  PROVE  Freed(w, {})
<1>1. Becomes(w, Free)
  BY Put, FreeTyped
<1> QED BY <1>1 DEF Becomes, Turns, Freed, Free

(* The handler's own dispatch marks its event and goes on to store it.     *)
LEMMA DispatchEffect ==
  ASSUME TypeOK, NEW w \in Tasks, NEW e \in EventMail, Dispatch(w, e),
         outbox[e].status # "COMPLETED"
  PROVE  /\ Turns(w, "persist", e, 0, FALSE, TRUE, "none", {}, {})
         /\ EventTurns(e, "PROCESSING", outbox[e].retries)
<1>1. [Begins("persist", e) EXCEPT !.event = TRUE] \in Task
  BY FreeTyped DEF Task, Mail, Begins
<1>2. task' = [task EXCEPT ![w] = [Begins("persist", e) EXCEPT !.event = TRUE]]
  BY DEF Dispatch, Begins
<1>3. Becomes(w, [Begins("persist", e) EXCEPT !.event = TRUE])
  BY <1>1, <1>2, Put
<1>4. Turns(w, "persist", e, 0, FALSE, TRUE, "none", {}, {})
  BY <1>3 DEF Becomes, Turns, Begins, Free
<1>5. EventTurns(e, "PROCESSING", outbox[e].retries)
  BY PutEventStatus DEF Dispatch
<1> QED BY <1>4, <1>5

(* recoverOutbox marks a batch of claimable events, all of them if they    *)
(* are few.                                                                *)
LEMMA RecoverOutboxEffect ==
  ASSUME TypeOK, NEW w \in Tasks, RecoverOutbox(w)
  PROVE  \E batch \in SUBSET {e \in EventMail : Claimable(e)} :
           /\ \/ Cardinality(batch) = BatchSize
              \/ batch = {e \in EventMail : Claimable(e)}
           /\ outbox' \in [EventMail -> OutboxRow]
           /\ \A e \in EventMail :
                /\ outbox'[e].status = IF e \in batch THEN "PROCESSING" ELSE outbox[e].status
                /\ outbox'[e].retries = outbox[e].retries
           /\ LET t == task[w]
              IN  Turns(w, t.pc, t.mail, t.attempt, t.recovery, t.event, t.result, batch, t.redo)
<1>1. PICK batch \in SUBSET {e \in EventMail : Claimable(e)} :
        /\ \/ Cardinality(batch) = BatchSize
           \/ batch = {e \in EventMail : Claimable(e)}
        /\ outbox' = [e \in EventMail |->
             IF e \in batch THEN [outbox[e] EXCEPT !.status = "PROCESSING"] ELSE outbox[e]]
        /\ task' = [task EXCEPT ![w] = [task[w] EXCEPT !.todo = batch]]
  BY DEF RecoverOutbox
<1>2. [task[w] EXCEPT !.todo = batch] \in Task
  BY DEF Task, TypeOK
<1>3. Becomes(w, [task[w] EXCEPT !.todo = batch])
  BY <1>1, <1>2, Put
<1>4. LET t == task[w]
      IN  Turns(w, t.pc, t.mail, t.attempt, t.recovery, t.event, t.result, batch, t.redo)
  BY <1>3 DEF Becomes, Turns, Task, TypeOK
<1>5. ASSUME NEW e \in EventMail
      PROVE  /\ outbox'[e] \in OutboxRow
             /\ outbox'[e].status = IF e \in batch THEN "PROCESSING" ELSE outbox[e].status
             /\ outbox'[e].retries = outbox[e].retries
  <2>1. outbox[e] \in OutboxRow
    BY DEF TypeOK
  <2>2. [outbox[e] EXCEPT !.status = "PROCESSING"] \in OutboxRow
    BY <2>1 DEF OutboxRow
  <2>3. /\ [outbox[e] EXCEPT !.status = "PROCESSING"].status = "PROCESSING"
        /\ [outbox[e] EXCEPT !.status = "PROCESSING"].retries = outbox[e].retries
    BY <2>1 DEF OutboxRow
  <2> QED BY <1>1, <2>1, <2>2, <2>3
<1>6. outbox' \in [EventMail -> OutboxRow]
  BY <1>1, <1>5
<1> QED BY <1>1, <1>4, <1>5, <1>6

(* recoverDeliveries picks the deliveries that may be sent.                *)
LEMMA RecoverDeliveriesEffect ==
  ASSUME TypeOK, NEW w \in Tasks, RecoverDeliveries(w)
  PROVE  LET t == task[w]
         IN  Turns(w, t.pc, t.mail, t.attempt, t.recovery, t.event, t.result, t.todo,
                   {m \in Mail : Recoverable(m)})
<1> DEFINE R == {m \in Mail : Recoverable(m)}
<1>1. R \in SUBSET Mail
  OBVIOUS
<1>2. task' = [task EXCEPT ![w] = [task[w] EXCEPT !.redo = R]]
  BY DEF RecoverDeliveries
<1> HIDE DEF R
<1>3. [task[w] EXCEPT !.redo = R] \in Task
  BY <1>1 DEF Task, TypeOK
<1>4. Becomes(w, [task[w] EXCEPT !.redo = R])
  BY <1>2, <1>3, Put
<1>5. LET t == task[w]
      IN  Turns(w, t.pc, t.mail, t.attempt, t.recovery, t.event, t.result, t.todo, R)
  BY <1>4 DEF Becomes, Turns, Task, TypeOK
<1> QED BY <1>5 DEF R

(* The outbox recovery goes on to one event of its batch.                  *)
LEMMA NextRowEffect ==
  ASSUME TypeOK, NEW w \in Tasks, NextRow(w)
  PROVE  LET t == task[w]
         IN  \E e \in t.todo :
               Turns(w, "persist", e, t.attempt, t.recovery, TRUE, t.result, t.todo \ {e}, t.redo)
<1>1. ASSUME NEW e \in task[w].todo,
             task' = [task EXCEPT ![w] = [task[w] EXCEPT !.pc = "persist", !.mail = e,
                                                   !.event = TRUE, !.todo = @ \ {e}]]
      PROVE  LET t == task[w]
             IN  Turns(w, "persist", e, t.attempt, t.recovery, TRUE, t.result, t.todo \ {e}, t.redo)
  <2>1. Takes(task[w], e) \in Task
    BY DEF Task, Mail, TypeOK, Takes
  <2>2. task' = [task EXCEPT ![w] = Takes(task[w], e)]
    BY <1>1 DEF Takes
  <2>3. Becomes(w, Takes(task[w], e))
    BY <2>1, <2>2, Put
  <2> QED BY <2>3 DEF Becomes, Turns, Takes, Task, TypeOK
<1> QED BY <1>1 DEF NextRow

(* The delivery recovery goes on to one delivery it picked.                *)
LEMMA NextDeliveryEffect ==
  ASSUME TypeOK, NEW w \in Tasks, NextDelivery(w)
  PROVE  LET t == task[w]
         IN  \E m \in t.redo :
               Turns(w, "load", m, t.attempt, t.recovery, t.event, t.result, t.todo, t.redo \ {m})
<1>1. ASSUME NEW m \in task[w].redo,
             task' = [task EXCEPT ![w] =
                        [task[w] EXCEPT !.pc = "load", !.mail = m, !.redo = @ \ {m}]]
      PROVE  LET t == task[w]
             IN  Turns(w, "load", m, t.attempt, t.recovery, t.event, t.result, t.todo, t.redo \ {m})
  <2> DEFINE s == [task[w] EXCEPT !.pc = "load", !.mail = m, !.redo = @ \ {m}]
  <2>1. s \in Task
    BY DEF Task, TypeOK
  <2>2. task' = [task EXCEPT ![w] = s]
    BY <1>1
  <2>3. Becomes(w, s)
    BY <2>1, <2>2, Put
  <2> QED BY <2>3 DEF Becomes, Turns, Task, TypeOK
<1> QED BY <1>1 DEF NextDelivery

(* Storing an event's notification: there is one already, or it is         *)
(* PENDING.                                                                *)
LEMMA PersistEffect ==
  ASSUME TypeOK, NEW w \in Tasks, Persist(w)
  PROVE  LET t == task[w]
         IN  /\ Turns(w, IF Exists(t.mail) THEN "complete" ELSE "load", t.mail, t.attempt,
                      t.recovery, t.event, t.result, t.todo, t.redo)
             /\ IF Exists(t.mail) THEN delivery' = delivery
                ELSE DeliveryTurns(t.mail, "PENDING", 0, "none")
<1>1. task' = [task EXCEPT ![w] =
                [task[w] EXCEPT !.pc = IF Exists(task[w].mail) THEN "complete" ELSE "load"]]
  BY DEF Persist
<1> DEFINE pc == IF Exists(task[w].mail) THEN "complete" ELSE "load"
<1>2. pc \in {"complete", "load"}
  OBVIOUS
<1> HIDE DEF pc
<1>3. [task[w] EXCEPT !.pc = pc] \in Task
  BY <1>2 DEF Task, TypeOK
<1>4. Becomes(w, [task[w] EXCEPT !.pc = pc])
  BY <1>1, <1>3, Put DEF pc
<1>5. LET t == task[w]
      IN  Turns(w, pc, t.mail, t.attempt, t.recovery, t.event, t.result, t.todo, t.redo)
  BY <1>4 DEF Becomes, Turns, Task, TypeOK
<1>6. NewRow \in DeliveryRow /\ task[w].mail \in Mail
  BY DEF NewRow, DeliveryRow, TypeOK, Task
<1>7. CASE ~Exists(task[w].mail)
  <2>1. delivery' = [delivery EXCEPT ![task[w].mail] = NewRow]
    BY <1>7 DEF Persist
  <2>2. DeliveryTurns(task[w].mail, NewRow.status, NewRow.attempts, NewRow.error)
    BY <1>6, <2>1, PutDelivery
  <2> QED BY <1>5, <1>7, <2>2 DEF pc, NewRow
<1>8. CASE Exists(task[w].mail)
  BY <1>5, <1>8 DEF pc, Persist
<1> QED BY <1>7, <1>8

(* What a delivery must be like to be processed.                           *)
Open(m) ==
  /\ delivery[m].status \notin {"DELIVERED", "SKIPPED"}
  /\ delivery[m].error \notin PermanentErrors

(* A delivery loaded is done with, refused for its booking, or goes on.    *)
LEMMA LoadEffect ==
  ASSUME TypeOK, NEW w \in Tasks, Load(w)
  PROVE  \/ Returned(w)
         \/ Open(task[w].mail) /\ Answered(w, "SKIP")
         \/ Open(task[w].mail) /\ task[w].mail \in EventMail /\ Answered(w, "INVALID")
         \/ Open(task[w].mail) /\ Proceeds(w)
<1> DEFINE s == [task[w] EXCEPT !.pc = "claim"]
<1>1. s \in Task
  BY DEF Task, TypeOK
<1>2. \/ task' = [task EXCEPT ![w] = Return(task[w])]
      \/ /\ Open(task[w].mail)
         /\ task' = [task EXCEPT ![w] = [task[w] EXCEPT !.pc = "record", !.result = "SKIP"]]
      \/ /\ Open(task[w].mail) /\ task[w].mail \in EventMail
         /\ task' = [task EXCEPT ![w] = [task[w] EXCEPT !.pc = "record", !.result = "INVALID"]]
      \/ Open(task[w].mail) /\ task' = [task EXCEPT ![w] = s]
  BY DEF Load, Open
<1>3. ASSUME task' = [task EXCEPT ![w] = s]
      PROVE  Proceeds(w)
  <2>1. Becomes(w, s)
    BY <1>1, <1>3, Put
  <2> QED BY <2>1 DEF Becomes, Turns, Proceeds, Task, TypeOK
<1> HIDE DEF s
<1> QED BY <1>2, <1>3, ReturnEffect, AnswerEffect

(* An approved retry goes straight to the reservation.                     *)
LEMMA ApproveRetryEffect ==
  ASSUME TypeOK, NEW w \in Tasks, NEW m \in Mail, ApproveRetry(w, m)
  PROVE  Turns(w, "claim", m, attempt[m].n, TRUE, FALSE, "none", {}, {})
<1>1. attempt[m].n \in 0..MaxSends
  BY DEF TypeOK, AttemptRow
<1>2. [Begins("claim", m) EXCEPT !.recovery = TRUE, !.attempt = attempt[m].n] \in Task
  BY <1>1, FreeTyped DEF Task, Begins
<1>3. task' = [task EXCEPT ![w] =
                [Begins("claim", m) EXCEPT !.recovery = TRUE, !.attempt = attempt[m].n]]
  BY DEF ApproveRetry, Begins
<1>4. Becomes(w, [Begins("claim", m) EXCEPT !.recovery = TRUE, !.attempt = attempt[m].n])
  BY <1>2, <1>3, Put
<1> QED BY <1>4 DEF Becomes, Turns, Begins, Free

(* An administrator's mail: the deliveries it takes the place of.          *)
LEMMA SupersedeEffect ==
  ASSUME TypeOK, NEW m \in AdminMail, Supersede(m)
  PROVE  /\ delivery' \in [Mail -> DeliveryRow]
         /\ \A h \in Mail \ {m} :
              \/ delivery'[h] = delivery[h]
              \/ /\ delivery[h].status # "NONE" /\ ~SmtpTried(h)
                 /\ delivery'[h].status = "SKIPPED" /\ delivery'[h].error = "POLICY"
                 /\ delivery'[h].attempts = delivery[h].attempts
         /\ delivery'[m].status = "PENDING" /\ delivery'[m].attempts = 0
         /\ delivery'[m].error = "none"
<1> DEFINE G(h) ==
      IF h = m THEN NewRow
      ELSE IF /\ delivery[h].status \notin {"NONE", "DELIVERED"}
              /\ ~SmtpTried(h)
              /\ IF m = "confirmation" THEN h \in Opening
                 ELSE delivery[h].attempts = 0 \/ delivery[h].error \in {"INVALID_RECIPIENT", "POLICY"}
      THEN [delivery[h] EXCEPT !.status = "SKIPPED", !.error = "POLICY"]
      ELSE delivery[h]
<1>1. m \in Mail /\ NewRow \in DeliveryRow
  BY DEF AdminMail, Mail, NewRow, DeliveryRow
<1>4. delivery' = [h \in Mail |-> G(h)]
  BY DEF Supersede
<1>2. /\ DOMAIN delivery' = Mail
      /\ \A h \in Mail :
           \/ h = m /\ delivery'[h] = NewRow
           \/ h # m /\ delivery'[h] = delivery[h]
           \/ /\ h # m /\ delivery[h].status # "NONE" /\ ~SmtpTried(h)
              /\ delivery'[h] = [delivery[h] EXCEPT !.status = "SKIPPED", !.error = "POLICY"]
  BY DEF Supersede
<1>3. ASSUME NEW h \in Mail
      PROVE  /\ [delivery[h] EXCEPT !.status = "SKIPPED", !.error = "POLICY"] \in DeliveryRow
             /\ [delivery[h] EXCEPT !.status = "SKIPPED", !.error = "POLICY"].status = "SKIPPED"
             /\ [delivery[h] EXCEPT !.status = "SKIPPED", !.error = "POLICY"].error = "POLICY"
             /\ [delivery[h] EXCEPT !.status = "SKIPPED", !.error = "POLICY"].attempts =
                  delivery[h].attempts
  BY DEF TypeOK, DeliveryRow
<1>5. \A h \in Mail : delivery'[h] \in DeliveryRow
  BY <1>1, <1>2, <1>3 DEF TypeOK
<1>6. delivery' \in [Mail -> DeliveryRow]
  <2> HIDE DEF G
  <2>1. \A h \in Mail : G(h) \in DeliveryRow
    BY <1>4, <1>5
  <2> QED BY <1>4, <2>1
<1>7. delivery'[m] = NewRow
  BY <1>1, <1>2
<1>8. ASSUME NEW h \in Mail \ {m}
      PROVE  \/ delivery'[h] = delivery[h]
             \/ /\ delivery[h].status # "NONE" /\ ~SmtpTried(h)
                /\ delivery'[h].status = "SKIPPED" /\ delivery'[h].error = "POLICY"
                /\ delivery'[h].attempts = delivery[h].attempts
  <2> DEFINE row == [delivery[h] EXCEPT !.status = "SKIPPED", !.error = "POLICY"]
  <2>1. /\ row.status = "SKIPPED" /\ row.error = "POLICY"
        /\ row.attempts = delivery[h].attempts
    BY <1>3
  <2>2. \/ delivery'[h] = delivery[h]
        \/ delivery[h].status # "NONE" /\ ~SmtpTried(h) /\ delivery'[h] = row
    BY <1>2
  <2> HIDE DEF row
  <2> QED BY <2>1, <2>2
<1> QED BY <1>6, <1>7, <1>8 DEF NewRow

(* A mail that the office sends starts with its delivery row.              *)
LEMMA SendMailEffect ==
  ASSUME TypeOK, NEW w \in Tasks, NEW m \in AdminMail,
         task' = [task EXCEPT ![w] = [Free EXCEPT !.pc = "load", !.mail = m]]
  PROVE  Turns(w, "load", m, 0, FALSE, FALSE, "none", {}, {})
<1>1. Begins("load", m) \in Task
  BY FreeTyped DEF Task, Mail, Begins
<1>2. Becomes(w, Begins("load", m))
  BY <1>1, Put DEF Begins
<1> QED BY <1>2 DEF Becomes, Turns, Begins, Free

(* A claim either reserves an attempt, or leaves the tables alone.         *)
Reserves(w) ==
  LET m == task[w].mail
  IN  /\ ~Superseded(m)
      /\ delivery[m].status \notin {"DELIVERED", "SKIPPED"}
      /\ IF task[w].recovery
         THEN attempt[m].n = task[w].attempt /\ CanRecover(m)
         ELSE delivery[m].error \notin MailErrors
      /\ ~SlotUsed(m, task[w].recovery)
      /\ AttemptTurns(m, attempt[m].n + 1, "SENDING")
      /\ DeliveryTurns(m, delivery[m].status,
           IF delivery[m].attempts < 3 THEN delivery[m].attempts + 1 ELSE delivery[m].attempts,
           "RESERVED")
      /\ LET t == task[w]
         IN  Turns(w, "reserved", m, attempt[m].n + 1, t.recovery, t.event, t.result,
                   t.todo, t.redo)
Refuses(w) ==
  /\ UNCHANGED <<delivery, attempt>>
  /\ \/ task[w].recovery /\ Freed(w, {})
     \/ ~task[w].recovery /\ Answered(w, "SKIP")
     \/ ~task[w].recovery /\ Returned(w)

(* An automatic send is the first of its delivery.                         *)
LEMMA AutomaticIsFirst ==
  ASSUME IInv, NEW w \in Tasks, task[w].pc = "claim", ~task[w].recovery,
         delivery[task[w].mail].status \notin {"DELIVERED", "SKIPPED"},
         delivery[task[w].mail].error \notin MailErrors,
         ~SlotUsed(task[w].mail, task[w].recovery)
  PROVE  ~SmtpTried(task[w].mail)
<1> DEFINE m == task[w].mail
<1> SUFFICES ASSUME SmtpTried(m) PROVE FALSE
  OBVIOUS
<1>1. m \in Mail
  BY DEF IInv, TypeOK, Task
<1>2. delivery[m].error # "INVALID_RECIPIENT"
  BY <1>1 DEF IInv, BlotInv, Blotted, Automatic
<1>3. Exists(m) /\ delivery[m].attempts > 0
  BY <1>1 DEF IInv, AttemptInv, Marked
<1>4. MayHaveReached(m)
  BY <1>2, <1>3 DEF MayHaveReached
<1> QED BY <1>1, <1>4 DEF SlotUsed

(* A reservation is made, or refused for what the row shows.               *)
LEMMA ClaimEffect ==
  ASSUME IInv, NEW w \in Tasks, Claim(w)
  PROVE  Reserves(w) \/ Refuses(w)
<1> DEFINE m == task[w].mail
           s == [task[w] EXCEPT !.pc = "reserved", !.attempt = attempt[m].n + 1]
<1>t. TypeOK /\ task[w] \in Task /\ m \in Mail /\ task[w].pc = "claim"
  BY DEF IInv, TypeOK, Task, Claim, At
<1>1. CASE /\ ~Superseded(m)
           /\ delivery[m].status \notin {"DELIVERED", "SKIPPED"}
           /\ task[w].recovery \/ delivery[m].error \notin MailErrors
           /\ task[w].recovery => attempt[m].n = task[w].attempt /\ CanRecover(m)
           /\ ~SlotUsed(m, task[w].recovery)
  <2>1. /\ attempt' = [attempt EXCEPT ![m] =
             [n |-> attempt[m].n + 1, outcome |-> "SENDING", envelope |-> task[w].recovery]]
        /\ delivery' = [delivery EXCEPT ![m] =
             [delivery[m] EXCEPT !.attempts = IF @ < 3 THEN @ + 1 ELSE @, !.error = "RESERVED"]]
        /\ task' = [task EXCEPT ![w] =
             [task[w] EXCEPT !.pc = "reserved", !.attempt = attempt'[m].n]]
    BY <1>1 DEF Claim
  <2>2. attempt \in [Mail -> AttemptRow]
    BY <1>t DEF TypeOK
  <2>3. attempt'[m].n = attempt[m].n + 1
    BY <1>t, <2>1, <2>2
  <2>4. attempt[m].n < MaxSends
    <3>1. CASE task[w].recovery
      BY <1>1, <3>1, <1>t DEF IInv, SourceInv, Sound, Shape
    <3>2. CASE ~task[w].recovery
      <4>1. ~SmtpTried(m)
        BY <1>1, <3>2, <1>t, AutomaticIsFirst
      <4> QED BY <4>1, <2>2, <1>t, MailAssumption DEF SmtpTried, AttemptRow
    <3> QED BY <3>1, <3>2
  <2>5. attempt[m].n + 1 \in 0..MaxSends
    BY <2>2, <2>4, <1>t, MailAssumption DEF AttemptRow
  <2>6. s \in Task
    BY <2>5, <1>t DEF Task
  <2>7. task' = [task EXCEPT ![w] = s]
    BY <2>1, <2>3
  <2>8. Becomes(w, s)
    BY <2>6, <2>7, <1>t, Put
  <2>9. LET t == task[w]
        IN  Turns(w, "reserved", m, attempt[m].n + 1, t.recovery, t.event, t.result,
                  t.todo, t.redo)
    BY <2>8, <1>t DEF Becomes, Turns, Task
  <2> DEFINE sent == [n |-> attempt[m].n + 1, outcome |-> "SENDING", envelope |-> task[w].recovery]
             n == IF delivery[m].attempts < 3 THEN delivery[m].attempts + 1
                  ELSE delivery[m].attempts
             row == [delivery[m] EXCEPT !.attempts = n, !.error = "RESERVED"]
  <2>10. AttemptTurns(m, attempt[m].n + 1, "SENDING")
    <3>1. sent \in AttemptRow
      BY <2>5, <1>t DEF AttemptRow, Task
    <3>2. AttemptTurns(m, sent.n, sent.outcome)
      BY <3>1, <2>1, <1>t, PutAttempt
    <3> QED BY <3>2
  <2>11. DeliveryTurns(m, delivery[m].status, n, "RESERVED")
    <3>1. delivery[m] \in DeliveryRow
      BY <1>t DEF TypeOK
    <3>2. n \in 0..3
      BY <3>1 DEF DeliveryRow
    <3>3. delivery' = [delivery EXCEPT ![m] = row]
      BY <2>1
    <3> HIDE DEF n
    <3>4. /\ row \in DeliveryRow /\ row.status = delivery[m].status /\ row.attempts = n
          /\ row.error = "RESERVED"
      BY <3>1, <3>2 DEF DeliveryRow, PermanentErrors, MailErrors
    <3> HIDE DEF row
    <3>5. DeliveryTurns(m, row.status, row.attempts, row.error)
      BY <3>3, <3>4, <1>t, PutDelivery
    <3> QED BY <3>4, <3>5
  <2> QED BY <1>1, <2>9, <2>10, <2>11 DEF Reserves
<1>2. CASE \/ Superseded(m)
           \/ delivery[m].status \in {"DELIVERED", "SKIPPED"}
           \/ ~task[w].recovery /\ delivery[m].error \in MailErrors
           \/ task[w].recovery /\ ~(attempt[m].n = task[w].attempt /\ CanRecover(m))
           \/ SlotUsed(m, task[w].recovery)
  <2>1. /\ UNCHANGED <<delivery, attempt>>
        /\ \/ task[w].recovery /\ task' = [task EXCEPT ![w] = Free]
           \/ ~task[w].recovery /\ task' = [task EXCEPT ![w] =
                [task[w] EXCEPT !.pc = "record", !.result = "SKIP"]]
           \/ ~task[w].recovery /\ task' = [task EXCEPT ![w] = Return(task[w])]
    BY <1>2 DEF Claim
  <2> QED BY <2>1, <1>t, FreeEffect, ReturnEffect, AnswerEffect DEF Refuses
<1> QED BY <1>1, <1>2 DEF IInv

(* A reservation that fails leaves an unknown outcome, in recovery         *)
(* nothing.                                                                *)
LEMMA ClaimFailsEffect ==
  ASSUME TypeOK, NEW w \in Tasks, ClaimFails(w)
  PROVE  \/ task[w].recovery /\ Freed(w, {})
         \/ ~task[w].recovery /\ Answered(w, "UNKNOWN")
<1>1. \/ task[w].recovery /\ task' = [task EXCEPT ![w] = Free]
      \/ ~task[w].recovery /\ task' = [task EXCEPT ![w] =
           [task[w] EXCEPT !.pc = "record", !.result = "UNKNOWN"]]
  BY DEF ClaimFails
<1> QED BY <1>1, FreeEffect, AnswerEffect

(* A send: nothing was handed to the mail server, or it was while the      *)
(* attempt is the one under way.                                           *)
Sends(w) ==
  LET m == task[w].mail
  IN  /\ attempt[m].n = task[w].attempt /\ attempt[m].outcome = "SENDING"
      /\ AttemptTurns(m, attempt[m].n, "SENDING")
      /\ \E r \in Answers :
           /\ Answered(w, r)
           /\ \/ accepted' = accepted
              \/ r # "NOT_ACCEPTED" /\ accepted' = [accepted EXCEPT ![m] = @ + 1]

(* A send has an unknown outcome, or the mail server has taken the mail.   *)
LEMMA SendEffect ==
  ASSUME TypeOK, NEW w \in Tasks, Send(w)
  PROVE  \/ Answered(w, "UNKNOWN") /\ UNCHANGED <<attempt, accepted>>
         \/ Sends(w)
<1> DEFINE m == task[w].mail
           Sent(r) == task' = [task EXCEPT ![w] = [task[w] EXCEPT !.pc = "record", !.result = r]]
<1>1. CASE Sent("UNKNOWN") /\ UNCHANGED <<attempt, accepted>>
  BY <1>1, AnswerEffect
<1>2. CASE /\ attempt[m].n = task[w].attempt /\ attempt[m].outcome = "SENDING"
           /\ attempt' = [attempt EXCEPT ![m].envelope = TRUE]
           /\ \E taken \in BOOLEAN :
                \E r \in {"UNKNOWN", IF taken THEN "ACCEPTED" ELSE "NOT_ACCEPTED"} :
                  /\ accepted' = [accepted EXCEPT ![m] = IF taken THEN @ + 1 ELSE @]
                  /\ Sent(r)
  <2>0. PICK taken \in BOOLEAN :
          \E r \in {"UNKNOWN", IF taken THEN "ACCEPTED" ELSE "NOT_ACCEPTED"} :
            /\ accepted' = [accepted EXCEPT ![m] = IF taken THEN @ + 1 ELSE @]
            /\ Sent(r)
    BY <1>2
  <2>1. PICK r \in {"UNKNOWN", IF taken THEN "ACCEPTED" ELSE "NOT_ACCEPTED"} :
          /\ accepted' = [accepted EXCEPT ![m] = IF taken THEN @ + 1 ELSE @]
          /\ Sent(r)
    BY <2>0
  <2>2. r \in Answers /\ (taken => r # "NOT_ACCEPTED")
    BY <2>1 DEF Answers
  <2>3. Answered(w, r)
    BY <2>1, <2>2, AnswerEffect DEF Answers
  <2> DEFINE row == [attempt[m] EXCEPT !.envelope = TRUE]
  <2>6. attempt[m] \in AttemptRow /\ m \in Mail
    BY DEF TypeOK, Task
  <2>7. row \in AttemptRow /\ row.n = attempt[m].n /\ row.outcome = attempt[m].outcome
    BY <2>6 DEF AttemptRow
  <2>8. attempt' = [attempt EXCEPT ![m] = row]
    BY <1>2
  <2> HIDE DEF row
  <2>9. AttemptTurns(m, attempt[m].n, "SENDING")
    <3>1. row.outcome = "SENDING"
      BY <1>2, <2>7
    <3>2. AttemptTurns(m, row.n, row.outcome)
      BY <2>6, <2>7, <2>8, PutAttempt
    <3> QED BY <2>7, <3>1, <3>2
  <2>4. CASE taken
    BY <1>2, <2>1, <2>2, <2>3, <2>4, <2>9 DEF Sends
  <2>5. CASE ~taken
    <3>1. accepted' = accepted
      BY <2>1, <2>5 DEF TypeOK
    <3> QED BY <1>2, <2>2, <2>3, <2>9, <3>1 DEF Sends
  <2> QED BY <2>4, <2>5
<1> QED BY <1>1, <1>2 DEF Send

(* The task returns, whether the outcome could be recorded or not.         *)
LEMMA ReturnsEffect ==
  ASSUME TypeOK, NEW w \in Tasks, Record(w) \/ RecordFails(w)
  PROVE  Returned(w)
<1>1. task' = [task EXCEPT ![w] = Return(task[w])]
  BY DEF Record, RecordFails
<1> QED BY <1>1, ReturnEffect

(* The outcome is recorded in the attempt it belongs to and in the         *)
(* delivery.                                                               *)
LEMMA RecordEffect ==
  ASSUME TypeOK, SourceInv, NEW w \in Tasks, Record(w)
  PROVE  LET m == task[w].mail
             r == task[w].result
             held == task[w].attempt
         IN  /\ Returned(w)
             /\ AttemptTurns(m, attempt[m].n,
                  IF held > 0 /\ held = attempt[m].n /\ attempt[m].outcome = "SENDING"
                  THEN r ELSE attempt[m].outcome)
             /\ DeliveryTurns(m, StatusOf(r),
                  IF held = 0 /\ delivery[m].attempts < 3 THEN delivery[m].attempts + 1
                  ELSE delivery[m].attempts, ErrorOf(r))
<1> DEFINE m == task[w].mail
           r == task[w].result
           o == IF task[w].attempt > 0 /\ task[w].attempt = attempt[m].n
                     /\ attempt[m].outcome = "SENDING"
                THEN r ELSE attempt[m].outcome
           s == IF task[w].attempt = 0 /\ delivery[m].attempts < 3
                THEN delivery[m].attempts + 1 ELSE delivery[m].attempts
           row == [status |-> StatusOf(r), error |-> ErrorOf(r), attempts |-> s]
           last == [attempt[m] EXCEPT !.outcome = o]
<1>1. m \in Mail /\ attempt[m] \in AttemptRow /\ delivery[m] \in DeliveryRow
  BY DEF TypeOK, Task
<1>2. attempt' = [attempt EXCEPT ![m] = last] /\ delivery' = [delivery EXCEPT ![m] = row]
  BY DEF Record
<1>3. o \in {"none", "SENDING", "ACCEPTED", "NOT_ACCEPTED", "UNKNOWN"}
  BY <1>1 DEF TypeOK, SourceInv, Sound, Shape, Record, At, Answers, AttemptRow
<1>4. AttemptTurns(m, attempt[m].n, o)
  <2> HIDE DEF o
  <2>1. last \in AttemptRow /\ last.n = attempt[m].n /\ last.outcome = o
    BY <1>1, <1>3 DEF AttemptRow
  <2> HIDE DEF last
  <2>2. AttemptTurns(m, last.n, last.outcome)
    BY <1>1, <1>2, <2>1, PutAttempt
  <2> QED BY <2>1, <2>2
<1>5. DeliveryTurns(m, StatusOf(r), s, ErrorOf(r))
  <2>1. s \in 0..3
    BY <1>1 DEF DeliveryRow
  <2>2. StatusOf(r) \in {"DELIVERED", "SKIPPED", "FAILED"}
    BY DEF StatusOf
  <2>3. ErrorOf(r) \in PermanentErrors \cup {"none", "POLICY"}
    BY DEF ErrorOf, PermanentErrors, MailErrors
  <2> HIDE DEF s
  <2>4. row \in DeliveryRow
    BY <2>1, <2>2, <2>3 DEF DeliveryRow
  <2>5. DeliveryTurns(m, row.status, row.attempts, row.error)
    BY <1>1, <1>2, <2>4, PutDelivery
  <2> QED BY <2>5
<1> QED BY <1>4, <1>5, ReturnsEffect

(* A task that is through with an event, or gives up its list.             *)
LEMMA DoneEffect ==
  ASSUME TypeOK, NEW w \in Tasks, task' = [task EXCEPT ![w] = [Free EXCEPT !.todo = task[w].todo]]
  PROVE  Freed(w, task[w].todo)
<1>1. [Free EXCEPT !.todo = task[w].todo] \in Task
  BY FreeTyped DEF TypeOK, Task
<1>2. Becomes(w, [Free EXCEPT !.todo = task[w].todo])
  BY <1>1, Put
<1> QED BY <1>2 DEF Becomes, Turns, Freed, Free

(* An event is marked completed by the task that holds it.                 *)
LEMMA MarkCompletedEffect ==
  ASSUME TypeOK, SourceInv, NEW w \in Tasks, MarkCompleted(w)
  PROVE  /\ task[w].mail \in EventMail
         /\ EventTurns(task[w].mail, "COMPLETED", outbox[task[w].mail].retries)
         /\ Freed(w, task[w].todo)
<1>1. task[w].mail \in EventMail
  BY DEF SourceInv, Sound, Shape, MarkCompleted, At
<1> QED BY <1>1, PutEventStatus, DoneEffect DEF MarkCompleted

(* A failed query gives the event back, or fails it after its retries.     *)
LEMMA ThrowEffect ==
  ASSUME TypeOK, SourceInv, NEW w \in Tasks, Throw(w)
  PROVE  \/ /\ task[w].event /\ task[w].mail \in EventMail
            /\ \E status \in {"FAILED", "PENDING"} :
                 EventTurns(task[w].mail, status, outbox[task[w].mail].retries + 1)
            /\ Freed(w, task[w].todo)
         \/ ~task[w].event /\ Freed(w, {}) /\ outbox' = outbox
<1>1. CASE task[w].event
  <2> DEFINE e == task[w].mail
             row == MarkFailed(outbox[e])
  <2>1. e \in EventMail
    BY <1>1 DEF SourceInv, Sound, Shape
  <2>2. outbox[e].retries + 1 \in Nat
    BY <2>1 DEF TypeOK, OutboxRow
  <2>3. /\ row \in OutboxRow /\ row.status \in {"FAILED", "PENDING"}
        /\ row.retries = outbox[e].retries + 1
    BY <2>2 DEF MarkFailed, OutboxRow
  <2>4. outbox' = [outbox EXCEPT ![e] = row]
    BY <1>1 DEF Throw
  <2> HIDE DEF row
  <2>5. EventTurns(e, row.status, row.retries)
    BY <2>1, <2>3, <2>4, PutEvent
  <2>6. task' = [task EXCEPT ![w] = [Free EXCEPT !.todo = task[w].todo]]
    BY <1>1 DEF Throw
  <2> QED BY <1>1, <2>1, <2>3, <2>5, <2>6, DoneEffect
<1>2. CASE ~task[w].event
  BY <1>2, FreeEffect DEF Throw
<1> QED BY <1>1, <1>2

(* An event published is PENDING, and its handler will dispatch it.        *)
LEMMA PublishEffect ==
  ASSUME TypeOK, NEW e \in EventMail, Publish(e)
  PROVE  /\ EventTurns(e, "PENDING", outbox[e].retries)
         /\ server' \in Server
         /\ server'.dispatch = server.dispatch \cup {e} /\ server'.up = server.up
         /\ server'.outboxDue = server.outboxDue
         /\ server'.deliveriesDue = server.deliveriesDue
  BY PutEventStatus DEF Publish, TypeOK, Server

(* After a crash no task has work left, and the server is down.            *)
LEMMA CrashEffect ==
  ASSUME TypeOK, Crash
  PROVE  /\ task' \in [Tasks -> Task] /\ \A w \in Tasks : task'[w] = Free
         /\ ~server'.up /\ server'.dispatch = {} /\ ~server'.deliveriesDue
         /\ server' \in Server
<1>1. server.faults + 1 \in 0..MaxFaults
  BY MailAssumption DEF Crash, TypeOK, Server
<1> QED BY <1>1, FreeTyped DEF Crash, Server
(* Every row and every task keeps its type.                                *)
LEMMA TypeStep == ASSUME IInv, [Next]_vars PROVE TypeOK'
<1>0. IInv /\ TypeOK /\ SourceInv
  BY DEF IInv
<1>1. ASSUME EndTrip PROVE TypeOK'
  BY <1>0, <1>1, PublishEffect DEF EndTrip, EventTurns, EventMail, TypeOK,
     bookingVars, tables
<1>2. ASSUME Cancel PROVE TypeOK'
  BY <1>0, <1>2, PublishEffect DEF Cancel, EventTurns, EventMail, TypeOK,
     bookingVars, tables
<1>3. ASSUME EditAddress PROVE TypeOK'
  BY <1>0, <1>3 DEF EditAddress, TypeOK, bookingVars, tables
<1>4. ASSUME NEW m \in Mail, ConfirmAccepted(m) PROVE TypeOK'
  BY <1>0, <1>4 DEF ConfirmAccepted, TypeOK, bookingVars, tables
<1>5. ASSUME NEW w \in Tasks, RecoverOutbox(w) PROVE TypeOK'
  <2>1. server' \in Server
    BY <1>0, <1>5, MailAssumption DEF RecoverOutbox, TypeOK, Server
  <2> QED BY <1>0, <1>5, <2>1, RecoverOutboxEffect DEF RecoverOutbox, Turns,
     TypeOK, bookingVars, tables
<1>6. ASSUME NEW w \in Tasks, RecoverDeliveries(w) PROVE TypeOK'
  <2>1. server' \in Server
    BY <1>0, <1>6, MailAssumption DEF RecoverDeliveries, TypeOK, Server
  <2> QED BY <1>0, <1>6, <2>1, RecoverDeliveriesEffect DEF RecoverDeliveries,
     Turns, TypeOK, bookingVars, tables
<1>7. ASSUME NEW w \in Tasks, NEW e \in EventMail, Dispatch(w, e) PROVE TypeOK'
  <2>1. server' \in Server
    BY <1>0, <1>7, MailAssumption DEF Dispatch, TypeOK, Server
  <2> QED BY <1>0, <1>7, <2>1, DispatchEffect DEF Dispatch, Turns, EventTurns,
     TypeOK, bookingVars, tables
<1>8. ASSUME NEW w \in Tasks, NEW m \in Mail, ApproveRetry(w, m) PROVE TypeOK'
  BY <1>0, <1>8, ApproveRetryEffect DEF ApproveRetry, Idle, Turns, TypeOK,
     bookingVars, tables
<1>9. ASSUME NEW w \in Tasks, SendConfirmation(w) PROVE TypeOK'
  BY <1>0, <1>9, SendMailEffect, SupersedeEffect DEF SendConfirmation, Idle,
     Turns, AdminMail, TypeOK, bookingVars, tables
<1>10. ASSUME NEW w \in Tasks, SendReceipt(w) PROVE TypeOK'
  BY <1>0, <1>10, SendMailEffect, SupersedeEffect DEF SendReceipt, Idle, Turns,
     AdminMail, TypeOK, bookingVars, tables
<1>11. ASSUME Crash PROVE TypeOK'
  BY <1>0, <1>11, CrashEffect DEF Crash, TypeOK, bookingVars, tables
<1>12. ASSUME Restart PROVE TypeOK'
  <2>1. server' \in Server
    BY <1>0, <1>12, MailAssumption DEF Restart, TypeOK, Server
  <2> QED BY <1>0, <1>12, <2>1 DEF Restart, TypeOK, bookingVars, tables
<1>13. ASSUME NEW w \in Tasks, NextRow(w) PROVE TypeOK'
  BY <1>0, <1>13, NextRowEffect DEF NextRow, At, Turns, TypeOK, bookingVars,
     tables
<1>14. ASSUME NEW w \in Tasks, NextDelivery(w) PROVE TypeOK'
  BY <1>0, <1>14, NextDeliveryEffect DEF NextDelivery, At, Turns, TypeOK,
     bookingVars, tables
<1>15. ASSUME NEW w \in Tasks, Persist(w) PROVE TypeOK'
  BY <1>0, <1>15, PersistEffect DEF Persist, At, Turns, DeliveryTurns, TypeOK,
     bookingVars, tables
<1>16. ASSUME NEW w \in Tasks, Load(w) PROVE TypeOK'
  BY <1>0, <1>16, LoadEffect DEF Load, At, Turns, Returned, Answered, Proceeds,
     TypeOK, bookingVars, tables
<1>17. ASSUME NEW w \in Tasks, Claim(w) PROVE TypeOK'
  BY <1>0, <1>17, ClaimEffect DEF Claim, At, Turns, Returned, Answered, Freed,
     Reserves, Refuses, AttemptTurns, DeliveryTurns, TypeOK, bookingVars,
     tables
<1>18. ASSUME NEW w \in Tasks, ClaimFails(w) PROVE TypeOK'
  <2>1. server' \in Server
    BY <1>0, <1>18, MailAssumption DEF ClaimFails, Fault, TypeOK, Server
  <2> QED BY <1>0, <1>18, <2>1, ClaimFailsEffect DEF ClaimFails, Fault, Turns,
     Answered, Freed, TypeOK, bookingVars, tables
<1>19. ASSUME NEW w \in Tasks, Send(w) PROVE TypeOK'
  <2>1. task[w].mail \in Mail /\ accepted[task[w].mail] = 0
    BY <1>0, <1>19 DEF Send, At, IInv, AcceptedInv, Unsent, TypeOK, Task
  <2>2. 1 \in 0..MaxSends
    BY MailAssumption
  <2>3. accepted' \in [Mail -> 0..MaxSends]
    <3>1. \/ accepted' = accepted
          \/ accepted' = [accepted EXCEPT ![task[w].mail] = @ + 1]
      BY <1>0, <1>19, SendEffect DEF Sends
    <3> QED BY <1>0, <2>1, <2>2, <3>1 DEF TypeOK
  <2> QED BY <1>0, <1>19, <2>3, SendEffect
     DEF Send, Sends, Turns, Answered, AttemptTurns, TypeOK, bookingVars, tables
<1>20. ASSUME NEW w \in Tasks, Record(w) PROVE TypeOK'
  BY <1>0, <1>20, RecordEffect DEF Record, At, Turns, Returned, AttemptTurns,
     DeliveryTurns, TypeOK, bookingVars, tables
<1>21. ASSUME NEW w \in Tasks, RecordFails(w) PROVE TypeOK'
  <2>1. server' \in Server
    BY <1>0, <1>21, MailAssumption DEF RecordFails, Fault, TypeOK, Server
  <2> QED BY <1>0, <1>21, <2>1, ReturnsEffect DEF RecordFails, Fault, Turns,
     Returned, TypeOK, bookingVars, tables
<1>22. ASSUME NEW w \in Tasks, MarkCompleted(w) PROVE TypeOK'
  BY <1>0, <1>22, MarkCompletedEffect DEF MarkCompleted, At, Turns, Freed,
     EventTurns, TypeOK, bookingVars, tables
<1>23. ASSUME NEW w \in Tasks, Throw(w) PROVE TypeOK'
  <2>1. server' \in Server
    BY <1>0, <1>23, MailAssumption DEF Throw, Fault, TypeOK, Server
  <2> QED BY <1>0, <1>23, <2>1, ThrowEffect DEF Throw, Fault, Turns, Freed,
     EventTurns, TypeOK, bookingVars, tables
<1>24. CASE UNCHANGED vars
  BY <1>0, <1>24 DEF vars, bookingVars, tables, TypeOK
<1> QED
  BY <1>1, <1>2, <1>3, <1>4, <1>5, <1>6, <1>7, <1>8, <1>9, <1>10, <1>11,
     <1>12, <1>13, <1>14, <1>15, <1>16, <1>17, <1>18, <1>19, <1>20, <1>21,
     <1>22, <1>23, <1>24 DEF Next, TaskStep

-----------------------------------------------------------------------------
(***************************************************************************)
(* What holds of the other tasks after a step of one.                      *)
(***************************************************************************)
Kept(w) == \A u \in Tasks : u # w => task'[u] = task[u]

(* What the invariant says of one task.                                    *)
LEMMA OfTask ==
  ASSUME IInv, NEW w \in Tasks
  PROVE  /\ Sound(w) /\ Shape(task[w]) /\ task[w] \in Task /\ task[w].mail \in Mail
  BY DEF IInv, TypeOK, SourceInv, Sound, Task

(* Nothing that was published or stored is taken back.                     *)
Grows ==
  /\ \A m \in Mail : Exists(m) => Exists(m)'
  /\ \A e \in EventMail : Published(e) => Published(e)'

(* What a task relies on stands, if another takes a step that only adds    *)
(* rows.                                                                   *)
LEMMA SoundKept ==
  ASSUME IInv, TypeOK', Grows, NEW u \in Tasks, task'[u] = task[u]
  PROVE  Sound(u)'
<1>1. Sound(u) /\ Shape(task[u]) /\ task[u] \in Task
  BY OfTask
<1>2. Shape(task'[u])
  BY <1>1
<1>3. task[u].event => task[u].mail \in EventMail
  BY <1>1 DEF Shape
<1> QED BY <1>1, <1>2, <1>3 DEF Sound, Grows, Task

(* A task that takes hold of no attempt, while no attempt changes.         *)
LEMMA HolderKept ==
  ASSUME IInv, NEW w \in Tasks, Kept(w),
         \A m \in Mail : attempt'[m].n = attempt[m].n /\ attempt'[m].outcome = attempt[m].outcome,
         Holds(w)' => /\ Holds(w) /\ task'[w].mail = task[w].mail
                      /\ task'[w].attempt = task[w].attempt
  PROVE  HolderInv'
<1>1. \A u \in Tasks : Holds(u)' => /\ Holds(u) /\ task'[u].mail = task[u].mail
                                    /\ task'[u].attempt = task[u].attempt
  BY DEF Kept, Holds
<1>2. HolderInv /\ \A u \in Tasks : task[u].mail \in Mail
  BY OfTask DEF IInv
<1> QED BY <1>1, <1>2 DEF HolderInv, Current

(* One task a token: a step hands on those it has, it makes none.          *)
LEMMA TokensKept ==
  ASSUME IInv, NEW w \in Tasks, Kept(w),
         Stores(w)' => Stores(w) /\ task'[w].mail = task[w].mail,
         Recovers(w)' => Recovers(w),
         server'.deliveriesDue => server.deliveriesDue
  PROVE  TokensInv'
<1>1. \A u \in Tasks : Stores(u)' => Stores(u) /\ task'[u].mail = task[u].mail
  BY DEF Kept, Stores
<1>2. \A u \in Tasks : Recovers(u)' => Recovers(u)
  BY DEF Kept, Recovers
<1>3. TokensInv
  BY DEF IInv
<1> QED BY <1>1, <1>2, <1>3 DEF TokensInv

(* A delivery agrees with its attempt if neither changes.                  *)
LEMMA MarkedKept ==
  ASSUME IInv, NEW m \in Mail, delivery'[m] = delivery[m],
         attempt'[m].n = attempt[m].n, attempt'[m].outcome = attempt[m].outcome
  PROVE  Marked(m)'
<1>1. Marked(m)
  BY DEF IInv, AttemptInv
<1> QED BY <1>1 DEF Marked, SmtpTried, Exists

(* No attempt begins, no address is found missing.                         *)
LEMMA WarnedKept ==
  ASSUME IInv, NEW w \in Tasks, Kept(w),
         \A m \in Mail : attempt'[m].n = attempt[m].n,
         \A m \in Mail : delivery'[m].error = "INVALID_RECIPIENT" => Blotted(m),
         task'[w].pc = "record" /\ task'[w].result = "INVALID" =>
           task[w].pc = "record" /\ task[w].result = "INVALID" /\ task'[w].mail = task[w].mail,
         task'[w].pc = "claim" =>
           \/ task'[w].recovery
           \/ task[w].pc = "claim" /\ ~task[w].recovery /\ task'[w].mail = task[w].mail
  PROVE  BlotInv'
<1>2. \A m \in Mail : Blotted(m)' => Blotted(m)
  BY DEF Kept, Blotted
<1>3. \A m \in Mail : SmtpTried(m)' => SmtpTried(m)
  BY DEF SmtpTried
<1>4. BlotInv
  BY DEF IInv
<1>5. \A u \in Tasks, m \in Mail : Automatic(u, m)' => Automatic(u, m)
  BY DEF Kept, Automatic
<1> QED BY <1>2, <1>3, <1>4, <1>5 DEF BlotInv

(* What the mail server has taken agrees with the attempts if these stand. *)
LEMMA AcceptedKept ==
  ASSUME IInv, NEW w \in Tasks, Kept(w), accepted' = accepted,
         \A m \in Mail : attempt'[m].outcome = attempt[m].outcome,
         Unsent(w)' => Unsent(w) /\ task'[w].mail = task[w].mail
  PROVE  AcceptedInv'
<1>1. \A u \in Tasks : Unsent(u)' => Unsent(u) /\ task'[u].mail = task[u].mail
  BY DEF Kept, Unsent
<1>2. AcceptedInv
  BY DEF IInv
<1> QED BY <1>1, <1>2 DEF AcceptedInv

(* Rows that exist stay.                                                   *)
LEMMA GrowsStep == ASSUME IInv, [Next]_vars PROVE Grows
<1>0. IInv /\ TypeOK /\ SourceInv
  BY DEF IInv
<1>1. ASSUME EndTrip PROVE Grows
  BY <1>0, <1>1, PublishEffect DEF EndTrip, EventTurns, EventMail, Publish,
     Grows, Exists, Published, bookingVars, tables
<1>2. ASSUME Cancel PROVE Grows
  BY <1>0, <1>2, PublishEffect DEF Cancel, EventTurns, EventMail, Publish,
     Grows, Exists, Published, bookingVars, tables
<1>3. ASSUME EditAddress PROVE Grows
  BY <1>0, <1>3 DEF EditAddress, Grows, Exists, Published, bookingVars, tables
<1>4. ASSUME NEW m \in Mail, ConfirmAccepted(m) PROVE Grows
  BY <1>0, <1>4 DEF ConfirmAccepted, Grows, Exists, Published, bookingVars,
     tables
<1>5. ASSUME NEW w \in Tasks, RecoverOutbox(w) PROVE Grows
  BY <1>0, <1>5, RecoverOutboxEffect DEF RecoverOutbox, Idle, Turns, Grows,
     Exists, Published, bookingVars, tables
<1>6. ASSUME NEW w \in Tasks, RecoverDeliveries(w) PROVE Grows
  BY <1>0, <1>6, RecoverDeliveriesEffect DEF RecoverDeliveries, Idle, Turns,
     Grows, Exists, Published, bookingVars, tables
<1>7. ASSUME NEW w \in Tasks, NEW e \in EventMail, Dispatch(w, e) PROVE Grows
  BY <1>0, <1>7, DispatchEffect DEF Dispatch, Idle, Turns, EventTurns, Grows,
     Exists, Published, bookingVars, tables
<1>8. ASSUME NEW w \in Tasks, NEW m \in Mail, ApproveRetry(w, m) PROVE Grows
  BY <1>0, <1>8, ApproveRetryEffect DEF ApproveRetry, Idle, Turns, Grows,
     Exists, Published, bookingVars, tables
<1>9. ASSUME NEW w \in Tasks, SendConfirmation(w) PROVE Grows
  BY <1>0, <1>9, SendMailEffect, SupersedeEffect DEF SendConfirmation, Idle,
     Turns, AdminMail, EventMail, Grows, Exists, Published, bookingVars,
     tables
<1>10. ASSUME NEW w \in Tasks, SendReceipt(w) PROVE Grows
  BY <1>0, <1>10, SendMailEffect, SupersedeEffect DEF SendReceipt, Idle, Turns,
     AdminMail, EventMail, Grows, Exists, Published, bookingVars, tables
<1>11. ASSUME Crash PROVE Grows
  BY <1>0, <1>11, CrashEffect DEF Crash, Free, Grows, Exists, Published,
     bookingVars, tables
<1>12. ASSUME Restart PROVE Grows
  BY <1>0, <1>12 DEF Restart, Grows, Exists, Published, bookingVars, tables
<1>13. ASSUME NEW w \in Tasks, NextRow(w) PROVE Grows
  BY <1>0, <1>13, NextRowEffect DEF NextRow, At, Turns, Grows, Exists,
     Published, bookingVars, tables
<1>14. ASSUME NEW w \in Tasks, NextDelivery(w) PROVE Grows
  BY <1>0, <1>14, NextDeliveryEffect DEF NextDelivery, At, Turns, Grows,
     Exists, Published, bookingVars, tables
<1>15. ASSUME NEW w \in Tasks, Persist(w) PROVE Grows
  BY <1>0, <1>15, PersistEffect DEF Persist, At, Turns, DeliveryTurns, Grows,
     Exists, Published, bookingVars, tables
<1>16. ASSUME NEW w \in Tasks, Load(w) PROVE Grows
  BY <1>0, <1>16, LoadEffect DEF Load, At, Turns, Returned, Answered, Proceeds,
     Grows, Exists, Published, bookingVars, tables
<1>17. ASSUME NEW w \in Tasks, Claim(w) PROVE Grows
  BY <1>0, <1>17, ClaimEffect DEF Claim, At, Turns, Returned, Answered, Freed,
     Reserves, Refuses, AttemptTurns, DeliveryTurns, Grows, Exists, Published,
     bookingVars, tables
<1>18. ASSUME NEW w \in Tasks, ClaimFails(w) PROVE Grows
  BY <1>0, <1>18, ClaimFailsEffect DEF ClaimFails, At, Fault, Turns, Answered,
     Freed, Grows, Exists, Published, bookingVars, tables
<1>19. ASSUME NEW w \in Tasks, Send(w) PROVE Grows
  BY <1>0, <1>19, SendEffect DEF Send, At, Turns, Answered, Sends,
     AttemptTurns, Answers, Grows, Exists, Published, bookingVars, tables
<1>20. ASSUME NEW w \in Tasks, Record(w) PROVE Grows
  BY <1>0, <1>20, RecordEffect DEF Record, At, Turns, Returned, AttemptTurns,
     DeliveryTurns, StatusOf, Grows, Exists, Published, bookingVars, tables
<1>21. ASSUME NEW w \in Tasks, RecordFails(w) PROVE Grows
  BY <1>0, <1>21, ReturnsEffect DEF RecordFails, At, Fault, Turns, Returned,
     Grows, Exists, Published, bookingVars, tables
<1>22. ASSUME NEW w \in Tasks, MarkCompleted(w) PROVE Grows
  BY <1>0, <1>22, MarkCompletedEffect DEF MarkCompleted, At, Turns, Freed,
     EventTurns, Grows, Exists, Published, bookingVars, tables
<1>23. ASSUME NEW w \in Tasks, Throw(w) PROVE Grows
  BY <1>0, <1>23, ThrowEffect DEF Throw, At, Fault, Turns, Freed, EventTurns,
     Grows, Exists, Published, bookingVars, tables
<1>24. CASE UNCHANGED vars
  BY <1>0, <1>24 DEF vars, bookingVars, tables, Grows, Exists, Published
<1> QED
  BY <1>1, <1>2, <1>3, <1>4, <1>5, <1>6, <1>7, <1>8, <1>9, <1>10, <1>11,
     <1>12, <1>13, <1>14, <1>15, <1>16, <1>17, <1>18, <1>19, <1>20, <1>21,
     <1>22, <1>23, <1>24 DEF Next, TaskStep

(* What each step leaves its own task with.                                *)
LEMMA ReturnedSound ==
  ASSUME IInv, Grows, NEW w \in Tasks, Returned(w), Exists(task[w].mail)
  PROVE  Kept(w) /\ Sound(w)'
<1>1. Sound(w) /\ Shape(task[w]) /\ task[w] \in Task
  BY OfTask
<1>2. CASE task[w].event
  <2>1. Shape(task'[w]) /\ task'[w].mail = task[w].mail /\ task'[w].redo = {}
    BY <1>1, <1>2 DEF Shape, Returned, Turns, Task
  <2>2. Published(task[w].mail)' /\ Exists(task[w].mail)'
    BY <1>1, <1>2, <2>1 DEF Sound, Grows, Shape, Published, Exists, Task
  <2> QED BY <1>1, <1>2, <2>1, <2>2 DEF Sound, Returned, Turns, Kept, Grows, Task
<1>3. CASE ~task[w].event
  <2>1. Shape(task'[w])
    BY <1>1, <1>3 DEF Shape, Returned, Turns, Task
  <2> QED BY <1>1, <1>3, <2>1 DEF Sound, Returned, Turns, Kept, Working, Grows, Task
<1> QED BY <1>2, <1>3

(* Each step leaves its task in order, and the others alone:               *)
(* recoverOutbox,                                                          *)
LEMMA SoundRecoverOutbox ==
  ASSUME IInv, TypeOK, TypeOK', SourceInv, Grows, NEW w \in Tasks,
         RecoverOutbox(w)
  PROVE  Kept(w) /\ Sound(w)'
<1>1. Sound(w) /\ Shape(task[w]) /\ task[w] \in Task
  BY OfTask
<1>2. PICK batch \in SUBSET {e \in EventMail : Claimable(e)} :
        LET t == task[w]
        IN  Turns(w, t.pc, t.mail, t.attempt, t.recovery, t.event, t.result, batch, t.redo)
  BY RecoverOutboxEffect
<1>3. Kept(w)
  BY <1>2 DEF Turns, Kept
<1>4. task[w].pc = "free" /\ task[w].todo = {} /\ task[w].redo = {}
  BY DEF RecoverOutbox, Idle
<1>5. Shape(task'[w]) /\ task'[w].pc = "free" /\ ~task'[w].event /\ task'[w].redo = {}
  BY <1>1, <1>2, <1>4 DEF Shape, Turns, Task
<1>6. \A e \in task'[w].todo : Published(e)'
  <2>1. \A e \in batch : e \in EventMail /\ Published(e)
    BY DEF Claimable, Published
  <2> QED BY <1>2, <2>1 DEF Turns, Grows
<1> QED BY <1>3, <1>5, <1>6 DEF Sound, Working

(* recoverDeliveries,                                                      *)
LEMMA SoundRecoverDeliveries ==
  ASSUME IInv, TypeOK, TypeOK', SourceInv, Grows, NEW w \in Tasks,
         RecoverDeliveries(w)
  PROVE  Kept(w) /\ Sound(w)'
<1> DEFINE R == {m \in Mail : Recoverable(m)}
<1>1. Sound(w) /\ Shape(task[w]) /\ task[w] \in Task
  BY OfTask
<1>2. LET t == task[w]
      IN  Turns(w, t.pc, t.mail, t.attempt, t.recovery, t.event, t.result, t.todo, R)
  BY RecoverDeliveriesEffect
<1>r. \A m \in R : m \in Mail /\ Exists(m)
  BY DEF Recoverable, Exists
<1> HIDE DEF R
<1>3. Kept(w)
  BY <1>2 DEF Turns, Kept
<1>4. task[w].pc = "free" /\ task[w].todo = {} /\ task[w].redo = {}
  BY DEF RecoverDeliveries, Idle
<1>5. Shape(task'[w]) /\ task'[w].pc = "free" /\ ~task'[w].event /\ task'[w].todo = {}
  BY <1>1, <1>2, <1>4 DEF Shape, Turns, Task
<1>6. \A m \in task'[w].redo : Exists(m)'
  BY <1>2, <1>r DEF Turns, Grows
<1> QED BY <1>3, <1>5, <1>6 DEF Sound, Working

(* the handler's dispatch,                                                 *)
LEMMA SoundDispatch ==
  ASSUME IInv, TypeOK, TypeOK', SourceInv, Grows, NEW w \in Tasks,
         NEW e \in EventMail, Dispatch(w, e)
  PROVE  Kept(w) /\ Sound(w)'
<1>1. CASE outbox[e].status = "COMPLETED"
  <2>1. task' = task
    BY <1>1 DEF Dispatch
  <2> QED BY <2>1, SoundKept DEF Kept
<1>2. CASE outbox[e].status # "COMPLETED"
  <2>1. Turns(w, "persist", e, 0, FALSE, TRUE, "none", {}, {})
    BY <1>2, DispatchEffect
  <2>2. Published(e)'
    BY DEF Dispatch, SourceInv, Grows
  <2>3. Shape(task'[w])
    BY <2>1 DEF Shape, Turns
  <2> QED BY <2>1, <2>2, <2>3 DEF Sound, Turns, Kept, Working
<1> QED BY <1>1, <1>2

(* an approved retry,                                                      *)
LEMMA SoundApproveRetry ==
  ASSUME IInv, TypeOK, TypeOK', SourceInv, Grows, NEW w \in Tasks,
         NEW m \in Mail, ApproveRetry(w, m)
  PROVE  Kept(w) /\ Sound(w)'
<1>1. Turns(w, "claim", m, attempt[m].n, TRUE, FALSE, "none", {}, {})
  BY ApproveRetryEffect
<1>2. Marked(m) /\ attempt[m] \in AttemptRow
  BY DEF IInv, AttemptInv, TypeOK
<1>3. attempt[m].n \in Nat /\ attempt[m].n > 0 /\ attempt[m].n < MaxSends /\ Exists(m)
  BY <1>2, MailAssumption DEF ApproveRetry, CanRecover, Marked, SmtpTried, AttemptRow
<1>4. Shape(task'[w])
  BY <1>1, <1>3 DEF Shape, Turns
<1> QED BY <1>1, <1>3, <1>4 DEF Sound, Turns, Kept, Working, Grows

(* the confirmation that the office sends,                                 *)
LEMMA SoundSendConfirmation ==
  ASSUME IInv, TypeOK, TypeOK', SourceInv, Grows, NEW w \in Tasks,
         SendConfirmation(w)
  PROVE  Kept(w) /\ Sound(w)'
<1>1. Sound(w) /\ Shape(task[w]) /\ task[w] \in Task
  BY OfTask
<1>2. task[w].pc = "free" /\ task[w].todo = {} /\ task[w].redo = {} /\ ~task[w].event /\ task[w].attempt = 0 /\ ~task[w].recovery
  BY <1>1 DEF Shape, SendConfirmation, Idle
<1>3. Kept(w)
  BY SendMailEffect, SupersedeEffect DEF Kept, Turns, AdminMail,
     SendConfirmation
<1>4. Shape(task'[w])
  BY <1>1, <1>2, SendMailEffect, SupersedeEffect DEF Shape, Turns, AdminMail,
     Task, SendConfirmation
<1>6. task'[w].pc \in Working \cup {"complete"} => Exists(task[w].mail)'
  BY <1>1, <1>2, SendMailEffect, SupersedeEffect DEF Sound, Grows, Working,
     Turns, AdminMail, Task, SendConfirmation, Exists
<1>7. task'[w].event => Published(task[w].mail)'
  BY <1>1, <1>2, SendMailEffect, SupersedeEffect DEF Shape, Sound, Grows,
     Turns, AdminMail, Task, SendConfirmation, Exists
<1>8. task'[w].todo \subseteq task[w].todo /\ task'[w].redo \subseteq task[w].redo
  BY <1>1, <1>2, SendMailEffect, SupersedeEffect DEF Turns, AdminMail, Task,
     SendConfirmation, Exists
<1>5. Sound(w)'
  BY <1>1, <1>4, <1>6, <1>7, <1>8 DEF Sound, Grows, Task
<1> QED BY <1>3, <1>5

(* the receipt that the office sends,                                      *)
LEMMA SoundSendReceipt ==
  ASSUME IInv, TypeOK, TypeOK', SourceInv, Grows, NEW w \in Tasks,
         SendReceipt(w)
  PROVE  Kept(w) /\ Sound(w)'
<1>1. Sound(w) /\ Shape(task[w]) /\ task[w] \in Task
  BY OfTask
<1>2. task[w].pc = "free" /\ task[w].todo = {} /\ task[w].redo = {} /\ ~task[w].event /\ task[w].attempt = 0 /\ ~task[w].recovery
  BY <1>1 DEF Shape, SendReceipt, Idle
<1>3. Kept(w)
  BY SendMailEffect, SupersedeEffect DEF Kept, Turns, AdminMail, SendReceipt
<1>4. Shape(task'[w])
  BY <1>1, <1>2, SendMailEffect, SupersedeEffect DEF Shape, Turns, AdminMail,
     Task, SendReceipt
<1>6. task'[w].pc \in Working \cup {"complete"} => Exists(task[w].mail)'
  BY <1>1, <1>2, SendMailEffect, SupersedeEffect DEF Sound, Grows, Working,
     Turns, AdminMail, Task, SendReceipt, Exists
<1>7. task'[w].event => Published(task[w].mail)'
  BY <1>1, <1>2, SendMailEffect, SupersedeEffect DEF Shape, Sound, Grows,
     Turns, AdminMail, Task, SendReceipt, Exists
<1>8. task'[w].todo \subseteq task[w].todo /\ task'[w].redo \subseteq task[w].redo
  BY <1>1, <1>2, SendMailEffect, SupersedeEffect DEF Turns, AdminMail, Task,
     SendReceipt, Exists
<1>5. Sound(w)'
  BY <1>1, <1>4, <1>6, <1>7, <1>8 DEF Sound, Grows, Task
<1> QED BY <1>3, <1>5

(* the next event of a batch,                                              *)
LEMMA SoundNextRow ==
  ASSUME IInv, TypeOK, TypeOK', SourceInv, Grows, NEW w \in Tasks, NextRow(w)
  PROVE  Kept(w) /\ Sound(w)'
<1>1. Sound(w) /\ Shape(task[w]) /\ task[w] \in Task
  BY OfTask
<1>2. task[w].pc = "free" /\ ~task[w].event /\ task[w].attempt = 0 /\ ~task[w].recovery
  BY <1>1 DEF Shape, NextRow, At
<1>3. Kept(w)
  BY NextRowEffect DEF Kept, Turns
<1>4. Shape(task'[w])
  BY <1>1, <1>2, NextRowEffect DEF Shape, Turns, Task
<1>6. task'[w].pc \in Working \cup {"complete"} => Exists(task[w].mail)'
  BY <1>1, <1>2, NextRowEffect DEF Sound, Grows, Working, Turns, Task
<1>7. task'[w].event => Published(task[w].mail)'
  BY <1>1, <1>2, NextRowEffect DEF Shape, Sound, Grows, Turns, Task
<1>8. task'[w].todo \subseteq task[w].todo /\ task'[w].redo \subseteq task[w].redo
  BY <1>1, <1>2, NextRowEffect DEF Turns, Task
<1>5. Sound(w)'
  BY <1>1, <1>4, <1>6, <1>7, <1>8 DEF Sound, Grows, Task
<1> QED BY <1>3, <1>5

(* the next delivery of a recovery,                                        *)
LEMMA SoundNextDelivery ==
  ASSUME IInv, TypeOK, TypeOK', SourceInv, Grows, NEW w \in Tasks,
         NextDelivery(w)
  PROVE  Kept(w) /\ Sound(w)'
<1>1. Sound(w) /\ Shape(task[w]) /\ task[w] \in Task
  BY OfTask
<1>2. task[w].pc = "free" /\ ~task[w].event /\ task[w].attempt = 0 /\ ~task[w].recovery
  BY <1>1 DEF Shape, NextDelivery, At
<1>3. Kept(w)
  BY NextDeliveryEffect DEF Kept, Turns
<1>4. Shape(task'[w])
  BY <1>1, <1>2, NextDeliveryEffect DEF Shape, Turns, Task
<1>6. task'[w].pc \in Working \cup {"complete"} => Exists(task[w].mail)'
  BY <1>1, <1>2, NextDeliveryEffect DEF Sound, Grows, Working, Turns, Task
<1>7. task'[w].event => Published(task[w].mail)'
  BY <1>1, <1>2, NextDeliveryEffect DEF Shape, Sound, Grows, Turns, Task
<1>8. task'[w].todo \subseteq task[w].todo /\ task'[w].redo \subseteq task[w].redo
  BY <1>1, <1>2, NextDeliveryEffect DEF Turns, Task
<1>5. Sound(w)'
  BY <1>1, <1>4, <1>6, <1>7, <1>8 DEF Sound, Grows, Task
<1> QED BY <1>3, <1>5

(* storing the notification of an event,                                   *)
LEMMA SoundPersist ==
  ASSUME IInv, TypeOK, TypeOK', SourceInv, Grows, NEW w \in Tasks, Persist(w)
  PROVE  Kept(w) /\ Sound(w)'
<1>1. Sound(w) /\ Shape(task[w]) /\ task[w] \in Task
  BY OfTask
<1>2. task[w].pc = "persist" /\ task[w].attempt = 0 /\ ~task[w].recovery /\ task[w].event /\ task[w].redo = {}
  BY <1>1 DEF Shape, Persist, At
<1>3. Kept(w)
  BY PersistEffect DEF Kept, Turns
<1>4. Shape(task'[w])
  BY <1>1, <1>2, PersistEffect DEF Shape, Turns, Task
<1>6. task'[w].pc \in Working \cup {"complete"} => Exists(task[w].mail)'
  BY <1>1, <1>2, PersistEffect DEF Sound, Grows, Working, Turns, Task, Exists,
     DeliveryTurns
<1>7. task'[w].event => Published(task[w].mail)'
  BY <1>1, <1>2, PersistEffect DEF Shape, Sound, Grows, Turns, Task, Exists,
     DeliveryTurns
<1>8. task'[w].todo \subseteq task[w].todo /\ task'[w].redo \subseteq task[w].redo
  BY <1>1, <1>2, PersistEffect DEF Turns, Task, Exists, DeliveryTurns
<1>5. Sound(w)'
  BY <1>1, <1>4, <1>6, <1>7, <1>8 DEF Sound, Grows, Task
<1> QED BY <1>3, <1>5

(* loading the delivery,                                                   *)
LEMMA SoundLoad ==
  ASSUME IInv, TypeOK, TypeOK', SourceInv, Grows, NEW w \in Tasks, Load(w)
  PROVE  Kept(w) /\ Sound(w)'
<1>1. Sound(w) /\ Shape(task[w]) /\ task[w] \in Task
  BY OfTask
<1>2. task[w].pc = "load" /\ task[w].attempt = 0 /\ ~task[w].recovery
  BY <1>1 DEF Shape, Load, At
<1>3. CASE Returned(w)
  BY <1>1, <1>2, <1>3, ReturnedSound DEF Sound, Working
<1>4. CASE \/ Answered(w, "SKIP")
           \/ task[w].mail \in EventMail /\ Answered(w, "INVALID")
  <2>1. Shape(task'[w])
    BY <1>1, <1>2, <1>4 DEF Shape, Answered, Turns, Task
  <2> QED BY <1>1, <1>2, <1>4, <2>1 DEF Sound, Answered, Turns, Kept, Working, Grows, Task, Shape
<1>5. CASE Proceeds(w)
  <2>1. Shape(task'[w])
    BY <1>1, <1>2, <1>5, MailAssumption DEF Shape, Proceeds, Turns, Task
  <2> QED BY <1>1, <1>2, <1>5, <2>1 DEF Sound, Proceeds, Turns, Kept, Working, Grows, Task, Shape
<1>6. \/ Returned(w)
      \/ Answered(w, "SKIP")
      \/ task[w].mail \in EventMail /\ Answered(w, "INVALID")
      \/ Proceeds(w)
  BY LoadEffect
<1> QED BY <1>3, <1>4, <1>5, <1>6

(* reserving an attempt,                                                   *)
LEMMA SoundClaim ==
  ASSUME IInv, TypeOK, TypeOK', SourceInv, Grows, NEW w \in Tasks, Claim(w)
  PROVE  Kept(w) /\ Sound(w)'
<1>1. Sound(w) /\ Shape(task[w]) /\ task[w] \in Task /\ task[w].mail \in Mail
  BY OfTask
<1>2. task[w].pc = "claim" /\ task[w].attempt \in Nat
  BY <1>1 DEF Claim, At, Task
<1>3. CASE Reserves(w)
  <2>1. attempt[task[w].mail].n \in Nat
    BY <1>1 DEF TypeOK, AttemptRow
  <2>2. Shape(task'[w])
    BY <1>1, <1>2, <1>3, <2>1 DEF Shape, Reserves, Turns, Task
  <2> QED BY <1>1, <1>2, <1>3, <2>2 DEF Sound, Reserves, Turns, Kept, Working, Grows, Task, Shape
<1>4. CASE task[w].recovery /\ Freed(w, {})
  <2>1. Shape(task'[w])
    BY <1>4 DEF Shape, Freed, Turns
  <2> QED BY <1>4, <2>1 DEF Sound, Freed, Turns, Kept, Working
<1>5. CASE ~task[w].recovery /\ Answered(w, "SKIP")
  <2>1. Shape(task'[w])
    BY <1>1, <1>2, <1>5 DEF Shape, Answered, Turns, Task
  <2> QED BY <1>1, <1>2, <1>5, <2>1 DEF Sound, Answered, Turns, Kept, Working, Grows, Task, Shape
<1>6. CASE Returned(w)
  BY <1>1, <1>2, <1>6, ReturnedSound DEF Sound, Working
<1> QED BY <1>3, <1>4, <1>5, <1>6, ClaimEffect DEF Refuses

(* a reservation that fails,                                               *)
LEMMA SoundClaimFails ==
  ASSUME IInv, TypeOK, TypeOK', SourceInv, Grows, NEW w \in Tasks,
         ClaimFails(w)
  PROVE  Kept(w) /\ Sound(w)'
<1>1. Sound(w) /\ Shape(task[w]) /\ task[w] \in Task
  BY OfTask
<1>2. task[w].pc = "claim"
  BY <1>1 DEF Shape, ClaimFails, At
<1>3. Kept(w)
  BY ClaimFailsEffect DEF Kept, Turns, Answered, Freed
<1>4. Shape(task'[w])
  BY <1>1, <1>2, ClaimFailsEffect DEF Shape, Turns, Answered, Freed, Task
<1>6. task'[w].pc \in Working \cup {"complete"} => Exists(task[w].mail)'
  BY <1>1, <1>2, ClaimFailsEffect DEF Sound, Grows, Working, Turns, Answered,
     Freed, Task
<1>7. task'[w].event => Published(task[w].mail)'
  BY <1>1, <1>2, ClaimFailsEffect DEF Shape, Sound, Grows, Turns, Answered,
     Freed, Task
<1>8. task'[w].todo \subseteq task[w].todo /\ task'[w].redo \subseteq task[w].redo
  BY <1>1, <1>2, ClaimFailsEffect DEF Turns, Answered, Freed, Task
<1>5. Sound(w)'
  BY <1>1, <1>4, <1>6, <1>7, <1>8 DEF Sound, Grows, Task
<1> QED BY <1>3, <1>5

(* sending,                                                                *)
LEMMA SoundSend ==
  ASSUME IInv, TypeOK, TypeOK', SourceInv, Grows, NEW w \in Tasks, Send(w)
  PROVE  Kept(w) /\ Sound(w)'
<1>1. Sound(w) /\ Shape(task[w]) /\ task[w] \in Task
  BY OfTask
<1>2. task[w].pc = "reserved"
  BY <1>1 DEF Shape, Send, At
<1>3. Kept(w)
  BY SendEffect DEF Kept, Turns, Answered, Sends, Answers
<1>4. Shape(task'[w])
  BY <1>1, <1>2, SendEffect DEF Shape, Turns, Answered, Sends, Answers, Task
<1>6. task'[w].pc \in Working \cup {"complete"} => Exists(task[w].mail)'
  BY <1>1, <1>2, SendEffect DEF Sound, Grows, Working, Turns, Answered, Sends,
     Answers, Task
<1>7. task'[w].event => Published(task[w].mail)'
  BY <1>1, <1>2, SendEffect DEF Shape, Sound, Grows, Turns, Answered, Sends,
     Answers, Task
<1>8. task'[w].todo \subseteq task[w].todo /\ task'[w].redo \subseteq task[w].redo
  BY <1>1, <1>2, SendEffect DEF Turns, Answered, Sends, Answers, Task
<1>5. Sound(w)'
  BY <1>1, <1>4, <1>6, <1>7, <1>8 DEF Sound, Grows, Task
<1> QED BY <1>3, <1>5

(* recording the outcome,                                                  *)
LEMMA SoundRecord ==
  ASSUME IInv, TypeOK, TypeOK', SourceInv, Grows, NEW w \in Tasks, Record(w)
  PROVE  Kept(w) /\ Sound(w)'
<1>1. Sound(w) /\ Shape(task[w]) /\ task[w] \in Task
  BY OfTask
<1>2. task[w].pc = "record"
  BY <1>1 DEF Shape, Record, At
<1>3. Kept(w)
  BY RecordEffect DEF Kept, Turns, Returned
<1>4. Shape(task'[w])
  BY <1>1, <1>2, RecordEffect DEF Shape, Turns, Returned, Task
<1>6. task'[w].pc \in Working \cup {"complete"} => Exists(task[w].mail)'
  BY <1>1, <1>2, RecordEffect DEF Sound, Grows, Working, Turns, Returned, Task
<1>7. task'[w].event => Published(task[w].mail)'
  BY <1>1, <1>2, RecordEffect DEF Shape, Sound, Grows, Turns, Returned, Task
<1>8. task'[w].todo \subseteq task[w].todo /\ task'[w].redo \subseteq task[w].redo
  BY <1>1, <1>2, RecordEffect DEF Turns, Returned, Task
<1>5. Sound(w)'
  BY <1>1, <1>4, <1>6, <1>7, <1>8 DEF Sound, Grows, Task
<1> QED BY <1>3, <1>5

(* an outcome that is not recorded,                                        *)
LEMMA SoundRecordFails ==
  ASSUME IInv, TypeOK, TypeOK', SourceInv, Grows, NEW w \in Tasks,
         RecordFails(w)
  PROVE  Kept(w) /\ Sound(w)'
<1>1. Sound(w) /\ Shape(task[w]) /\ task[w] \in Task
  BY OfTask
<1>2. task[w].pc = "record"
  BY <1>1 DEF Shape, RecordFails, At
<1>3. Kept(w)
  BY ReturnsEffect DEF Kept, Turns, Returned
<1>4. Shape(task'[w])
  BY <1>1, <1>2, ReturnsEffect DEF Shape, Turns, Returned, Task
<1>6. task'[w].pc \in Working \cup {"complete"} => Exists(task[w].mail)'
  BY <1>1, <1>2, ReturnsEffect DEF Sound, Grows, Working, Turns, Returned,
     Task
<1>7. task'[w].event => Published(task[w].mail)'
  BY <1>1, <1>2, ReturnsEffect DEF Shape, Sound, Grows, Turns, Returned, Task
<1>8. task'[w].todo \subseteq task[w].todo /\ task'[w].redo \subseteq task[w].redo
  BY <1>1, <1>2, ReturnsEffect DEF Turns, Returned, Task
<1>5. Sound(w)'
  BY <1>1, <1>4, <1>6, <1>7, <1>8 DEF Sound, Grows, Task
<1> QED BY <1>3, <1>5

(* marking the event completed,                                            *)
LEMMA SoundMarkCompleted ==
  ASSUME IInv, TypeOK, TypeOK', SourceInv, Grows, NEW w \in Tasks,
         MarkCompleted(w)
  PROVE  Kept(w) /\ Sound(w)'
<1>1. Sound(w) /\ Shape(task[w]) /\ task[w] \in Task
  BY OfTask
<1>2. task[w].pc = "complete" /\ task[w].attempt = 0 /\ ~task[w].recovery /\ task[w].event /\ task[w].redo = {}
  BY <1>1 DEF Shape, MarkCompleted, At
<1>3. Kept(w)
  BY MarkCompletedEffect DEF Kept, Turns, Freed
<1>4. Shape(task'[w])
  BY <1>1, <1>2, MarkCompletedEffect DEF Shape, Turns, Freed, Task
<1>6. task'[w].pc \in Working \cup {"complete"} => Exists(task[w].mail)'
  BY <1>1, <1>2, MarkCompletedEffect DEF Sound, Grows, Working, Turns, Freed,
     Task
<1>7. task'[w].event => Published(task[w].mail)'
  BY <1>1, <1>2, MarkCompletedEffect DEF Shape, Sound, Grows, Turns, Freed,
     Task
<1>8. task'[w].todo \subseteq task[w].todo /\ task'[w].redo \subseteq task[w].redo
  BY <1>1, <1>2, MarkCompletedEffect DEF Turns, Freed, Task
<1>5. Sound(w)'
  BY <1>1, <1>4, <1>6, <1>7, <1>8 DEF Sound, Grows, Task
<1> QED BY <1>3, <1>5

(* a query that fails.                                                     *)
LEMMA SoundThrow ==
  ASSUME IInv, TypeOK, TypeOK', SourceInv, Grows, NEW w \in Tasks, Throw(w)
  PROVE  Kept(w) /\ Sound(w)'
<1>1. Sound(w) /\ Shape(task[w]) /\ task[w] \in Task
  BY OfTask
<1>2. task[w].pc # "claim" /\ task[w].pc # "free"
  BY <1>1 DEF Throw, At
<1>3. Kept(w)
  BY ThrowEffect DEF Kept, Turns, Freed
<1>4. Shape(task'[w])
  BY <1>1, <1>2, ThrowEffect DEF Shape, Turns, Freed, Task
<1>6. task'[w].pc \in Working \cup {"complete"} => Exists(task[w].mail)'
  BY <1>1, <1>2, ThrowEffect DEF Sound, Grows, Working, Turns, Freed, Task
<1>7. task'[w].event => Published(task[w].mail)'
  BY <1>1, <1>2, ThrowEffect DEF Shape, Sound, Grows, Turns, Freed, Task
<1>8. task'[w].todo \subseteq task[w].todo /\ task'[w].redo \subseteq task[w].redo
  BY <1>1, <1>2, ThrowEffect DEF Turns, Freed, Task
<1>5. Sound(w)'
  BY <1>1, <1>4, <1>6, <1>7, <1>8 DEF Sound, Grows, Task
<1> QED BY <1>3, <1>5

(* Where a mail comes from stands, if no event and no row comes from       *)
(* nowhere.                                                                *)
LEMMA SourceKept ==
  ASSUME IInv, TypeOK', Grows, NEW w \in Tasks, Kept(w), Sound(w)', trip' = trip, server'.up,
         server'.dispatch \subseteq server.dispatch,
         \A e \in EventMail : Published(e)' => Published(e),
         \A e \in EventMail : Exists(e)' => Exists(e) \/ Published(e)
  PROVE  SourceInv'
<1>1. \A u \in Tasks : Sound(u)'
  BY SoundKept DEF Kept
<1>2. SourceInv /\ server \in Server /\ server' \in Server
  BY DEF IInv, TypeOK
<1>3. \A e \in EventMail : Published(e) <=> Published(e)'
  BY DEF Grows
<1>4. \A e \in server'.dispatch : Published(e)'
  BY <1>2, <1>3 DEF SourceInv, Server
<1>5. \A e \in EventMail : Exists(e)' => Published(e)'
  BY <1>2, <1>3 DEF SourceInv
<1>6. (Published("ended") => trip = "ENDED")' /\ (Published("cancelled") => trip = "CANCELLED")'
  BY <1>2, <1>3 DEF SourceInv, EventMail
<1> QED BY <1>1, <1>4, <1>5, <1>6 DEF SourceInv

(* What a task works on was published and, once processed, stored.         *)
LEMMA SourceStep == ASSUME IInv, [Next]_vars PROVE SourceInv'
<1>0. IInv /\ TypeOK /\ SourceInv
  BY DEF IInv
<1>t. TypeOK'
  BY TypeStep
<1>g. Grows
  BY GrowsStep
<1>1. ASSUME EndTrip PROVE SourceInv'
  <2>1. \A u \in Tasks : Sound(u)'
    BY <1>0, <1>g, <1>t, <1>1, SoundKept DEF EndTrip
  <2>2. "ended" \in EventMail /\ Publish("ended") /\ server.up
    BY <1>1 DEF EventMail, EndTrip
  <2>3. Published("ended")' /\ \A e \in EventMail : e # "ended" => (Published(e)' <=> Published(e))
    BY <1>0, <2>2, PublishEffect DEF EventTurns, Published
  <2>4. server'.up /\ server'.dispatch = server.dispatch \cup {"ended"}
    BY <1>0, <2>2, PublishEffect
  <2>5. \A e \in server'.dispatch : Published(e)'
    BY <1>0, <2>3, <2>4 DEF SourceInv, TypeOK, Server
  <2>6. \A e \in EventMail : Exists(e)' => Published(e)'
    BY <1>0, <2>3, <1>1 DEF SourceInv, EndTrip, Exists
  <2>7. (Published("ended") => trip = "ENDED")' /\ (Published("cancelled") => trip = "CANCELLED")'
    BY <1>0, <1>1, <2>3 DEF SourceInv, EndTrip, EventMail
  <2> QED BY <2>1, <2>4, <2>5, <2>6, <2>7 DEF SourceInv
<1>2. ASSUME Cancel PROVE SourceInv'
  <2>1. \A u \in Tasks : Sound(u)'
    BY <1>0, <1>g, <1>t, <1>2, SoundKept DEF Cancel
  <2>2. "cancelled" \in EventMail /\ Publish("cancelled") /\ server.up
    BY <1>2 DEF EventMail, Cancel
  <2>3. Published("cancelled")' /\ \A e \in EventMail : e # "cancelled" => (Published(e)' <=> Published(e))
    BY <1>0, <2>2, PublishEffect DEF EventTurns, Published
  <2>4. server'.up /\ server'.dispatch = server.dispatch \cup {"cancelled"}
    BY <1>0, <2>2, PublishEffect
  <2>5. \A e \in server'.dispatch : Published(e)'
    BY <1>0, <2>3, <2>4 DEF SourceInv, TypeOK, Server
  <2>6. \A e \in EventMail : Exists(e)' => Published(e)'
    BY <1>0, <2>3, <1>2 DEF SourceInv, Cancel, Exists
  <2>7. (Published("ended") => trip = "ENDED")' /\ (Published("cancelled") => trip = "CANCELLED")'
    BY <1>0, <1>2, <2>3 DEF SourceInv, Cancel, EventMail
  <2> QED BY <2>1, <2>4, <2>5, <2>6, <2>7 DEF SourceInv
<1>3. ASSUME EditAddress PROVE SourceInv'
  <2>1. \A u \in Tasks : Sound(u)'
    BY <1>0, <1>g, <1>t, <1>3, SoundKept DEF EditAddress
  <2> QED
    BY <1>0, <1>3, <2>1
       DEF EditAddress, SourceInv, Published, Exists, Idle, TypeOK, Server, tables, bookingVars
<1>4. ASSUME NEW m \in Mail, ConfirmAccepted(m) PROVE SourceInv'
  <2>1. \A u \in Tasks : Sound(u)'
    BY <1>0, <1>g, <1>t, <1>4, SoundKept DEF ConfirmAccepted
  <2> QED
    BY <1>0, <1>4, <2>1
       DEF ConfirmAccepted, SourceInv, Published, Exists, Idle, TypeOK, Server, tables, bookingVars
<1>5. ASSUME NEW w \in Tasks, RecoverOutbox(w) PROVE SourceInv'
  <2>1. Kept(w) /\ Sound(w)'
    BY <1>0, <1>t, <1>g, <1>5, SoundRecoverOutbox
  <2>2. trip' = trip /\ server'.up /\ server'.dispatch \subseteq server.dispatch
    BY <1>0, <1>5 DEF RecoverOutbox, Idle, TypeOK, Server, bookingVars, tables
  <2>3. \A e \in EventMail : Published(e)' => Published(e)
    BY <1>0, <1>5, RecoverOutboxEffect, OfTask DEF Claimable, Published
  <2>4. \A e \in EventMail : Exists(e)' => Exists(e) \/ Published(e)
    BY <1>5 DEF RecoverOutbox, Exists, tables
  <2> QED BY <1>0, <1>t, <1>g, <2>1, <2>2, <2>3, <2>4, SourceKept
<1>6. ASSUME NEW w \in Tasks, RecoverDeliveries(w) PROVE SourceInv'
  <2>1. Kept(w) /\ Sound(w)'
    BY <1>0, <1>t, <1>g, <1>6, SoundRecoverDeliveries
  <2>2. trip' = trip /\ server'.up /\ server'.dispatch \subseteq server.dispatch
    BY <1>0, <1>6 DEF RecoverDeliveries, Idle, TypeOK, Server, bookingVars,
     tables
  <2>3. \A e \in EventMail : Published(e)' => Published(e)
    BY <1>6 DEF RecoverDeliveries, Published, tables
  <2>4. \A e \in EventMail : Exists(e)' => Exists(e) \/ Published(e)
    BY <1>6 DEF RecoverDeliveries, Exists, tables
  <2> QED BY <1>0, <1>t, <1>g, <2>1, <2>2, <2>3, <2>4, SourceKept
<1>7. ASSUME NEW w \in Tasks, NEW e \in EventMail, Dispatch(w, e) PROVE SourceInv'
  <2>1. Kept(w) /\ Sound(w)'
    BY <1>0, <1>t, <1>g, <1>7, SoundDispatch
  <2>2. trip' = trip /\ server'.up /\ server'.dispatch \subseteq server.dispatch
    BY <1>0, <1>7 DEF Dispatch, Idle, TypeOK, Server, bookingVars, tables
  <2>3. \A f \in EventMail : Published(f)' => Published(f)
    BY <1>0, <1>7, DispatchEffect, OfTask DEF Dispatch, EventTurns, SourceInv,
     Published
  <2>4. \A f \in EventMail : Exists(f)' => Exists(f) \/ Published(f)
    BY <1>7 DEF Dispatch, Exists, tables
  <2> QED BY <1>0, <1>t, <1>g, <2>1, <2>2, <2>3, <2>4, SourceKept
<1>8. ASSUME NEW w \in Tasks, NEW m \in Mail, ApproveRetry(w, m) PROVE SourceInv'
  <2>1. Kept(w) /\ Sound(w)'
    BY <1>0, <1>t, <1>g, <1>8, SoundApproveRetry
  <2>2. trip' = trip /\ server'.up /\ server'.dispatch \subseteq server.dispatch
    BY <1>0, <1>8 DEF ApproveRetry, Idle, TypeOK, Server, bookingVars, tables
  <2>3. \A e \in EventMail : Published(e)' => Published(e)
    BY <1>8 DEF ApproveRetry, Published, tables
  <2>4. \A e \in EventMail : Exists(e)' => Exists(e) \/ Published(e)
    BY <1>8 DEF ApproveRetry, Exists, tables
  <2> QED BY <1>0, <1>t, <1>g, <2>1, <2>2, <2>3, <2>4, SourceKept
<1>9. ASSUME NEW w \in Tasks, SendConfirmation(w) PROVE SourceInv'
  <2>1. Kept(w) /\ Sound(w)'
    BY <1>0, <1>t, <1>g, <1>9, SoundSendConfirmation
  <2>2. trip' = trip /\ server'.up /\ server'.dispatch \subseteq server.dispatch
    BY <1>0, <1>9 DEF SendConfirmation, Idle, TypeOK, Server, bookingVars,
     tables
  <2>3. \A e \in EventMail : Published(e)' => Published(e)
    BY <1>9 DEF SendConfirmation, Published, tables
  <2>4. \A e \in EventMail : Exists(e)' => Exists(e) \/ Published(e)
    BY <1>0, <1>9, SendMailEffect, SupersedeEffect, OfTask DEF
     SendConfirmation, AdminMail, Mail, EventMail, Exists
  <2> QED BY <1>0, <1>t, <1>g, <2>1, <2>2, <2>3, <2>4, SourceKept
<1>10. ASSUME NEW w \in Tasks, SendReceipt(w) PROVE SourceInv'
  <2>1. Kept(w) /\ Sound(w)'
    BY <1>0, <1>t, <1>g, <1>10, SoundSendReceipt
  <2>2. trip' = trip /\ server'.up /\ server'.dispatch \subseteq server.dispatch
    BY <1>0, <1>10 DEF SendReceipt, Idle, TypeOK, Server, bookingVars, tables
  <2>3. \A e \in EventMail : Published(e)' => Published(e)
    BY <1>10 DEF SendReceipt, Published, tables
  <2>4. \A e \in EventMail : Exists(e)' => Exists(e) \/ Published(e)
    BY <1>0, <1>10, SendMailEffect, SupersedeEffect, OfTask DEF SendReceipt,
     AdminMail, Mail, EventMail, Exists
  <2> QED BY <1>0, <1>t, <1>g, <2>1, <2>2, <2>3, <2>4, SourceKept
<1>11. ASSUME Crash PROVE SourceInv'
  <2>1. \A u \in Tasks : task'[u] = Free /\ Idle(u)'
    BY <1>11, CrashEffect, <1>0 DEF Idle, Free
  <2>2. \A u \in Tasks : Sound(u)'
    BY <2>1 DEF Sound, Shape, Free, Working
  <2>3. server'.dispatch = {} /\ UNCHANGED <<trip, outbox, delivery>>
    BY <1>11 DEF Crash, bookingVars, tables
  <2> QED BY <1>0, <2>1, <2>2, <2>3 DEF SourceInv, Published, Exists
<1>12. ASSUME Restart PROVE SourceInv'
  <2>1. \A u \in Tasks : Sound(u)'
    BY <1>0, <1>g, <1>t, <1>12, SoundKept DEF Restart
  <2> QED
    BY <1>0, <1>12, <2>1
       DEF Restart, SourceInv, Published, Exists, Idle, TypeOK, Server, tables, bookingVars
<1>13. ASSUME NEW w \in Tasks, NextRow(w) PROVE SourceInv'
  <2>1. Kept(w) /\ Sound(w)'
    BY <1>0, <1>t, <1>g, <1>13, SoundNextRow
  <2>2. trip' = trip /\ server'.up /\ server'.dispatch \subseteq server.dispatch
    BY <1>0, <1>13 DEF NextRow, At, TypeOK, Server, bookingVars, tables
  <2>3. \A e \in EventMail : Published(e)' => Published(e)
    BY <1>13 DEF NextRow, Published, tables
  <2>4. \A e \in EventMail : Exists(e)' => Exists(e) \/ Published(e)
    BY <1>13 DEF NextRow, Exists, tables
  <2> QED BY <1>0, <1>t, <1>g, <2>1, <2>2, <2>3, <2>4, SourceKept
<1>14. ASSUME NEW w \in Tasks, NextDelivery(w) PROVE SourceInv'
  <2>1. Kept(w) /\ Sound(w)'
    BY <1>0, <1>t, <1>g, <1>14, SoundNextDelivery
  <2>2. trip' = trip /\ server'.up /\ server'.dispatch \subseteq server.dispatch
    BY <1>0, <1>14 DEF NextDelivery, At, TypeOK, Server, bookingVars, tables
  <2>3. \A e \in EventMail : Published(e)' => Published(e)
    BY <1>14 DEF NextDelivery, Published, tables
  <2>4. \A e \in EventMail : Exists(e)' => Exists(e) \/ Published(e)
    BY <1>14 DEF NextDelivery, Exists, tables
  <2> QED BY <1>0, <1>t, <1>g, <2>1, <2>2, <2>3, <2>4, SourceKept
<1>15. ASSUME NEW w \in Tasks, Persist(w) PROVE SourceInv'
  <2>1. Kept(w) /\ Sound(w)'
    BY <1>0, <1>t, <1>g, <1>15, SoundPersist
  <2>2. trip' = trip /\ server'.up /\ server'.dispatch \subseteq server.dispatch
    BY <1>0, <1>15 DEF Persist, At, TypeOK, Server, bookingVars, tables
  <2>3. \A e \in EventMail : Published(e)' => Published(e)
    BY <1>15 DEF Persist, Published, tables
  <2>4. \A e \in EventMail : Exists(e)' => Exists(e) \/ Published(e)
    BY <1>0, <1>15, PersistEffect, OfTask DEF Persist, At, DeliveryTurns,
     Exists, Sound, Shape, Mail
  <2> QED BY <1>0, <1>t, <1>g, <2>1, <2>2, <2>3, <2>4, SourceKept
<1>16. ASSUME NEW w \in Tasks, Load(w) PROVE SourceInv'
  <2>1. Kept(w) /\ Sound(w)'
    BY <1>0, <1>t, <1>g, <1>16, SoundLoad
  <2>2. trip' = trip /\ server'.up /\ server'.dispatch \subseteq server.dispatch
    BY <1>0, <1>16 DEF Load, At, TypeOK, Server, bookingVars, tables
  <2>3. \A e \in EventMail : Published(e)' => Published(e)
    BY <1>16 DEF Load, Published, tables
  <2>4. \A e \in EventMail : Exists(e)' => Exists(e) \/ Published(e)
    BY <1>16 DEF Load, Exists, tables
  <2> QED BY <1>0, <1>t, <1>g, <2>1, <2>2, <2>3, <2>4, SourceKept
<1>17. ASSUME NEW w \in Tasks, Claim(w) PROVE SourceInv'
  <2>1. Kept(w) /\ Sound(w)'
    BY <1>0, <1>t, <1>g, <1>17, SoundClaim
  <2>2. trip' = trip /\ server'.up /\ server'.dispatch \subseteq server.dispatch
    BY <1>0, <1>17 DEF Claim, At, TypeOK, Server, bookingVars, tables
  <2>3. \A e \in EventMail : Published(e)' => Published(e)
    BY <1>17 DEF Claim, Published, tables
  <2>4. \A e \in EventMail : Exists(e)' => Exists(e) \/ Published(e)
    BY <1>0, <1>17, ClaimEffect, OfTask DEF Reserves, Refuses, DeliveryTurns,
     Exists, Mail
  <2> QED BY <1>0, <1>t, <1>g, <2>1, <2>2, <2>3, <2>4, SourceKept
<1>18. ASSUME NEW w \in Tasks, ClaimFails(w) PROVE SourceInv'
  <2>1. Kept(w) /\ Sound(w)'
    BY <1>0, <1>t, <1>g, <1>18, SoundClaimFails
  <2>2. trip' = trip /\ server'.up /\ server'.dispatch \subseteq server.dispatch
    BY <1>0, <1>18 DEF ClaimFails, At, Fault, TypeOK, Server, bookingVars,
     tables
  <2>3. \A e \in EventMail : Published(e)' => Published(e)
    BY <1>18 DEF ClaimFails, Published, tables
  <2>4. \A e \in EventMail : Exists(e)' => Exists(e) \/ Published(e)
    BY <1>18 DEF ClaimFails, Exists, tables
  <2> QED BY <1>0, <1>t, <1>g, <2>1, <2>2, <2>3, <2>4, SourceKept
<1>19. ASSUME NEW w \in Tasks, Send(w) PROVE SourceInv'
  <2>1. Kept(w) /\ Sound(w)'
    BY <1>0, <1>t, <1>g, <1>19, SoundSend
  <2>2. trip' = trip /\ server'.up /\ server'.dispatch \subseteq server.dispatch
    BY <1>0, <1>19 DEF Send, At, TypeOK, Server, bookingVars, tables
  <2>3. \A e \in EventMail : Published(e)' => Published(e)
    BY <1>19 DEF Send, Published, tables
  <2>4. \A e \in EventMail : Exists(e)' => Exists(e) \/ Published(e)
    BY <1>19 DEF Send, Exists, tables
  <2> QED BY <1>0, <1>t, <1>g, <2>1, <2>2, <2>3, <2>4, SourceKept
<1>20. ASSUME NEW w \in Tasks, Record(w) PROVE SourceInv'
  <2>1. Kept(w) /\ Sound(w)'
    BY <1>0, <1>t, <1>g, <1>20, SoundRecord
  <2>2. trip' = trip /\ server'.up /\ server'.dispatch \subseteq server.dispatch
    BY <1>0, <1>20 DEF Record, At, TypeOK, Server, bookingVars, tables
  <2>3. \A e \in EventMail : Published(e)' => Published(e)
    BY <1>20 DEF Record, Published, tables
  <2>4. \A e \in EventMail : Exists(e)' => Exists(e) \/ Published(e)
    BY <1>0, <1>20, RecordEffect, OfTask DEF DeliveryTurns, Exists, Record, At,
     Sound, Working
  <2> QED BY <1>0, <1>t, <1>g, <2>1, <2>2, <2>3, <2>4, SourceKept
<1>21. ASSUME NEW w \in Tasks, RecordFails(w) PROVE SourceInv'
  <2>1. Kept(w) /\ Sound(w)'
    BY <1>0, <1>t, <1>g, <1>21, SoundRecordFails
  <2>2. trip' = trip /\ server'.up /\ server'.dispatch \subseteq server.dispatch
    BY <1>0, <1>21 DEF RecordFails, At, Fault, TypeOK, Server, bookingVars,
     tables
  <2>3. \A e \in EventMail : Published(e)' => Published(e)
    BY <1>21 DEF RecordFails, Published, tables
  <2>4. \A e \in EventMail : Exists(e)' => Exists(e) \/ Published(e)
    BY <1>21 DEF RecordFails, Exists, tables
  <2> QED BY <1>0, <1>t, <1>g, <2>1, <2>2, <2>3, <2>4, SourceKept
<1>22. ASSUME NEW w \in Tasks, MarkCompleted(w) PROVE SourceInv'
  <2>1. Kept(w) /\ Sound(w)'
    BY <1>0, <1>t, <1>g, <1>22, SoundMarkCompleted
  <2>2. trip' = trip /\ server'.up /\ server'.dispatch \subseteq server.dispatch
    BY <1>0, <1>22 DEF MarkCompleted, At, TypeOK, Server, bookingVars, tables
  <2>3. \A e \in EventMail : Published(e)' => Published(e)
    BY <1>0, <1>22, MarkCompletedEffect, OfTask DEF EventTurns, MarkCompleted,
     At, Sound, Shape, Published
  <2>4. \A e \in EventMail : Exists(e)' => Exists(e) \/ Published(e)
    BY <1>22 DEF MarkCompleted, Exists, tables
  <2> QED BY <1>0, <1>t, <1>g, <2>1, <2>2, <2>3, <2>4, SourceKept
<1>23. ASSUME NEW w \in Tasks, Throw(w) PROVE SourceInv'
  <2>1. Kept(w) /\ Sound(w)'
    BY <1>0, <1>t, <1>g, <1>23, SoundThrow
  <2>2. trip' = trip /\ server'.up /\ server'.dispatch \subseteq server.dispatch
    BY <1>0, <1>23 DEF Throw, At, Fault, TypeOK, Server, bookingVars, tables
  <2>3. \A e \in EventMail : Published(e)' => Published(e)
    BY <1>0, <1>23, ThrowEffect, OfTask DEF Throw, EventTurns, Sound, Published
  <2>4. \A e \in EventMail : Exists(e)' => Exists(e) \/ Published(e)
    BY <1>23 DEF Throw, Exists, tables
  <2> QED BY <1>0, <1>t, <1>g, <2>1, <2>2, <2>3, <2>4, SourceKept
<1>24. CASE UNCHANGED vars
  <2>1. \A u \in Tasks : Sound(u)'
    BY <1>0, <1>g, <1>t, <1>24, SoundKept DEF vars
  <2> QED
    BY <2>1, <1>0, <1>24 DEF vars, bookingVars, tables, SourceInv, Published, Exists, Idle
<1> QED
  BY <1>1, <1>2, <1>3, <1>4, <1>5, <1>6, <1>7, <1>8, <1>9, <1>10, <1>11,
     <1>12, <1>13, <1>14, <1>15, <1>16, <1>17, <1>18, <1>19, <1>20, <1>21,
     <1>22, <1>23, <1>24 DEF Next, TaskStep

(* At most one task stores a delivery and one recovers them.               *)
LEMMA TokensStep == ASSUME IInv, [Next]_vars PROVE TokensInv'
<1>0. IInv /\ TypeOK /\ SourceInv
  BY DEF IInv
<1>t. TypeOK'
  BY TypeStep
<1>g. Grows
  BY GrowsStep
<1>1. ASSUME EndTrip PROVE TokensInv'
  <2>1. task' = task /\ server'.deliveriesDue = server.deliveriesDue
    BY <1>0, <1>1, PublishEffect DEF EndTrip, EventMail
  <2> QED BY <1>0, <2>1 DEF IInv, TokensInv, Stores, Recovers, Working
<1>2. ASSUME Cancel PROVE TokensInv'
  <2>1. task' = task /\ server'.deliveriesDue = server.deliveriesDue
    BY <1>0, <1>2, PublishEffect DEF Cancel, EventMail
  <2> QED BY <1>0, <2>1 DEF IInv, TokensInv, Stores, Recovers, Working
<1>3. ASSUME EditAddress PROVE TokensInv'
  <2>1. task' = task /\ server'.deliveriesDue = server.deliveriesDue
    BY <1>0, <1>3 DEF EditAddress
  <2> QED BY <1>0, <2>1 DEF IInv, TokensInv, Stores, Recovers, Working
<1>4. ASSUME NEW m \in Mail, ConfirmAccepted(m) PROVE TokensInv'
  <2>1. task' = task /\ server'.deliveriesDue = server.deliveriesDue
    BY <1>0, <1>4 DEF ConfirmAccepted
  <2> QED BY <1>0, <2>1 DEF IInv, TokensInv, Stores, Recovers, Working
<1>5. ASSUME NEW w \in Tasks, RecoverOutbox(w) PROVE TokensInv'
  <2>1. Kept(w) /\ Sound(w) /\ Shape(task[w]) /\ task[w] \in Task
    BY <1>0, <1>t, <1>g, <1>5, OfTask, SoundRecoverOutbox
  <2>2. task[w].pc = "free" /\ task[w].todo = {} /\ task[w].redo = {} /\ ~task[w].event /\ task[w].attempt = 0 /\ ~task[w].recovery
    BY <2>1, <1>5 DEF Shape, RecoverOutbox, Idle
  <2>3. server'.deliveriesDue => server.deliveriesDue
    BY <1>0, <1>5 DEF RecoverOutbox, TypeOK, Server, tables, bookingVars
  <2>4. Stores(w)' => Stores(w) /\ task'[w].mail = task[w].mail
    BY <1>0, <1>5, <2>1, <2>2, RecoverOutboxEffect DEF Stores, Working, Turns
  <2>5. Recovers(w)' => Recovers(w)
    BY <1>0, <1>5, <2>1, <2>2, RecoverOutboxEffect DEF Recovers, Working,
     Turns
  <2> QED BY <1>0, <2>1, <2>3, <2>4, <2>5, TokensKept
<1>6. ASSUME NEW w \in Tasks, RecoverDeliveries(w) PROVE TokensInv'
  <2>1. Kept(w) /\ server.deliveriesDue /\ ~server'.deliveriesDue
    BY <1>0, <1>t, <1>g, <1>6, SoundRecoverDeliveries DEF RecoverDeliveries, TypeOK, Server
  <2>2. TokensInv /\ \A u \in Tasks : ~Recovers(u)
    BY <1>0, <2>1 DEF IInv, TokensInv
  <2>3. \A u \in Tasks : u # w => ~Recovers(u)'
    BY <2>1, <2>2 DEF Kept, Recovers
  <2>4. Shape(task[w]) /\ task[w].pc = "free"
    BY <1>0, <1>6, OfTask DEF RecoverDeliveries, Idle
  <2>5. ~Stores(w)'
    BY <1>0, <1>6, <2>4, RecoverDeliveriesEffect DEF Stores, Turns, Working
  <2>6. \A u \in Tasks : Stores(u)' => Stores(u) /\ task'[u].mail = task[u].mail
    BY <2>1, <2>5 DEF Kept, Stores
  <2> QED BY <2>1, <2>2, <2>3, <2>6 DEF TokensInv
<1>7. ASSUME NEW w \in Tasks, NEW e \in EventMail, Dispatch(w, e) PROVE TokensInv'
  <2>1. Kept(w) /\ Sound(w) /\ Shape(task[w]) /\ task[w] \in Task
    BY <1>0, <1>t, <1>g, <1>7, OfTask, SoundDispatch
  <2>2. task[w].pc = "free" /\ task[w].todo = {} /\ task[w].redo = {} /\ ~task[w].event /\ task[w].attempt = 0 /\ ~task[w].recovery
    BY <2>1, <1>7 DEF Shape, Dispatch, Idle
  <2>3. server'.deliveriesDue => server.deliveriesDue
    BY <1>0, <1>7 DEF Dispatch, TypeOK, Server, tables, bookingVars
  <2>4. Stores(w)' => Stores(w) /\ task'[w].mail = task[w].mail
    BY <1>0, <1>7, <2>1, <2>2, DispatchEffect DEF Stores, Working, Turns,
     Dispatch
  <2>5. Recovers(w)' => Recovers(w)
    BY <1>0, <1>7, <2>1, <2>2, DispatchEffect DEF Recovers, Working, Turns,
     Dispatch
  <2> QED BY <1>0, <2>1, <2>3, <2>4, <2>5, TokensKept
<1>8. ASSUME NEW w \in Tasks, NEW m \in Mail, ApproveRetry(w, m) PROVE TokensInv'
  <2>1. Kept(w) /\ Sound(w) /\ Shape(task[w]) /\ task[w] \in Task
    BY <1>0, <1>t, <1>g, <1>8, OfTask, SoundApproveRetry
  <2>2. task[w].pc = "free" /\ task[w].todo = {} /\ task[w].redo = {} /\ ~task[w].event /\ task[w].attempt = 0 /\ ~task[w].recovery
    BY <2>1, <1>8 DEF Shape, ApproveRetry, Idle
  <2>3. server'.deliveriesDue => server.deliveriesDue
    BY <1>0, <1>8 DEF ApproveRetry, TypeOK, Server, tables, bookingVars
  <2>4. Stores(w)' => Stores(w) /\ task'[w].mail = task[w].mail
    BY <1>0, <1>8, <2>1, <2>2, ApproveRetryEffect DEF Stores, Working, Turns
  <2>5. Recovers(w)' => Recovers(w)
    BY <1>0, <1>8, <2>1, <2>2, ApproveRetryEffect DEF Recovers, Working, Turns
  <2> QED BY <1>0, <2>1, <2>3, <2>4, <2>5, TokensKept
<1>9. ASSUME NEW w \in Tasks, SendConfirmation(w) PROVE TokensInv'
  <2>1. Kept(w) /\ Sound(w) /\ Shape(task[w]) /\ task[w] \in Task
    BY <1>0, <1>t, <1>g, <1>9, OfTask, SoundSendConfirmation
  <2>2. task[w].pc = "free" /\ task[w].todo = {} /\ task[w].redo = {} /\ ~task[w].event /\ task[w].attempt = 0 /\ ~task[w].recovery
    BY <2>1, <1>9 DEF Shape, SendConfirmation, Idle
  <2>3. server'.deliveriesDue => server.deliveriesDue
    BY <1>0, <1>9 DEF SendConfirmation, TypeOK, Server, tables, bookingVars
  <2>4. Stores(w)' => Stores(w) /\ task'[w].mail = task[w].mail
    BY <1>0, <1>9, <2>1, <2>2, SendMailEffect, SupersedeEffect DEF Stores,
     Working, Turns, AdminMail, EventMail, SendConfirmation
  <2>5. Recovers(w)' => Recovers(w)
    BY <1>0, <1>9, <2>1, <2>2, SendMailEffect, SupersedeEffect DEF Recovers,
     Working, Turns, AdminMail, EventMail, SendConfirmation
  <2> QED BY <1>0, <2>1, <2>3, <2>4, <2>5, TokensKept
<1>10. ASSUME NEW w \in Tasks, SendReceipt(w) PROVE TokensInv'
  <2>1. Kept(w) /\ Sound(w) /\ Shape(task[w]) /\ task[w] \in Task
    BY <1>0, <1>t, <1>g, <1>10, OfTask, SoundSendReceipt
  <2>2. task[w].pc = "free" /\ task[w].todo = {} /\ task[w].redo = {} /\ ~task[w].event /\ task[w].attempt = 0 /\ ~task[w].recovery
    BY <2>1, <1>10 DEF Shape, SendReceipt, Idle
  <2>3. server'.deliveriesDue => server.deliveriesDue
    BY <1>0, <1>10 DEF SendReceipt, TypeOK, Server, tables, bookingVars
  <2>4. Stores(w)' => Stores(w) /\ task'[w].mail = task[w].mail
    BY <1>0, <1>10, <2>1, <2>2, SendMailEffect, SupersedeEffect DEF Stores,
     Working, Turns, AdminMail, EventMail, SendReceipt
  <2>5. Recovers(w)' => Recovers(w)
    BY <1>0, <1>10, <2>1, <2>2, SendMailEffect, SupersedeEffect DEF Recovers,
     Working, Turns, AdminMail, EventMail, SendReceipt
  <2> QED BY <1>0, <2>1, <2>3, <2>4, <2>5, TokensKept
<1>11. ASSUME Crash PROVE TokensInv'
  <2>1. \A u \in Tasks : ~Stores(u)' /\ ~Recovers(u)'
    BY <1>0, <1>11, CrashEffect DEF Free, Stores, Recovers, Working
  <2> QED BY <2>1 DEF TokensInv
<1>12. ASSUME Restart PROVE TokensInv'
  <2>1. \A u \in Tasks : ~Recovers(u)
    BY <1>0, <1>12 DEF Restart, SourceInv, Idle, Recovers, Working
  <2> QED BY <1>0, <1>12, <2>1 DEF Restart, IInv, TokensInv, Stores, Recovers, Working
<1>13. ASSUME NEW w \in Tasks, NextRow(w) PROVE TokensInv'
  <2>1. Kept(w) /\ Sound(w) /\ Shape(task[w]) /\ task[w] \in Task
    BY <1>0, <1>t, <1>g, <1>13, OfTask, SoundNextRow
  <2>2. task[w].pc = "free" /\ ~task[w].event /\ task[w].attempt = 0 /\ ~task[w].recovery
    BY <2>1, <1>13 DEF Shape, NextRow, At
  <2>3. server'.deliveriesDue => server.deliveriesDue
    BY <1>0, <1>13 DEF NextRow, TypeOK, Server, tables, bookingVars
  <2>4. Stores(w)' => Stores(w) /\ task'[w].mail = task[w].mail
    BY <1>0, <1>13, <2>1, <2>2, NextRowEffect DEF Stores, Working, Turns
  <2>5. Recovers(w)' => Recovers(w)
    BY <1>0, <1>13, <2>1, <2>2, NextRowEffect DEF Recovers, Working, Turns,
     Shape
  <2> QED BY <1>0, <2>1, <2>3, <2>4, <2>5, TokensKept
<1>14. ASSUME NEW w \in Tasks, NextDelivery(w) PROVE TokensInv'
  <2>1. Kept(w) /\ Sound(w) /\ Shape(task[w]) /\ task[w] \in Task
    BY <1>0, <1>t, <1>g, <1>14, OfTask, SoundNextDelivery
  <2>2. task[w].pc = "free" /\ ~task[w].event /\ task[w].attempt = 0 /\ ~task[w].recovery
    BY <2>1, <1>14 DEF Shape, NextDelivery, At
  <2>3. server'.deliveriesDue => server.deliveriesDue
    BY <1>0, <1>14 DEF NextDelivery, TypeOK, Server, tables, bookingVars
  <2>4. Stores(w)' => Stores(w) /\ task'[w].mail = task[w].mail
    BY <1>0, <1>14, <2>1, <2>2, NextDeliveryEffect DEF Stores, Working, Turns
  <2>5. Recovers(w)' => Recovers(w)
    BY <1>0, <1>14, <2>1, <2>2, NextDeliveryEffect DEF Recovers, Working, Turns
  <2> QED BY <1>0, <2>1, <2>3, <2>4, <2>5, TokensKept
<1>15. ASSUME NEW w \in Tasks, Persist(w) PROVE TokensInv'
  <2>1. Kept(w) /\ Sound(w) /\ Shape(task[w])
    BY <1>0, <1>t, <1>g, <1>15, OfTask, SoundPersist
  <2>2. task[w].event /\ task[w].redo = {} /\ task[w].pc = "persist"
    BY <1>15, <2>1 DEF Persist, At, Shape
  <2>3. CASE Exists(task[w].mail)
    <3>1. ~Stores(w)' /\ ~Recovers(w)'
      BY <1>0, <1>15, <2>2, <2>3, PersistEffect DEF Stores, Recovers, Working, Turns
    <3>2. server' = server
      BY <1>15 DEF Persist
    <3> QED BY <1>0, <2>1, <3>1, <3>2, TokensKept
  <2>4. CASE ~Exists(task[w].mail)
    <3>1. \A u \in Tasks : Stores(u) => task[u].mail # task[w].mail
      BY <1>0, <2>4, OfTask DEF Stores, Sound
    <3>2. TokensInv /\ server' = server
      BY <1>0, <1>15 DEF IInv, Persist
    <3>3. ~Recovers(w)' /\ task'[w].mail = task[w].mail
      BY <1>0, <1>15, <2>2, PersistEffect DEF Recovers, Turns
    <3>4. /\ \A u \in Tasks : Recovers(u)' => Recovers(u)
          /\ \A u \in Tasks : Stores(u)' =>
               u = w \/ (Stores(u) /\ task'[u].mail = task[u].mail)
      BY <2>1, <3>3 DEF Kept, Stores, Recovers
    <3>5. \A u, v \in Tasks :
            Stores(u)' /\ Stores(v)' /\ task'[u].mail = task'[v].mail => u = v
      BY <3>1, <3>2, <3>3, <3>4 DEF TokensInv
    <3> QED BY <3>2, <3>4, <3>5 DEF TokensInv
  <2> QED BY <2>3, <2>4
<1>16. ASSUME NEW w \in Tasks, Load(w) PROVE TokensInv'
  <2>1. Kept(w) /\ Sound(w) /\ Shape(task[w]) /\ task[w] \in Task
    BY <1>0, <1>t, <1>g, <1>16, OfTask, SoundLoad
  <2>2. task[w].pc = "load" /\ task[w].attempt = 0 /\ ~task[w].recovery
    BY <2>1, <1>16 DEF Shape, Load, At
  <2>3. server'.deliveriesDue => server.deliveriesDue
    BY <1>0, <1>16 DEF Load, TypeOK, Server, tables, bookingVars
  <2>4. Stores(w)' => Stores(w) /\ task'[w].mail = task[w].mail
    BY <1>0, <1>16, <2>1, <2>2, LoadEffect DEF Stores, Working, Turns,
     Returned, Answered, Proceeds
  <2>5. Recovers(w)' => Recovers(w)
    BY <1>0, <1>16, <2>1, <2>2, LoadEffect DEF Recovers, Working, Turns,
     Returned, Answered, Proceeds, Shape
  <2> QED BY <1>0, <2>1, <2>3, <2>4, <2>5, TokensKept
<1>17. ASSUME NEW w \in Tasks, Claim(w) PROVE TokensInv'
  <2>1. Kept(w) /\ Sound(w) /\ Shape(task[w]) /\ task[w] \in Task
    BY <1>0, <1>t, <1>g, <1>17, OfTask, SoundClaim
  <2>2. task[w].pc = "claim"
    BY <2>1, <1>17 DEF Shape, Claim, At
  <2>3. server'.deliveriesDue => server.deliveriesDue
    BY <1>0, <1>17 DEF Claim, TypeOK, Server, tables, bookingVars
  <2>4. Stores(w)' => Stores(w) /\ task'[w].mail = task[w].mail
    BY <1>0, <1>17, <2>1, <2>2, ClaimEffect DEF Stores, Working, Turns,
     Returned, Answered, Freed, Reserves, Refuses, Shape
  <2>5. Recovers(w)' => Recovers(w)
    BY <1>0, <1>17, <2>1, <2>2, ClaimEffect DEF Recovers, Working, Turns,
     Returned, Answered, Freed, Reserves, Refuses, Shape
  <2> QED BY <1>0, <2>1, <2>3, <2>4, <2>5, TokensKept
<1>18. ASSUME NEW w \in Tasks, ClaimFails(w) PROVE TokensInv'
  <2>1. Kept(w) /\ Sound(w) /\ Shape(task[w]) /\ task[w] \in Task
    BY <1>0, <1>t, <1>g, <1>18, OfTask, SoundClaimFails
  <2>2. task[w].pc = "claim"
    BY <2>1, <1>18 DEF Shape, ClaimFails, At
  <2>3. server'.deliveriesDue => server.deliveriesDue
    BY <1>0, <1>18 DEF ClaimFails, Fault, TypeOK, Server, tables, bookingVars
  <2>4. Stores(w)' => Stores(w) /\ task'[w].mail = task[w].mail
    BY <1>0, <1>18, <2>1, <2>2, ClaimFailsEffect DEF Stores, Working, Turns,
     Answered, Freed, Shape
  <2>5. Recovers(w)' => Recovers(w)
    BY <1>0, <1>18, <2>1, <2>2, ClaimFailsEffect DEF Recovers, Working, Turns,
     Answered, Freed, Shape
  <2> QED BY <1>0, <2>1, <2>3, <2>4, <2>5, TokensKept
<1>19. ASSUME NEW w \in Tasks, Send(w) PROVE TokensInv'
  <2>1. Kept(w) /\ Sound(w) /\ Shape(task[w]) /\ task[w] \in Task
    BY <1>0, <1>t, <1>g, <1>19, OfTask, SoundSend
  <2>2. task[w].pc = "reserved"
    BY <2>1, <1>19 DEF Shape, Send, At
  <2>3. server'.deliveriesDue => server.deliveriesDue
    BY <1>0, <1>19 DEF Send, TypeOK, Server, tables, bookingVars
  <2>4. Stores(w)' => Stores(w) /\ task'[w].mail = task[w].mail
    BY <1>0, <1>19, <2>1, <2>2, SendEffect DEF Stores, Working, Turns,
     Answered, Sends, Answers
  <2>5. Recovers(w)' => Recovers(w)
    BY <1>0, <1>19, <2>1, <2>2, SendEffect DEF Recovers, Working, Turns,
     Answered, Sends, Answers
  <2> QED BY <1>0, <2>1, <2>3, <2>4, <2>5, TokensKept
<1>20. ASSUME NEW w \in Tasks, Record(w) PROVE TokensInv'
  <2>1. Kept(w) /\ Sound(w) /\ Shape(task[w]) /\ task[w] \in Task
    BY <1>0, <1>t, <1>g, <1>20, OfTask, SoundRecord
  <2>2. task[w].pc = "record"
    BY <2>1, <1>20 DEF Shape, Record, At
  <2>3. server'.deliveriesDue => server.deliveriesDue
    BY <1>0, <1>20 DEF Record, TypeOK, Server, tables, bookingVars
  <2>4. Stores(w)' => Stores(w) /\ task'[w].mail = task[w].mail
    BY <1>0, <1>20, <2>1, <2>2, RecordEffect DEF Stores, Working, Turns,
     Returned
  <2>5. Recovers(w)' => Recovers(w)
    BY <1>0, <1>20, <2>1, <2>2, RecordEffect DEF Recovers, Working, Turns,
     Returned
  <2> QED BY <1>0, <2>1, <2>3, <2>4, <2>5, TokensKept
<1>21. ASSUME NEW w \in Tasks, RecordFails(w) PROVE TokensInv'
  <2>1. Kept(w) /\ Sound(w) /\ Shape(task[w]) /\ task[w] \in Task
    BY <1>0, <1>t, <1>g, <1>21, OfTask, SoundRecordFails
  <2>2. task[w].pc = "record"
    BY <2>1, <1>21 DEF Shape, RecordFails, At
  <2>3. server'.deliveriesDue => server.deliveriesDue
    BY <1>0, <1>21 DEF RecordFails, Fault, TypeOK, Server, tables, bookingVars
  <2>4. Stores(w)' => Stores(w) /\ task'[w].mail = task[w].mail
    BY <1>0, <1>21, <2>1, <2>2, ReturnsEffect DEF Stores, Working, Turns,
     Returned
  <2>5. Recovers(w)' => Recovers(w)
    BY <1>0, <1>21, <2>1, <2>2, ReturnsEffect DEF Recovers, Working, Turns,
     Returned
  <2> QED BY <1>0, <2>1, <2>3, <2>4, <2>5, TokensKept
<1>22. ASSUME NEW w \in Tasks, MarkCompleted(w) PROVE TokensInv'
  <2>1. Kept(w) /\ Sound(w) /\ Shape(task[w]) /\ task[w] \in Task
    BY <1>0, <1>t, <1>g, <1>22, OfTask, SoundMarkCompleted
  <2>2. task[w].pc = "complete" /\ task[w].attempt = 0 /\ ~task[w].recovery /\ task[w].event /\ task[w].redo = {}
    BY <2>1, <1>22 DEF Shape, MarkCompleted, At
  <2>3. server'.deliveriesDue => server.deliveriesDue
    BY <1>0, <1>22 DEF MarkCompleted, TypeOK, Server, tables, bookingVars
  <2>4. Stores(w)' => Stores(w) /\ task'[w].mail = task[w].mail
    BY <1>0, <1>22, <2>1, <2>2, MarkCompletedEffect DEF Stores, Working, Turns,
     Freed
  <2>5. Recovers(w)' => Recovers(w)
    BY <1>0, <1>22, <2>1, <2>2, MarkCompletedEffect DEF Recovers, Working,
     Turns, Freed
  <2> QED BY <1>0, <2>1, <2>3, <2>4, <2>5, TokensKept
<1>23. ASSUME NEW w \in Tasks, Throw(w) PROVE TokensInv'
  <2>1. Kept(w) /\ Sound(w) /\ Shape(task[w]) /\ task[w] \in Task
    BY <1>0, <1>t, <1>g, <1>23, OfTask, SoundThrow
  <2>2. task[w].pc # "claim" /\ task[w].pc # "free"
    BY <2>1, <1>23 DEF Throw, At
  <2>3. server'.deliveriesDue => server.deliveriesDue
    BY <1>0, <1>23 DEF Throw, Fault, TypeOK, Server, tables, bookingVars
  <2>4. Stores(w)' => Stores(w) /\ task'[w].mail = task[w].mail
    BY <1>0, <1>23, <2>1, <2>2, ThrowEffect DEF Stores, Working, Turns, Freed
  <2>5. Recovers(w)' => Recovers(w)
    BY <1>0, <1>23, <2>1, <2>2, ThrowEffect DEF Recovers, Working, Turns,
     Freed, Shape
  <2> QED BY <1>0, <2>1, <2>3, <2>4, <2>5, TokensKept
<1>24. CASE UNCHANGED vars
  BY <1>0, <1>24 DEF vars, bookingVars, tables, IInv, TokensInv, Stores, Recovers,
     Working
<1> QED
  BY <1>1, <1>2, <1>3, <1>4, <1>5, <1>6, <1>7, <1>8, <1>9, <1>10, <1>11,
     <1>12, <1>13, <1>14, <1>15, <1>16, <1>17, <1>18, <1>19, <1>20, <1>21,
     <1>22, <1>23, <1>24 DEF Next, TaskStep

(* A delivery that was attempted looks so in its row.                      *)
LEMMA AttemptStep == ASSUME IInv, [Next]_vars PROVE AttemptInv'
<1>0. IInv /\ TypeOK /\ SourceInv
  BY DEF IInv
<1>1. ASSUME EndTrip PROVE AttemptInv'
  BY <1>0, <1>1, MarkedKept DEF EndTrip, AttemptInv, bookingVars, tables, Publish
<1>2. ASSUME Cancel PROVE AttemptInv'
  BY <1>0, <1>2, MarkedKept DEF Cancel, AttemptInv, bookingVars, tables, Publish
<1>3. ASSUME EditAddress PROVE AttemptInv'
  BY <1>0, <1>3, MarkedKept DEF EditAddress, AttemptInv, bookingVars, tables
<1>4. ASSUME NEW m \in Mail, ConfirmAccepted(m) PROVE AttemptInv'
  BY <1>0, <1>4, MarkedKept DEF ConfirmAccepted, AttemptInv, bookingVars, tables
<1>5. ASSUME NEW w \in Tasks, RecoverOutbox(w) PROVE AttemptInv'
  BY <1>0, <1>5, MarkedKept DEF RecoverOutbox, AttemptInv, bookingVars, tables
<1>6. ASSUME NEW w \in Tasks, RecoverDeliveries(w) PROVE AttemptInv'
  BY <1>0, <1>6, MarkedKept DEF RecoverDeliveries, AttemptInv, bookingVars, tables
<1>7. ASSUME NEW w \in Tasks, NEW e \in EventMail, Dispatch(w, e) PROVE AttemptInv'
  BY <1>0, <1>7, MarkedKept DEF Dispatch, AttemptInv, bookingVars, tables
<1>8. ASSUME NEW w \in Tasks, NEW m \in Mail, ApproveRetry(w, m) PROVE AttemptInv'
  BY <1>0, <1>8, MarkedKept DEF ApproveRetry, AttemptInv, bookingVars, tables
<1>9. ASSUME NEW w \in Tasks, SendConfirmation(w) PROVE AttemptInv'
  <2>1. "confirmation" \in AdminMail /\ "confirmation" \in Mail /\ Supersede("confirmation") /\ attempt' = attempt
    BY <1>9 DEF SendConfirmation, AdminMail, Mail
  <2>2. "confirmation" \notin approved
    BY <1>9 DEF SendConfirmation, ConfirmationEligible
  <2>3. ~SmtpTried("confirmation")
    BY <1>0, <2>1, <2>2 DEF IInv, SlotInv, AttemptInv, Marked
  <2>4. ASSUME NEW h \in Mail PROVE Marked(h)'
    <3>1. Marked(h)
      BY <1>0 DEF IInv, AttemptInv
    <3>2. CASE h = "confirmation"
      BY <1>0, <2>1, <2>3, <3>1, <3>2, SupersedeEffect DEF Marked, SmtpTried
    <3>3. CASE h # "confirmation" /\ delivery'[h] = delivery[h]
      BY <1>0, <2>1, <3>3, MarkedKept
    <3>4. CASE /\ ~SmtpTried(h) /\ delivery'[h].error = "POLICY"
      BY <2>1, <3>1, <3>4 DEF Marked, SmtpTried
    <3> QED BY <1>0, <2>1, <3>2, <3>3, <3>4, SupersedeEffect
  <2> QED BY <2>4 DEF AttemptInv
<1>10. ASSUME NEW w \in Tasks, SendReceipt(w) PROVE AttemptInv'
  <2>1. "receipt" \in AdminMail /\ "receipt" \in Mail /\ Supersede("receipt") /\ attempt' = attempt
    BY <1>10 DEF SendReceipt, AdminMail, Mail
  <2>2. "receipt" \notin approved
    BY <1>10 DEF SendReceipt, ReceiptEligible
  <2>3. ~SmtpTried("receipt")
    BY <1>0, <2>1, <2>2 DEF IInv, SlotInv, AttemptInv, Marked
  <2>4. ASSUME NEW h \in Mail PROVE Marked(h)'
    <3>1. Marked(h)
      BY <1>0 DEF IInv, AttemptInv
    <3>2. CASE h = "receipt"
      BY <1>0, <2>1, <2>3, <3>1, <3>2, SupersedeEffect DEF Marked, SmtpTried
    <3>3. CASE h # "receipt" /\ delivery'[h] = delivery[h]
      BY <1>0, <2>1, <3>3, MarkedKept
    <3>4. CASE /\ ~SmtpTried(h) /\ delivery'[h].error = "POLICY"
      BY <2>1, <3>1, <3>4 DEF Marked, SmtpTried
    <3> QED BY <1>0, <2>1, <3>2, <3>3, <3>4, SupersedeEffect
  <2> QED BY <2>4 DEF AttemptInv
<1>11. ASSUME Crash PROVE AttemptInv'
  BY <1>0, <1>11, MarkedKept DEF Crash, AttemptInv, bookingVars, tables
<1>12. ASSUME Restart PROVE AttemptInv'
  BY <1>0, <1>12, MarkedKept DEF Restart, AttemptInv, bookingVars, tables
<1>13. ASSUME NEW w \in Tasks, NextRow(w) PROVE AttemptInv'
  BY <1>0, <1>13, MarkedKept DEF NextRow, AttemptInv, bookingVars, tables
<1>14. ASSUME NEW w \in Tasks, NextDelivery(w) PROVE AttemptInv'
  BY <1>0, <1>14, MarkedKept DEF NextDelivery, AttemptInv, bookingVars, tables
<1>15. ASSUME NEW w \in Tasks, Persist(w) PROVE AttemptInv'
  <2>1. CASE Exists(task[w].mail)
    BY <1>0, <1>15, <2>1, MarkedKept DEF Persist, AttemptInv
  <2>2. CASE ~Exists(task[w].mail)
    <3>1. DeliveryTurns(task[w].mail, "PENDING", 0, "none") /\ attempt' = attempt
      BY <1>0, <1>15, <2>2, PersistEffect DEF Persist
    <3>2. Marked(task[w].mail) /\ task[w].mail \in Mail
      BY <1>0, OfTask DEF IInv, AttemptInv
    <3>3. \A m \in Mail : m = task[w].mail => Marked(m)'
      BY <2>2, <3>1, <3>2 DEF DeliveryTurns, Marked, SmtpTried
    <3>4. \A m \in Mail : m # task[w].mail => Marked(m)'
      BY <1>0, <3>1, MarkedKept DEF DeliveryTurns
    <3> QED BY <3>3, <3>4 DEF AttemptInv
  <2> QED BY <2>1, <2>2
<1>16. ASSUME NEW w \in Tasks, Load(w) PROVE AttemptInv'
  BY <1>0, <1>16, MarkedKept DEF Load, AttemptInv, bookingVars, tables
<1>17. ASSUME NEW w \in Tasks, Claim(w) PROVE AttemptInv'
  <2>1. CASE Refuses(w)
    BY <1>0, <2>1, MarkedKept DEF Refuses, AttemptInv
  <2>2. CASE Reserves(w)
    <3> DEFINE m == task[w].mail
    <3>1. m \in Mail /\ Sound(w) /\ task[w].pc = "claim" /\ delivery[m] \in DeliveryRow
      BY <1>0, <1>17, OfTask DEF Claim, At, TypeOK
    <3>2. Exists(m) /\ attempt[m].n \in Nat /\ delivery[m].attempts \in Nat
      BY <1>0, <3>1 DEF Sound, Working, TypeOK, AttemptRow, DeliveryRow
    <3>3. \A h \in Mail : h = m => Marked(h)'
      BY <2>2, <3>1, <3>2
         DEF Reserves, AttemptTurns, DeliveryTurns, Marked, SmtpTried, Exists, PermanentErrors, MailErrors
    <3>4. \A h \in Mail : h # m => Marked(h)'
      BY <1>0, <2>2, MarkedKept DEF Reserves, AttemptTurns, DeliveryTurns
    <3> QED BY <3>3, <3>4 DEF AttemptInv
  <2> QED BY <1>0, <1>17, <2>1, <2>2, ClaimEffect
<1>18. ASSUME NEW w \in Tasks, ClaimFails(w) PROVE AttemptInv'
  BY <1>0, <1>18, MarkedKept DEF ClaimFails, AttemptInv, bookingVars, tables
<1>19. ASSUME NEW w \in Tasks, Send(w) PROVE AttemptInv'
  <2>1. \A m \in Mail : attempt'[m].n = attempt[m].n /\ attempt'[m].outcome = attempt[m].outcome
    BY <1>0, <1>19, SendEffect, OfTask DEF Sends, AttemptTurns
  <2> QED BY <1>0, <1>19, <2>1, MarkedKept DEF Send, AttemptInv
<1>20. ASSUME NEW w \in Tasks, Record(w) PROVE AttemptInv'
  <2> DEFINE m == task[w].mail
             r == task[w].result
             held == task[w].attempt
             o == IF held > 0 /\ held = attempt[m].n /\ attempt[m].outcome = "SENDING"
                  THEN r ELSE attempt[m].outcome
             s == IF held = 0 /\ delivery[m].attempts < 3 THEN delivery[m].attempts + 1
                  ELSE delivery[m].attempts
  <2>1. /\ m \in Mail /\ Sound(w) /\ Shape(task[w]) /\ task[w].pc = "record" /\ Marked(m)
        /\ delivery[m] \in DeliveryRow /\ attempt[m] \in AttemptRow /\ held \in Nat
    BY <1>0, <1>20, OfTask DEF Record, At, TypeOK, IInv, AttemptInv, Task
  <2>2. AttemptTurns(m, attempt[m].n, o) /\ DeliveryTurns(m, StatusOf(r), s, ErrorOf(r))
    BY <1>0, <1>20, RecordEffect
  <2>3. \A h \in Mail : h # m => Marked(h)'
    BY <1>0, <2>2, MarkedKept DEF AttemptTurns, DeliveryTurns
  <2>4. r \in {"ACCEPTED", "NOT_ACCEPTED", "UNKNOWN", "SKIP", "INVALID"}
        /\ (r = "INVALID" => m \in EventMail) /\ (held > 0 => r # "SKIP" /\ r # "INVALID")
    BY <2>1 DEF Shape, Answers
  <2>5. /\ StatusOf(r) # "NONE"
        /\ StatusOf(r) \in {"DELIVERED", "SKIPPED"} \/ ErrorOf(r) \in PermanentErrors
        /\ ErrorOf(r) = "INVALID_RECIPIENT" => m \in EventMail
    BY <2>4 DEF StatusOf, ErrorOf, PermanentErrors, MailErrors
  <2>6. attempt[m].n > 0 => s > 0
    BY <2>1 DEF Marked, SmtpTried, DeliveryRow
  <2>7. o = "none" <=> ~(attempt[m].n > 0)
    BY <2>1, <2>4 DEF Marked, SmtpTried, AttemptRow
  <2> HIDE DEF o, s
  <2>8. \A h \in Mail : h = m => Marked(h)'
    BY <2>2, <2>5, <2>6, <2>7 DEF AttemptTurns, DeliveryTurns, Marked, SmtpTried, Exists
  <2> QED BY <2>3, <2>8 DEF AttemptInv
<1>21. ASSUME NEW w \in Tasks, RecordFails(w) PROVE AttemptInv'
  BY <1>0, <1>21, MarkedKept DEF RecordFails, AttemptInv, bookingVars, tables
<1>22. ASSUME NEW w \in Tasks, MarkCompleted(w) PROVE AttemptInv'
  BY <1>0, <1>22, MarkedKept DEF MarkCompleted, AttemptInv, bookingVars, tables
<1>23. ASSUME NEW w \in Tasks, Throw(w) PROVE AttemptInv'
  BY <1>0, <1>23, MarkedKept DEF Throw, AttemptInv, bookingVars, tables
<1>24. CASE UNCHANGED vars
  BY <1>0, <1>24, MarkedKept DEF vars, tables, AttemptInv
<1> QED
  BY <1>1, <1>2, <1>3, <1>4, <1>5, <1>6, <1>7, <1>8, <1>9, <1>10, <1>11,
     <1>12, <1>13, <1>14, <1>15, <1>16, <1>17, <1>18, <1>19, <1>20, <1>21,
     <1>22, <1>23, <1>24 DEF Next, TaskStep

(* Whoever is about to send a mail again finds that out.                   *)
LEMMA BlotStep == ASSUME IInv, [Next]_vars PROVE BlotInv'
<1>0. IInv /\ TypeOK /\ SourceInv
  BY DEF IInv
<1>t. TypeOK'
  BY TypeStep
<1>g. Grows
  BY GrowsStep
<1>1. ASSUME EndTrip PROVE BlotInv'
  BY <1>0, <1>1 DEF EndTrip, IInv, BlotInv, Automatic, Blotted, SmtpTried, tables
<1>2. ASSUME Cancel PROVE BlotInv'
  BY <1>0, <1>2 DEF Cancel, IInv, BlotInv, Automatic, Blotted, SmtpTried, tables
<1>3. ASSUME EditAddress PROVE BlotInv'
  BY <1>0, <1>3 DEF EditAddress, IInv, BlotInv, Automatic, Blotted, SmtpTried, tables
<1>4. ASSUME NEW m \in Mail, ConfirmAccepted(m) PROVE BlotInv'
  BY <1>0, <1>4 DEF ConfirmAccepted, IInv, BlotInv, Automatic, Blotted, SmtpTried, tables
<1>5. ASSUME NEW w \in Tasks, RecoverOutbox(w) PROVE BlotInv'
  <2>1. Kept(w) /\ Shape(task[w]) /\ task[w] \in Task
    BY <1>0, <1>t, <1>g, <1>5, OfTask, SoundRecoverOutbox
  <2>2. task[w].pc = "free" /\ task[w].todo = {} /\ task[w].redo = {} /\ ~task[w].event /\ task[w].attempt = 0 /\ ~task[w].recovery
    BY <2>1, <1>5 DEF Shape, RecoverOutbox, Idle
  <2>3. \A m \in Mail : attempt'[m].n = attempt[m].n
    BY <1>5 DEF RecoverOutbox, tables
  <2>4. \A m \in Mail : delivery'[m].error = "INVALID_RECIPIENT" => Blotted(m)
    BY <1>5 DEF RecoverOutbox, tables, Blotted
  <2>5. ~(task'[w].pc = "record" /\ task'[w].result = "INVALID")
    BY <1>0, <1>5, <2>1, <2>2, RecoverOutboxEffect DEF Turns
  <2>6. task'[w].pc = "claim" => task'[w].recovery
    BY <1>0, <1>5, <2>1, <2>2, RecoverOutboxEffect DEF Turns
  <2> QED BY <1>0, <2>1, <2>3, <2>4, <2>5, <2>6, WarnedKept
<1>6. ASSUME NEW w \in Tasks, RecoverDeliveries(w) PROVE BlotInv'
  <2>1. Kept(w) /\ Shape(task[w]) /\ task[w] \in Task
    BY <1>0, <1>t, <1>g, <1>6, OfTask, SoundRecoverDeliveries
  <2>2. task[w].pc = "free" /\ task[w].todo = {} /\ task[w].redo = {} /\ ~task[w].event /\ task[w].attempt = 0 /\ ~task[w].recovery
    BY <2>1, <1>6 DEF Shape, RecoverDeliveries, Idle
  <2>3. \A m \in Mail : attempt'[m].n = attempt[m].n
    BY <1>6 DEF RecoverDeliveries, tables
  <2>4. \A m \in Mail : delivery'[m].error = "INVALID_RECIPIENT" => Blotted(m)
    BY <1>6 DEF RecoverDeliveries, tables, Blotted
  <2>5. ~(task'[w].pc = "record" /\ task'[w].result = "INVALID")
    BY <1>0, <1>6, <2>1, <2>2, RecoverDeliveriesEffect DEF Turns
  <2>6. task'[w].pc = "claim" => task'[w].recovery
    BY <1>0, <1>6, <2>1, <2>2, RecoverDeliveriesEffect DEF Turns
  <2> QED BY <1>0, <2>1, <2>3, <2>4, <2>5, <2>6, WarnedKept
<1>7. ASSUME NEW w \in Tasks, NEW e \in EventMail, Dispatch(w, e) PROVE BlotInv'
  <2>1. Kept(w) /\ Shape(task[w]) /\ task[w] \in Task
    BY <1>0, <1>t, <1>g, <1>7, OfTask, SoundDispatch
  <2>2. task[w].pc = "free" /\ task[w].todo = {} /\ task[w].redo = {} /\ ~task[w].event /\ task[w].attempt = 0 /\ ~task[w].recovery
    BY <2>1, <1>7 DEF Shape, Dispatch, Idle
  <2>3. \A m \in Mail : attempt'[m].n = attempt[m].n
    BY <1>7 DEF Dispatch, tables
  <2>4. \A m \in Mail : delivery'[m].error = "INVALID_RECIPIENT" => Blotted(m)
    BY <1>7 DEF Dispatch, tables, Blotted
  <2>5. ~(task'[w].pc = "record" /\ task'[w].result = "INVALID")
    BY <1>0, <1>7, <2>1, <2>2, DispatchEffect DEF Turns, Dispatch
  <2>6. task'[w].pc = "claim" => task'[w].recovery
    BY <1>0, <1>7, <2>1, <2>2, DispatchEffect DEF Turns, Dispatch
  <2> QED BY <1>0, <2>1, <2>3, <2>4, <2>5, <2>6, WarnedKept
<1>8. ASSUME NEW w \in Tasks, NEW m \in Mail, ApproveRetry(w, m) PROVE BlotInv'
  <2>1. Kept(w) /\ Shape(task[w]) /\ task[w] \in Task
    BY <1>0, <1>t, <1>g, <1>8, OfTask, SoundApproveRetry
  <2>2. task[w].pc = "free" /\ task[w].todo = {} /\ task[w].redo = {} /\ ~task[w].event /\ task[w].attempt = 0 /\ ~task[w].recovery
    BY <2>1, <1>8 DEF Shape, ApproveRetry, Idle
  <2>3. \A h \in Mail : attempt'[h].n = attempt[h].n
    BY <1>8 DEF ApproveRetry, tables
  <2>4. \A h \in Mail : delivery'[h].error = "INVALID_RECIPIENT" => Blotted(h)
    BY <1>8 DEF ApproveRetry, tables, Blotted
  <2>5. ~(task'[w].pc = "record" /\ task'[w].result = "INVALID")
    BY <1>0, <1>8, <2>1, <2>2, ApproveRetryEffect DEF Turns
  <2>6. task'[w].pc = "claim" => task'[w].recovery
    BY <1>0, <1>8, <2>1, <2>2, ApproveRetryEffect DEF Turns
  <2> QED BY <1>0, <2>1, <2>3, <2>4, <2>5, <2>6, WarnedKept
<1>9. ASSUME NEW w \in Tasks, SendConfirmation(w) PROVE BlotInv'
  <2>1. Kept(w) /\ Shape(task[w]) /\ task[w] \in Task
    BY <1>0, <1>t, <1>g, <1>9, OfTask, SoundSendConfirmation
  <2>2. task[w].pc = "free" /\ task[w].todo = {} /\ task[w].redo = {} /\ ~task[w].event /\ task[w].attempt = 0 /\ ~task[w].recovery
    BY <2>1, <1>9 DEF Shape, SendConfirmation, Idle
  <2>3. \A m \in Mail : attempt'[m].n = attempt[m].n
    BY <1>9 DEF SendConfirmation, tables
  <2>4. \A m \in Mail : delivery'[m].error = "INVALID_RECIPIENT" => Blotted(m)
    BY <1>0, <1>9, SupersedeEffect DEF SendConfirmation, AdminMail, Blotted
  <2>5. ~(task'[w].pc = "record" /\ task'[w].result = "INVALID")
    BY <1>0, <1>9, <2>1, <2>2, SendMailEffect, SupersedeEffect DEF Turns,
     AdminMail, SendConfirmation
  <2>6. task'[w].pc = "claim" => task'[w].recovery
    BY <1>0, <1>9, <2>1, <2>2, SendMailEffect, SupersedeEffect DEF Turns,
     AdminMail, SendConfirmation
  <2> QED BY <1>0, <2>1, <2>3, <2>4, <2>5, <2>6, WarnedKept
<1>10. ASSUME NEW w \in Tasks, SendReceipt(w) PROVE BlotInv'
  <2>1. Kept(w) /\ Shape(task[w]) /\ task[w] \in Task
    BY <1>0, <1>t, <1>g, <1>10, OfTask, SoundSendReceipt
  <2>2. task[w].pc = "free" /\ task[w].todo = {} /\ task[w].redo = {} /\ ~task[w].event /\ task[w].attempt = 0 /\ ~task[w].recovery
    BY <2>1, <1>10 DEF Shape, SendReceipt, Idle
  <2>3. \A m \in Mail : attempt'[m].n = attempt[m].n
    BY <1>10 DEF SendReceipt, tables
  <2>4. \A m \in Mail : delivery'[m].error = "INVALID_RECIPIENT" => Blotted(m)
    BY <1>0, <1>10, SupersedeEffect DEF SendReceipt, AdminMail, Blotted
  <2>5. ~(task'[w].pc = "record" /\ task'[w].result = "INVALID")
    BY <1>0, <1>10, <2>1, <2>2, SendMailEffect, SupersedeEffect DEF Turns,
     AdminMail, SendReceipt
  <2>6. task'[w].pc = "claim" => task'[w].recovery
    BY <1>0, <1>10, <2>1, <2>2, SendMailEffect, SupersedeEffect DEF Turns,
     AdminMail, SendReceipt
  <2> QED BY <1>0, <2>1, <2>3, <2>4, <2>5, <2>6, WarnedKept
<1>11. ASSUME Crash PROVE BlotInv'
  <2>1. \A u \in Tasks, m \in Mail : ~Automatic(u, m)'
    BY <1>11, <1>0, CrashEffect DEF Automatic, Free
  <2> QED BY <2>1 DEF BlotInv
<1>12. ASSUME Restart PROVE BlotInv'
  BY <1>0, <1>12 DEF Restart, IInv, BlotInv, Automatic, Blotted, SmtpTried, tables
<1>13. ASSUME NEW w \in Tasks, NextRow(w) PROVE BlotInv'
  <2>1. Kept(w) /\ Shape(task[w]) /\ task[w] \in Task
    BY <1>0, <1>t, <1>g, <1>13, OfTask, SoundNextRow
  <2>2. task[w].pc = "free" /\ ~task[w].event /\ task[w].attempt = 0 /\ ~task[w].recovery
    BY <2>1, <1>13 DEF Shape, NextRow, At
  <2>3. \A m \in Mail : attempt'[m].n = attempt[m].n
    BY <1>13 DEF NextRow, tables
  <2>4. \A m \in Mail : delivery'[m].error = "INVALID_RECIPIENT" => Blotted(m)
    BY <1>13 DEF NextRow, tables, Blotted
  <2>5. ~(task'[w].pc = "record" /\ task'[w].result = "INVALID")
    BY <1>0, <1>13, <2>1, <2>2, NextRowEffect DEF Turns
  <2>6. task'[w].pc = "claim" => task'[w].recovery
    BY <1>0, <1>13, <2>1, <2>2, NextRowEffect DEF Turns
  <2> QED BY <1>0, <2>1, <2>3, <2>4, <2>5, <2>6, WarnedKept
<1>14. ASSUME NEW w \in Tasks, NextDelivery(w) PROVE BlotInv'
  <2>1. Kept(w) /\ Shape(task[w]) /\ task[w] \in Task
    BY <1>0, <1>t, <1>g, <1>14, OfTask, SoundNextDelivery
  <2>2. task[w].pc = "free" /\ ~task[w].event /\ task[w].attempt = 0 /\ ~task[w].recovery
    BY <2>1, <1>14 DEF Shape, NextDelivery, At
  <2>3. \A m \in Mail : attempt'[m].n = attempt[m].n
    BY <1>14 DEF NextDelivery, tables
  <2>4. \A m \in Mail : delivery'[m].error = "INVALID_RECIPIENT" => Blotted(m)
    BY <1>14 DEF NextDelivery, tables, Blotted
  <2>5. ~(task'[w].pc = "record" /\ task'[w].result = "INVALID")
    BY <1>0, <1>14, <2>1, <2>2, NextDeliveryEffect DEF Turns
  <2>6. task'[w].pc = "claim" => task'[w].recovery
    BY <1>0, <1>14, <2>1, <2>2, NextDeliveryEffect DEF Turns
  <2> QED BY <1>0, <2>1, <2>3, <2>4, <2>5, <2>6, WarnedKept
<1>15. ASSUME NEW w \in Tasks, Persist(w) PROVE BlotInv'
  <2>1. Kept(w) /\ Shape(task[w]) /\ task[w] \in Task
    BY <1>0, <1>t, <1>g, <1>15, OfTask, SoundPersist
  <2>2. task[w].pc = "persist" /\ task[w].attempt = 0 /\ ~task[w].recovery /\ task[w].event /\ task[w].redo = {}
    BY <2>1, <1>15 DEF Shape, Persist, At
  <2>3. \A m \in Mail : attempt'[m].n = attempt[m].n
    BY <1>15 DEF Persist, tables
  <2>4. \A m \in Mail : delivery'[m].error = "INVALID_RECIPIENT" => Blotted(m)
    BY <1>0, <1>15, PersistEffect DEF DeliveryTurns, Blotted
  <2>5. ~(task'[w].pc = "record" /\ task'[w].result = "INVALID")
    BY <1>0, <1>15, <2>1, <2>2, PersistEffect DEF Turns
  <2>6. task'[w].pc = "claim" => task'[w].recovery
    BY <1>0, <1>15, <2>1, <2>2, PersistEffect DEF Turns
  <2> QED BY <1>0, <2>1, <2>3, <2>4, <2>5, <2>6, WarnedKept
<1>16. ASSUME NEW w \in Tasks, Load(w) PROVE BlotInv'
  <2>1. Kept(w) /\ Sound(w) /\ Shape(task[w]) /\ task[w] \in Task /\ task[w].mail \in Mail
    BY <1>0, <1>t, <1>g, <1>16, OfTask, SoundLoad
  <2>2. UNCHANGED <<attempt, delivery>>
    BY <1>16 DEF Load, tables
  <2>3. CASE Returned(w)
    <3>1. task'[w].pc \notin {"claim", "record"}
      BY <2>3 DEF Returned, Turns
    <3> QED BY <1>0, <2>1, <2>2, <3>1, WarnedKept DEF Blotted
  <2>4. CASE Answered(w, "SKIP")
    <3>1. task'[w].pc # "claim" /\ task'[w].result # "INVALID"
      BY <2>4 DEF Answered, Turns
    <3> QED BY <1>0, <2>1, <2>2, <3>1, WarnedKept DEF Blotted
  <2>5. ASSUME Open(task[w].mail) PROVE ~SmtpTried(task[w].mail)
    BY <1>0, <2>1, <2>5 DEF IInv, AttemptInv, Marked, Open
  <2>6. CASE Open(task[w].mail) /\ Answered(w, "INVALID")
    <3>1. \A u \in Tasks, m \in Mail : Automatic(u, m)' => Automatic(u, m)
      BY <2>1, <2>6 DEF Kept, Automatic, Answered, Turns
    <3>2. \A m \in Mail : Blotted(m)' => Blotted(m) \/ m = task[w].mail
      BY <2>1, <2>2, <2>6 DEF Kept, Blotted, Answered, Turns
    <3> QED BY <1>0, <2>2, <2>5, <2>6, <3>1, <3>2 DEF IInv, BlotInv, SmtpTried
  <2>7. CASE Open(task[w].mail) /\ Proceeds(w)
    <3>1. \A u \in Tasks, m \in Mail : Automatic(u, m)' => Automatic(u, m) \/ m = task[w].mail
      BY <2>1, <2>7 DEF Kept, Automatic, Proceeds, Turns
    <3>2. \A m \in Mail : Blotted(m)' => Blotted(m)
      BY <2>1, <2>2, <2>7 DEF Kept, Blotted, Proceeds, Turns
    <3> QED BY <1>0, <2>2, <2>5, <2>7, <3>1, <3>2 DEF IInv, BlotInv, SmtpTried
  <2> QED BY <1>0, <1>16, <2>3, <2>4, <2>6, <2>7, LoadEffect
<1>17. ASSUME NEW w \in Tasks, Claim(w) PROVE BlotInv'
  <2>1. Kept(w) /\ Sound(w) /\ Shape(task[w]) /\ task[w] \in Task /\ task[w].mail \in Mail
    BY <1>0, <1>t, <1>g, <1>17, OfTask, SoundClaim
  <2>2. task[w].pc = "claim"
    BY <1>17 DEF Claim, At
  <2>3. CASE Refuses(w)
    <3>1. task'[w].pc # "claim" /\ ~(task'[w].pc = "record" /\ task'[w].result = "INVALID")
      BY <2>3 DEF Refuses, Answered, Returned, Freed, Turns
    <3> QED BY <1>0, <2>1, <2>3, <3>1, WarnedKept DEF Refuses, Blotted
  <2>4. CASE Reserves(w)
    <3> DEFINE m == task[w].mail
    <3>1. \A u \in Tasks, h \in Mail : Automatic(u, h)' => u # w /\ Automatic(u, h)
      BY <2>1, <2>4 DEF Kept, Automatic, Reserves, Turns
    <3>2. \A h \in Mail : Blotted(h)' => Blotted(h)
      BY <2>1, <2>4 DEF Kept, Blotted, Reserves, Turns, DeliveryTurns
    <3>3. \A h \in Mail : h # m => (SmtpTried(h)' <=> SmtpTried(h))
      BY <2>4 DEF Reserves, AttemptTurns, SmtpTried
    <3>4. CASE task[w].recovery
      <4>1. SmtpTried(m)
        BY <2>1, <2>2, <2>4, <3>4 DEF Reserves, Shape, SmtpTried
      <4> QED BY <1>0, <2>1, <3>1, <3>2, <3>3, <4>1 DEF IInv, BlotInv
    <3>5. CASE ~task[w].recovery
      <4>1. ASSUME NEW u \in Tasks, NEW h \in Mail, h = m, u # w, Automatic(u, h), Blotted(h)'
            PROVE  FALSE
        <5>1. delivery'[h].error # "INVALID_RECIPIENT"
          BY <2>1, <2>4, <4>1 DEF Reserves, DeliveryTurns
        <5>2. PICK v \in Tasks : /\ task'[v].mail = h /\ task'[v].pc = "record"
                                /\ task'[v].result = "INVALID"
          BY <4>1, <5>1 DEF Blotted
        <5>3. v # w /\ task[v] = task'[v]
          BY <2>1, <2>4, <5>2 DEF Kept, Reserves, Turns
        <5>4. Shape(task[v]) /\ task[v] \in Task
          BY <1>0, OfTask
        <5>5. ~task[v].recovery /\ h \in EventMail
          BY <5>2, <5>3, <5>4 DEF Shape, Answers, Task
        <5>6. /\ Stores(u) \/ Recovers(u)
              /\ Stores(v) \/ Recovers(v)
              /\ Stores(w) \/ Recovers(w)
          BY <2>2, <3>5, <4>1, <5>2, <5>3, <5>5 DEF Automatic, Stores, Recovers, Working
        <5>7. u # v /\ task[u].mail = h /\ task[v].mail = h /\ task[w].mail = h
          BY <4>1, <5>2, <5>3 DEF Automatic
        <5> QED BY <1>0, <4>1, <5>3, <5>6, <5>7 DEF IInv, TokensInv
      <4>2. ASSUME NEW u \in Tasks, NEW h \in Mail, Automatic(u, h)', SmtpTried(h)', Blotted(h)'
            PROVE  FALSE
        <5>1. u # w /\ Automatic(u, h) /\ Blotted(h)
          BY <3>1, <3>2, <4>2
        <5>2. h = m
          BY <1>0, <3>3, <4>2, <5>1 DEF IInv, BlotInv
        <5> QED BY <4>1, <4>2, <5>1, <5>2
      <4> QED BY <4>2 DEF BlotInv
    <3> QED BY <3>4, <3>5
  <2> QED BY <1>0, <1>17, <2>3, <2>4, ClaimEffect
<1>18. ASSUME NEW w \in Tasks, ClaimFails(w) PROVE BlotInv'
  <2>1. Kept(w) /\ Shape(task[w]) /\ task[w] \in Task
    BY <1>0, <1>t, <1>g, <1>18, OfTask, SoundClaimFails
  <2>2. task[w].pc = "claim"
    BY <2>1, <1>18 DEF Shape, ClaimFails, At
  <2>3. \A m \in Mail : attempt'[m].n = attempt[m].n
    BY <1>18 DEF ClaimFails, tables
  <2>4. \A m \in Mail : delivery'[m].error = "INVALID_RECIPIENT" => Blotted(m)
    BY <1>18 DEF ClaimFails, tables, Blotted
  <2>5. ~(task'[w].pc = "record" /\ task'[w].result = "INVALID")
    BY <1>0, <1>18, <2>1, <2>2, ClaimFailsEffect DEF Turns, Answered, Freed
  <2>6. task'[w].pc = "claim" => task'[w].recovery
    BY <1>0, <1>18, <2>1, <2>2, ClaimFailsEffect DEF Turns, Answered, Freed
  <2> QED BY <1>0, <2>1, <2>3, <2>4, <2>5, <2>6, WarnedKept
<1>19. ASSUME NEW w \in Tasks, Send(w) PROVE BlotInv'
  <2>1. Kept(w) /\ Shape(task[w]) /\ task[w] \in Task
    BY <1>0, <1>t, <1>g, <1>19, OfTask, SoundSend
  <2>2. task[w].pc = "reserved"
    BY <2>1, <1>19 DEF Shape, Send, At
  <2>3. \A m \in Mail : attempt'[m].n = attempt[m].n
    BY <1>0, <1>19, SendEffect, OfTask DEF Sends, AttemptTurns
  <2>4. \A m \in Mail : delivery'[m].error = "INVALID_RECIPIENT" => Blotted(m)
    BY <1>19 DEF Send, tables, Blotted
  <2>5. ~(task'[w].pc = "record" /\ task'[w].result = "INVALID")
    BY <1>0, <1>19, <2>1, <2>2, SendEffect DEF Turns, Answered, Sends, Answers
  <2>6. task'[w].pc = "claim" => task'[w].recovery
    BY <1>0, <1>19, <2>1, <2>2, SendEffect DEF Turns, Answered, Sends, Answers
  <2> QED BY <1>0, <2>1, <2>3, <2>4, <2>5, <2>6, WarnedKept
<1>20. ASSUME NEW w \in Tasks, Record(w) PROVE BlotInv'
  <2>1. Kept(w) /\ Shape(task[w]) /\ task[w] \in Task
    BY <1>0, <1>t, <1>g, <1>20, OfTask, SoundRecord
  <2>2. task[w].pc = "record"
    BY <2>1, <1>20 DEF Shape, Record, At
  <2>3. \A m \in Mail : attempt'[m].n = attempt[m].n
    BY <1>0, <1>20, RecordEffect, OfTask DEF AttemptTurns
  <2>4. \A m \in Mail : delivery'[m].error = "INVALID_RECIPIENT" => Blotted(m)
    <3>1. ErrorOf(task[w].result) = "INVALID_RECIPIENT" => task[w].result = "INVALID"
      BY DEF ErrorOf
    <3> QED BY <1>0, <1>20, <2>2, <3>1, RecordEffect DEF DeliveryTurns, Blotted
  <2>5. ~(task'[w].pc = "record" /\ task'[w].result = "INVALID")
    BY <1>0, <1>20, <2>1, <2>2, RecordEffect DEF Turns, Returned
  <2>6. task'[w].pc = "claim" => task'[w].recovery
    BY <1>0, <1>20, <2>1, <2>2, RecordEffect DEF Turns, Returned
  <2> QED BY <1>0, <2>1, <2>3, <2>4, <2>5, <2>6, WarnedKept
<1>21. ASSUME NEW w \in Tasks, RecordFails(w) PROVE BlotInv'
  <2>1. Kept(w) /\ Shape(task[w]) /\ task[w] \in Task
    BY <1>0, <1>t, <1>g, <1>21, OfTask, SoundRecordFails
  <2>2. task[w].pc = "record"
    BY <2>1, <1>21 DEF Shape, RecordFails, At
  <2>3. \A m \in Mail : attempt'[m].n = attempt[m].n
    BY <1>21 DEF RecordFails, tables
  <2>4. \A m \in Mail : delivery'[m].error = "INVALID_RECIPIENT" => Blotted(m)
    BY <1>21 DEF RecordFails, tables, Blotted
  <2>5. ~(task'[w].pc = "record" /\ task'[w].result = "INVALID")
    BY <1>0, <1>21, <2>1, <2>2, ReturnsEffect DEF Turns, Returned
  <2>6. task'[w].pc = "claim" => task'[w].recovery
    BY <1>0, <1>21, <2>1, <2>2, ReturnsEffect DEF Turns, Returned
  <2> QED BY <1>0, <2>1, <2>3, <2>4, <2>5, <2>6, WarnedKept
<1>22. ASSUME NEW w \in Tasks, MarkCompleted(w) PROVE BlotInv'
  <2>1. Kept(w) /\ Shape(task[w]) /\ task[w] \in Task
    BY <1>0, <1>t, <1>g, <1>22, OfTask, SoundMarkCompleted
  <2>2. task[w].pc = "complete" /\ task[w].attempt = 0 /\ ~task[w].recovery /\ task[w].event /\ task[w].redo = {}
    BY <2>1, <1>22 DEF Shape, MarkCompleted, At
  <2>3. \A m \in Mail : attempt'[m].n = attempt[m].n
    BY <1>22 DEF MarkCompleted, tables
  <2>4. \A m \in Mail : delivery'[m].error = "INVALID_RECIPIENT" => Blotted(m)
    BY <1>22 DEF MarkCompleted, tables, Blotted
  <2>5. ~(task'[w].pc = "record" /\ task'[w].result = "INVALID")
    BY <1>0, <1>22, <2>1, <2>2, MarkCompletedEffect DEF Turns, Freed
  <2>6. task'[w].pc = "claim" => task'[w].recovery
    BY <1>0, <1>22, <2>1, <2>2, MarkCompletedEffect DEF Turns, Freed
  <2> QED BY <1>0, <2>1, <2>3, <2>4, <2>5, <2>6, WarnedKept
<1>23. ASSUME NEW w \in Tasks, Throw(w) PROVE BlotInv'
  <2>1. Kept(w) /\ Shape(task[w]) /\ task[w] \in Task
    BY <1>0, <1>t, <1>g, <1>23, OfTask, SoundThrow
  <2>2. task[w].pc # "claim" /\ task[w].pc # "free"
    BY <2>1, <1>23 DEF Throw, At
  <2>3. \A m \in Mail : attempt'[m].n = attempt[m].n
    BY <1>23 DEF Throw, tables
  <2>4. \A m \in Mail : delivery'[m].error = "INVALID_RECIPIENT" => Blotted(m)
    BY <1>23 DEF Throw, tables, Blotted
  <2>5. ~(task'[w].pc = "record" /\ task'[w].result = "INVALID")
    BY <1>0, <1>23, <2>1, <2>2, ThrowEffect DEF Turns, Freed
  <2>6. task'[w].pc = "claim" => task'[w].recovery
    BY <1>0, <1>23, <2>1, <2>2, ThrowEffect DEF Turns, Freed
  <2> QED BY <1>0, <2>1, <2>3, <2>4, <2>5, <2>6, WarnedKept
<1>24. CASE UNCHANGED vars
  BY <1>0, <1>24 DEF vars, bookingVars, tables, IInv, BlotInv, Automatic, Blotted,
     SmtpTried
<1> QED
  BY <1>1, <1>2, <1>3, <1>4, <1>5, <1>6, <1>7, <1>8, <1>9, <1>10, <1>11,
     <1>12, <1>13, <1>14, <1>15, <1>16, <1>17, <1>18, <1>19, <1>20, <1>21,
     <1>22, <1>23, <1>24 DEF Next, TaskStep

(* The attempt under way keeps its one holder.                             *)
LEMMA HolderStep == ASSUME IInv, [Next]_vars PROVE HolderInv'
<1>0. IInv /\ TypeOK /\ SourceInv
  BY DEF IInv
<1>t. TypeOK'
  BY TypeStep
<1>g. Grows
  BY GrowsStep
<1>1. ASSUME EndTrip PROVE HolderInv'
  BY <1>0, <1>1 DEF EndTrip, IInv, HolderInv, Holds, Current, tables
<1>2. ASSUME Cancel PROVE HolderInv'
  BY <1>0, <1>2 DEF Cancel, IInv, HolderInv, Holds, Current, tables
<1>3. ASSUME EditAddress PROVE HolderInv'
  BY <1>0, <1>3 DEF EditAddress, IInv, HolderInv, Holds, Current, tables
<1>4. ASSUME NEW m \in Mail, ConfirmAccepted(m) PROVE HolderInv'
  BY <1>0, <1>4 DEF ConfirmAccepted, IInv, HolderInv, Holds, Current, tables
<1>5. ASSUME NEW w \in Tasks, RecoverOutbox(w) PROVE HolderInv'
  <2>1. Kept(w) /\ Shape(task[w]) /\ task[w] \in Task
    BY <1>0, <1>t, <1>g, <1>5, OfTask, SoundRecoverOutbox
  <2>2. task[w].pc = "free" /\ task[w].todo = {} /\ task[w].redo = {} /\ ~task[w].event /\ task[w].attempt = 0 /\ ~task[w].recovery
    BY <2>1, <1>5 DEF Shape, RecoverOutbox, Idle
  <2>3. \A m \in Mail : attempt'[m].n = attempt[m].n /\ attempt'[m].outcome = attempt[m].outcome
    BY <1>5 DEF RecoverOutbox, tables
  <2>4. Holds(w)' => /\ Holds(w) /\ task'[w].mail = task[w].mail
                     /\ task'[w].attempt = task[w].attempt
    BY <1>0, <1>5, <2>1, <2>2, RecoverOutboxEffect DEF Holds, Turns
  <2> QED BY <1>0, <2>1, <2>3, <2>4, HolderKept
<1>6. ASSUME NEW w \in Tasks, RecoverDeliveries(w) PROVE HolderInv'
  <2>1. Kept(w) /\ Shape(task[w]) /\ task[w] \in Task
    BY <1>0, <1>t, <1>g, <1>6, OfTask, SoundRecoverDeliveries
  <2>2. task[w].pc = "free" /\ task[w].todo = {} /\ task[w].redo = {} /\ ~task[w].event /\ task[w].attempt = 0 /\ ~task[w].recovery
    BY <2>1, <1>6 DEF Shape, RecoverDeliveries, Idle
  <2>3. \A m \in Mail : attempt'[m].n = attempt[m].n /\ attempt'[m].outcome = attempt[m].outcome
    BY <1>6 DEF RecoverDeliveries, tables
  <2>4. Holds(w)' => /\ Holds(w) /\ task'[w].mail = task[w].mail
                     /\ task'[w].attempt = task[w].attempt
    BY <1>0, <1>6, <2>1, <2>2, RecoverDeliveriesEffect DEF Holds, Turns
  <2> QED BY <1>0, <2>1, <2>3, <2>4, HolderKept
<1>7. ASSUME NEW w \in Tasks, NEW e \in EventMail, Dispatch(w, e) PROVE HolderInv'
  <2>1. Kept(w) /\ Shape(task[w]) /\ task[w] \in Task
    BY <1>0, <1>t, <1>g, <1>7, OfTask, SoundDispatch
  <2>2. task[w].pc = "free" /\ task[w].todo = {} /\ task[w].redo = {} /\ ~task[w].event /\ task[w].attempt = 0 /\ ~task[w].recovery
    BY <2>1, <1>7 DEF Shape, Dispatch, Idle
  <2>3. \A m \in Mail : attempt'[m].n = attempt[m].n /\ attempt'[m].outcome = attempt[m].outcome
    BY <1>7 DEF Dispatch, tables
  <2>4. Holds(w)' => /\ Holds(w) /\ task'[w].mail = task[w].mail
                     /\ task'[w].attempt = task[w].attempt
    BY <1>0, <1>7, <2>1, <2>2, DispatchEffect DEF Holds, Turns, Dispatch
  <2> QED BY <1>0, <2>1, <2>3, <2>4, HolderKept
<1>8. ASSUME NEW w \in Tasks, NEW m \in Mail, ApproveRetry(w, m) PROVE HolderInv'
  <2>1. Kept(w) /\ Shape(task[w]) /\ task[w] \in Task
    BY <1>0, <1>t, <1>g, <1>8, OfTask, SoundApproveRetry
  <2>2. task[w].pc = "free" /\ task[w].todo = {} /\ task[w].redo = {} /\ ~task[w].event /\ task[w].attempt = 0 /\ ~task[w].recovery
    BY <2>1, <1>8 DEF Shape, ApproveRetry, Idle
  <2>3. \A h \in Mail : attempt'[h].n = attempt[h].n /\ attempt'[h].outcome = attempt[h].outcome
    BY <1>8 DEF ApproveRetry, tables
  <2>4. Holds(w)' => /\ Holds(w) /\ task'[w].mail = task[w].mail
                     /\ task'[w].attempt = task[w].attempt
    BY <1>0, <1>8, <2>1, <2>2, ApproveRetryEffect DEF Holds, Turns
  <2> QED BY <1>0, <2>1, <2>3, <2>4, HolderKept
<1>9. ASSUME NEW w \in Tasks, SendConfirmation(w) PROVE HolderInv'
  <2>1. Kept(w) /\ Shape(task[w]) /\ task[w] \in Task
    BY <1>0, <1>t, <1>g, <1>9, OfTask, SoundSendConfirmation
  <2>2. task[w].pc = "free" /\ task[w].todo = {} /\ task[w].redo = {} /\ ~task[w].event /\ task[w].attempt = 0 /\ ~task[w].recovery
    BY <2>1, <1>9 DEF Shape, SendConfirmation, Idle
  <2>3. \A m \in Mail : attempt'[m].n = attempt[m].n /\ attempt'[m].outcome = attempt[m].outcome
    BY <1>9 DEF SendConfirmation, tables
  <2>4. Holds(w)' => /\ Holds(w) /\ task'[w].mail = task[w].mail
                     /\ task'[w].attempt = task[w].attempt
    BY <1>0, <1>9, <2>1, <2>2, SendMailEffect, SupersedeEffect DEF Holds,
     Turns, AdminMail, SendConfirmation
  <2> QED BY <1>0, <2>1, <2>3, <2>4, HolderKept
<1>10. ASSUME NEW w \in Tasks, SendReceipt(w) PROVE HolderInv'
  <2>1. Kept(w) /\ Shape(task[w]) /\ task[w] \in Task
    BY <1>0, <1>t, <1>g, <1>10, OfTask, SoundSendReceipt
  <2>2. task[w].pc = "free" /\ task[w].todo = {} /\ task[w].redo = {} /\ ~task[w].event /\ task[w].attempt = 0 /\ ~task[w].recovery
    BY <2>1, <1>10 DEF Shape, SendReceipt, Idle
  <2>3. \A m \in Mail : attempt'[m].n = attempt[m].n /\ attempt'[m].outcome = attempt[m].outcome
    BY <1>10 DEF SendReceipt, tables
  <2>4. Holds(w)' => /\ Holds(w) /\ task'[w].mail = task[w].mail
                     /\ task'[w].attempt = task[w].attempt
    BY <1>0, <1>10, <2>1, <2>2, SendMailEffect, SupersedeEffect DEF Holds,
     Turns, AdminMail, SendReceipt
  <2> QED BY <1>0, <2>1, <2>3, <2>4, HolderKept
<1>11. ASSUME Crash PROVE HolderInv'
  <2>1. \A u \in Tasks : ~Holds(u)'
    BY <1>0, <1>11, CrashEffect DEF Free, Holds
  <2> QED BY <2>1 DEF HolderInv
<1>12. ASSUME Restart PROVE HolderInv'
  BY <1>0, <1>12 DEF Restart, IInv, HolderInv, Holds, Current, tables
<1>13. ASSUME NEW w \in Tasks, NextRow(w) PROVE HolderInv'
  <2>1. Kept(w) /\ Shape(task[w]) /\ task[w] \in Task
    BY <1>0, <1>t, <1>g, <1>13, OfTask, SoundNextRow
  <2>2. task[w].pc = "free" /\ ~task[w].event /\ task[w].attempt = 0 /\ ~task[w].recovery
    BY <2>1, <1>13 DEF Shape, NextRow, At
  <2>3. \A m \in Mail : attempt'[m].n = attempt[m].n /\ attempt'[m].outcome = attempt[m].outcome
    BY <1>13 DEF NextRow, tables
  <2>4. Holds(w)' => /\ Holds(w) /\ task'[w].mail = task[w].mail
                     /\ task'[w].attempt = task[w].attempt
    BY <1>0, <1>13, <2>1, <2>2, NextRowEffect DEF Holds, Turns
  <2> QED BY <1>0, <2>1, <2>3, <2>4, HolderKept
<1>14. ASSUME NEW w \in Tasks, NextDelivery(w) PROVE HolderInv'
  <2>1. Kept(w) /\ Shape(task[w]) /\ task[w] \in Task
    BY <1>0, <1>t, <1>g, <1>14, OfTask, SoundNextDelivery
  <2>2. task[w].pc = "free" /\ ~task[w].event /\ task[w].attempt = 0 /\ ~task[w].recovery
    BY <2>1, <1>14 DEF Shape, NextDelivery, At
  <2>3. \A m \in Mail : attempt'[m].n = attempt[m].n /\ attempt'[m].outcome = attempt[m].outcome
    BY <1>14 DEF NextDelivery, tables
  <2>4. Holds(w)' => /\ Holds(w) /\ task'[w].mail = task[w].mail
                     /\ task'[w].attempt = task[w].attempt
    BY <1>0, <1>14, <2>1, <2>2, NextDeliveryEffect DEF Holds, Turns
  <2> QED BY <1>0, <2>1, <2>3, <2>4, HolderKept
<1>15. ASSUME NEW w \in Tasks, Persist(w) PROVE HolderInv'
  <2>1. Kept(w) /\ Shape(task[w]) /\ task[w] \in Task
    BY <1>0, <1>t, <1>g, <1>15, OfTask, SoundPersist
  <2>2. task[w].pc = "persist" /\ task[w].attempt = 0 /\ ~task[w].recovery /\ task[w].event /\ task[w].redo = {}
    BY <2>1, <1>15 DEF Shape, Persist, At
  <2>3. \A m \in Mail : attempt'[m].n = attempt[m].n /\ attempt'[m].outcome = attempt[m].outcome
    BY <1>15 DEF Persist, tables
  <2>4. Holds(w)' => /\ Holds(w) /\ task'[w].mail = task[w].mail
                     /\ task'[w].attempt = task[w].attempt
    BY <1>0, <1>15, <2>1, <2>2, PersistEffect DEF Holds, Turns
  <2> QED BY <1>0, <2>1, <2>3, <2>4, HolderKept
<1>16. ASSUME NEW w \in Tasks, Load(w) PROVE HolderInv'
  <2>1. Kept(w) /\ Shape(task[w]) /\ task[w] \in Task
    BY <1>0, <1>t, <1>g, <1>16, OfTask, SoundLoad
  <2>2. task[w].pc = "load" /\ task[w].attempt = 0 /\ ~task[w].recovery
    BY <2>1, <1>16 DEF Shape, Load, At
  <2>3. \A m \in Mail : attempt'[m].n = attempt[m].n /\ attempt'[m].outcome = attempt[m].outcome
    BY <1>16 DEF Load, tables
  <2>4. ~Holds(w)'
    <3>1. task'[w].attempt = 0
      BY <1>0, <1>16, <2>2, LoadEffect DEF Turns, Returned, Answered, Proceeds
    <3> QED BY <3>1 DEF Holds
  <2> QED BY <1>0, <2>1, <2>3, <2>4, HolderKept
<1>17. ASSUME NEW w \in Tasks, Claim(w) PROVE HolderInv'
  <2>1. Kept(w) /\ Shape(task[w]) /\ task[w] \in Task /\ task[w].mail \in Mail
    BY <1>0, <1>t, <1>g, <1>17, OfTask, SoundClaim
  <2>2. task[w].pc = "claim"
    BY <1>17 DEF Claim, At
  <2>3. CASE Refuses(w)
    <3>1. ~Holds(w)'
      <4>1. ~task[w].recovery => task[w].attempt = 0
        BY <2>1, <2>2 DEF Shape, Task
      <4> QED BY <2>3, <4>1 DEF Refuses, Holds, Answered, Returned, Freed, Turns
    <3> QED BY <1>0, <2>1, <2>3, <3>1, HolderKept DEF Refuses
  <2>4. CASE Reserves(w)
    <3>1. attempt[task[w].mail].outcome # "SENDING"
      <4>1. CASE task[w].recovery
        BY <2>4, <4>1 DEF Reserves, CanRecover
      <4>2. CASE ~task[w].recovery
        <5>1. ~SmtpTried(task[w].mail)
          BY <1>0, <2>2, <2>4, <4>2, AutomaticIsFirst DEF Reserves
        <5> QED BY <1>0, <2>1, <5>1 DEF IInv, AttemptInv, Marked
      <4> QED BY <4>1, <4>2
    <3>2. HolderInv /\ \A u \in Tasks : Holds(u) => task[u].mail # task[w].mail
      BY <1>0, <3>1 DEF IInv, HolderInv, Current
    <3>3. \A u \in Tasks : u # w => (Holds(u)' <=> Holds(u)) /\ task'[u] = task[u]
      BY <2>1 DEF Kept, Holds
    <3>4. task'[w].mail = task[w].mail /\ Current(w)'
      BY <2>4 DEF Reserves, Turns, AttemptTurns, Current
    <3>5. \A u \in Tasks : u # w /\ Holds(u) => Current(u)'
      <4>1. \A h \in Mail : h # task[w].mail => attempt'[h] = attempt[h]
        BY <2>4 DEF Reserves, AttemptTurns
      <4>2. \A u \in Tasks : task[u].mail \in Mail
        BY <1>0, OfTask
      <4> QED BY <3>2, <3>3, <4>1, <4>2 DEF HolderInv, Current
    <3>6. \A u \in Tasks : Holds(u)' => Current(u)'
      BY <3>3, <3>4, <3>5
    <3>7. \A u, v \in Tasks :
            Holds(u)' /\ Holds(v)' /\ task'[u].mail = task'[v].mail => u = v
      BY <3>2, <3>3, <3>4 DEF HolderInv
    <3> QED BY <3>6, <3>7 DEF HolderInv
  <2> QED BY <1>0, <1>17, <2>3, <2>4, ClaimEffect
<1>18. ASSUME NEW w \in Tasks, ClaimFails(w) PROVE HolderInv'
  <2>1. Kept(w) /\ Shape(task[w]) /\ task[w] \in Task
    BY <1>0, <1>t, <1>g, <1>18, OfTask, SoundClaimFails
  <2>2. task[w].pc = "claim"
    BY <2>1, <1>18 DEF Shape, ClaimFails, At
  <2>3. \A m \in Mail : attempt'[m].n = attempt[m].n /\ attempt'[m].outcome = attempt[m].outcome
    BY <1>18 DEF ClaimFails, tables
  <2>4. Holds(w)' => /\ Holds(w) /\ task'[w].mail = task[w].mail
                     /\ task'[w].attempt = task[w].attempt
    BY <1>0, <1>18, <2>1, <2>2, ClaimFailsEffect DEF Holds, Turns, Answered,
     Freed, Shape
  <2> QED BY <1>0, <2>1, <2>3, <2>4, HolderKept
<1>19. ASSUME NEW w \in Tasks, Send(w) PROVE HolderInv'
  <2>1. Kept(w) /\ Shape(task[w]) /\ task[w] \in Task
    BY <1>0, <1>t, <1>g, <1>19, OfTask, SoundSend
  <2>2. task[w].pc = "reserved"
    BY <2>1, <1>19 DEF Shape, Send, At
  <2>3. \A m \in Mail : attempt'[m].n = attempt[m].n /\ attempt'[m].outcome = attempt[m].outcome
    BY <1>0, <1>19, SendEffect, OfTask DEF Sends, AttemptTurns
  <2>4. Holds(w)' => /\ Holds(w) /\ task'[w].mail = task[w].mail
                     /\ task'[w].attempt = task[w].attempt
    BY <1>0, <1>19, <2>1, <2>2, SendEffect DEF Holds, Turns, Answered, Sends,
     Answers, Shape
  <2> QED BY <1>0, <2>1, <2>3, <2>4, HolderKept
<1>20. ASSUME NEW w \in Tasks, Record(w) PROVE HolderInv'
  <2>1. Kept(w) /\ Shape(task[w]) /\ task[w] \in Task /\ task[w].mail \in Mail
    BY <1>0, <1>t, <1>g, <1>20, OfTask, SoundRecord
  <2>2. task[w].pc = "record"
    BY <1>20 DEF Record, At
  <2>3. ~Holds(w)'
    BY <1>0, <1>20, RecordEffect DEF Returned, Turns, Holds
  <2>4. \A u \in Tasks : Holds(u)' => u # w /\ Holds(u) /\ task'[u] = task[u]
    BY <2>1, <2>3 DEF Kept, Holds
  <2>5. HolderInv /\ \A u \in Tasks : task[u] \in Task /\ task[u].mail \in Mail
    BY <1>0, OfTask DEF IInv
  <2>6. ASSUME NEW u \in Tasks, u # w, Holds(u)
        PROVE  attempt'[task[u].mail].n = attempt[task[u].mail].n
               /\ attempt'[task[u].mail].outcome = attempt[task[u].mail].outcome
    <3>1. CASE task[u].mail # task[w].mail
      BY <1>0, <1>20, <2>5, <3>1, RecordEffect DEF AttemptTurns
    <3>2. CASE task[u].mail = task[w].mail
      <4>1. ~(task[w].attempt > 0)
        BY <2>2, <2>5, <2>6, <3>2 DEF HolderInv, Holds
      <4> QED BY <1>0, <1>20, <2>5, <3>2, <4>1, RecordEffect DEF AttemptTurns
    <3> QED BY <3>1, <3>2
  <2>7. \A u \in Tasks : Holds(u)' => Current(u)'
    BY <2>4, <2>5, <2>6 DEF HolderInv, Current
  <2>8. \A u, v \in Tasks :
          Holds(u)' /\ Holds(v)' /\ task'[u].mail = task'[v].mail => u = v
    BY <2>4, <2>5 DEF HolderInv
  <2> QED BY <2>7, <2>8 DEF HolderInv
<1>21. ASSUME NEW w \in Tasks, RecordFails(w) PROVE HolderInv'
  <2>1. Kept(w) /\ Shape(task[w]) /\ task[w] \in Task
    BY <1>0, <1>t, <1>g, <1>21, OfTask, SoundRecordFails
  <2>2. task[w].pc = "record"
    BY <2>1, <1>21 DEF Shape, RecordFails, At
  <2>3. \A m \in Mail : attempt'[m].n = attempt[m].n /\ attempt'[m].outcome = attempt[m].outcome
    BY <1>21 DEF RecordFails, tables
  <2>4. Holds(w)' => /\ Holds(w) /\ task'[w].mail = task[w].mail
                     /\ task'[w].attempt = task[w].attempt
    BY <1>0, <1>21, <2>1, <2>2, ReturnsEffect DEF Holds, Turns, Returned, Shape
  <2> QED BY <1>0, <2>1, <2>3, <2>4, HolderKept
<1>22. ASSUME NEW w \in Tasks, MarkCompleted(w) PROVE HolderInv'
  <2>1. Kept(w) /\ Shape(task[w]) /\ task[w] \in Task
    BY <1>0, <1>t, <1>g, <1>22, OfTask, SoundMarkCompleted
  <2>2. task[w].pc = "complete" /\ task[w].attempt = 0 /\ ~task[w].recovery /\ task[w].event /\ task[w].redo = {}
    BY <2>1, <1>22 DEF Shape, MarkCompleted, At
  <2>3. \A m \in Mail : attempt'[m].n = attempt[m].n /\ attempt'[m].outcome = attempt[m].outcome
    BY <1>22 DEF MarkCompleted, tables
  <2>4. Holds(w)' => /\ Holds(w) /\ task'[w].mail = task[w].mail
                     /\ task'[w].attempt = task[w].attempt
    BY <1>0, <1>22, <2>1, <2>2, MarkCompletedEffect DEF Holds, Turns, Freed
  <2> QED BY <1>0, <2>1, <2>3, <2>4, HolderKept
<1>23. ASSUME NEW w \in Tasks, Throw(w) PROVE HolderInv'
  <2>1. Kept(w) /\ Shape(task[w]) /\ task[w] \in Task
    BY <1>0, <1>t, <1>g, <1>23, OfTask, SoundThrow
  <2>2. task[w].pc # "claim" /\ task[w].pc # "free"
    BY <2>1, <1>23 DEF Throw, At
  <2>3. \A m \in Mail : attempt'[m].n = attempt[m].n /\ attempt'[m].outcome = attempt[m].outcome
    BY <1>23 DEF Throw, tables
  <2>4. Holds(w)' => /\ Holds(w) /\ task'[w].mail = task[w].mail
                     /\ task'[w].attempt = task[w].attempt
    BY <1>0, <1>23, <2>1, <2>2, ThrowEffect DEF Holds, Turns, Freed
  <2> QED BY <1>0, <2>1, <2>3, <2>4, HolderKept
<1>24. CASE UNCHANGED vars
  BY <1>0, <1>24 DEF vars, bookingVars, tables, IInv, HolderInv, Holds, Current
<1> QED
  BY <1>1, <1>2, <1>3, <1>4, <1>5, <1>6, <1>7, <1>8, <1>9, <1>10, <1>11,
     <1>12, <1>13, <1>14, <1>15, <1>16, <1>17, <1>18, <1>19, <1>20, <1>21,
     <1>22, <1>23, <1>24 DEF Next, TaskStep

(* Who has still to send holds the attempt he reserved.                    *)
LEMMA UnsentHolds ==
  ASSUME IInv, NEW w \in Tasks, Unsent(w)
  PROVE  Holds(w)
<1>1. Shape(task[w]) /\ task[w] \in Task
  BY OfTask
<1> QED BY <1>1 DEF Unsent, Holds, Shape, Answers, Task

(* What the mail server took is not taken again.                           *)
LEMMA AcceptedStep == ASSUME IInv, [Next]_vars PROVE AcceptedInv'
<1>0. IInv /\ TypeOK /\ SourceInv
  BY DEF IInv
<1>t. TypeOK'
  BY TypeStep
<1>g. Grows
  BY GrowsStep
<1>1. ASSUME EndTrip PROVE AcceptedInv'
  BY <1>0, <1>1 DEF EndTrip, IInv, AcceptedInv, Unsent, tables
<1>2. ASSUME Cancel PROVE AcceptedInv'
  BY <1>0, <1>2 DEF Cancel, IInv, AcceptedInv, Unsent, tables
<1>3. ASSUME EditAddress PROVE AcceptedInv'
  BY <1>0, <1>3 DEF EditAddress, IInv, AcceptedInv, Unsent, tables
<1>4. ASSUME NEW m \in Mail, ConfirmAccepted(m) PROVE AcceptedInv'
  BY <1>0, <1>4 DEF ConfirmAccepted, IInv, AcceptedInv, Unsent, tables
<1>5. ASSUME NEW w \in Tasks, RecoverOutbox(w) PROVE AcceptedInv'
  <2>1. Kept(w) /\ Shape(task[w]) /\ task[w] \in Task
    BY <1>0, <1>t, <1>g, <1>5, OfTask, SoundRecoverOutbox
  <2>2. task[w].pc = "free" /\ task[w].todo = {} /\ task[w].redo = {} /\ ~task[w].event /\ task[w].attempt = 0 /\ ~task[w].recovery
    BY <2>1, <1>5 DEF Shape, RecoverOutbox, Idle
  <2>3. accepted' = accepted /\ \A m \in Mail : attempt'[m].outcome = attempt[m].outcome
    BY <1>5 DEF RecoverOutbox, tables
  <2>4. ~Unsent(w)'
    BY <1>0, <1>5, <2>1, <2>2, RecoverOutboxEffect DEF Unsent, Turns
  <2> QED BY <1>0, <2>1, <2>3, <2>4, AcceptedKept
<1>6. ASSUME NEW w \in Tasks, RecoverDeliveries(w) PROVE AcceptedInv'
  <2>1. Kept(w) /\ Shape(task[w]) /\ task[w] \in Task
    BY <1>0, <1>t, <1>g, <1>6, OfTask, SoundRecoverDeliveries
  <2>2. task[w].pc = "free" /\ task[w].todo = {} /\ task[w].redo = {} /\ ~task[w].event /\ task[w].attempt = 0 /\ ~task[w].recovery
    BY <2>1, <1>6 DEF Shape, RecoverDeliveries, Idle
  <2>3. accepted' = accepted /\ \A m \in Mail : attempt'[m].outcome = attempt[m].outcome
    BY <1>6 DEF RecoverDeliveries, tables
  <2>4. ~Unsent(w)'
    BY <1>0, <1>6, <2>1, <2>2, RecoverDeliveriesEffect DEF Unsent, Turns
  <2> QED BY <1>0, <2>1, <2>3, <2>4, AcceptedKept
<1>7. ASSUME NEW w \in Tasks, NEW e \in EventMail, Dispatch(w, e) PROVE AcceptedInv'
  <2>1. Kept(w) /\ Shape(task[w]) /\ task[w] \in Task
    BY <1>0, <1>t, <1>g, <1>7, OfTask, SoundDispatch
  <2>2. task[w].pc = "free" /\ task[w].todo = {} /\ task[w].redo = {} /\ ~task[w].event /\ task[w].attempt = 0 /\ ~task[w].recovery
    BY <2>1, <1>7 DEF Shape, Dispatch, Idle
  <2>3. accepted' = accepted /\ \A m \in Mail : attempt'[m].outcome = attempt[m].outcome
    BY <1>7 DEF Dispatch, tables
  <2>4. ~Unsent(w)'
    BY <1>0, <1>7, <2>1, <2>2, DispatchEffect DEF Unsent, Turns, Dispatch
  <2> QED BY <1>0, <2>1, <2>3, <2>4, AcceptedKept
<1>8. ASSUME NEW w \in Tasks, NEW m \in Mail, ApproveRetry(w, m) PROVE AcceptedInv'
  <2>1. Kept(w) /\ Shape(task[w]) /\ task[w] \in Task
    BY <1>0, <1>t, <1>g, <1>8, OfTask, SoundApproveRetry
  <2>2. task[w].pc = "free" /\ task[w].todo = {} /\ task[w].redo = {} /\ ~task[w].event /\ task[w].attempt = 0 /\ ~task[w].recovery
    BY <2>1, <1>8 DEF Shape, ApproveRetry, Idle
  <2>3. accepted' = accepted /\ \A h \in Mail : attempt'[h].outcome = attempt[h].outcome
    BY <1>8 DEF ApproveRetry, tables
  <2>4. ~Unsent(w)'
    BY <1>0, <1>8, <2>1, <2>2, ApproveRetryEffect DEF Unsent, Turns
  <2> QED BY <1>0, <2>1, <2>3, <2>4, AcceptedKept
<1>9. ASSUME NEW w \in Tasks, SendConfirmation(w) PROVE AcceptedInv'
  <2>1. Kept(w) /\ Shape(task[w]) /\ task[w] \in Task
    BY <1>0, <1>t, <1>g, <1>9, OfTask, SoundSendConfirmation
  <2>2. task[w].pc = "free" /\ task[w].todo = {} /\ task[w].redo = {} /\ ~task[w].event /\ task[w].attempt = 0 /\ ~task[w].recovery
    BY <2>1, <1>9 DEF Shape, SendConfirmation, Idle
  <2>3. accepted' = accepted /\ \A m \in Mail : attempt'[m].outcome = attempt[m].outcome
    BY <1>9 DEF SendConfirmation, tables
  <2>4. ~Unsent(w)'
    BY <1>0, <1>9, <2>1, <2>2, SendMailEffect, SupersedeEffect DEF Unsent,
     Turns, AdminMail, SendConfirmation
  <2> QED BY <1>0, <2>1, <2>3, <2>4, AcceptedKept
<1>10. ASSUME NEW w \in Tasks, SendReceipt(w) PROVE AcceptedInv'
  <2>1. Kept(w) /\ Shape(task[w]) /\ task[w] \in Task
    BY <1>0, <1>t, <1>g, <1>10, OfTask, SoundSendReceipt
  <2>2. task[w].pc = "free" /\ task[w].todo = {} /\ task[w].redo = {} /\ ~task[w].event /\ task[w].attempt = 0 /\ ~task[w].recovery
    BY <2>1, <1>10 DEF Shape, SendReceipt, Idle
  <2>3. accepted' = accepted /\ \A m \in Mail : attempt'[m].outcome = attempt[m].outcome
    BY <1>10 DEF SendReceipt, tables
  <2>4. ~Unsent(w)'
    BY <1>0, <1>10, <2>1, <2>2, SendMailEffect, SupersedeEffect DEF Unsent,
     Turns, AdminMail, SendReceipt
  <2> QED BY <1>0, <2>1, <2>3, <2>4, AcceptedKept
<1>11. ASSUME Crash PROVE AcceptedInv'
  <2>1. \A u \in Tasks : ~Unsent(u)'
    BY <1>0, <1>11, CrashEffect DEF Free, Unsent
  <2> QED BY <1>0, <1>11, <2>1 DEF IInv, AcceptedInv, Crash, tables
<1>12. ASSUME Restart PROVE AcceptedInv'
  BY <1>0, <1>12 DEF Restart, IInv, AcceptedInv, Unsent, tables
<1>13. ASSUME NEW w \in Tasks, NextRow(w) PROVE AcceptedInv'
  <2>1. Kept(w) /\ Shape(task[w]) /\ task[w] \in Task
    BY <1>0, <1>t, <1>g, <1>13, OfTask, SoundNextRow
  <2>2. task[w].pc = "free" /\ ~task[w].event /\ task[w].attempt = 0 /\ ~task[w].recovery
    BY <2>1, <1>13 DEF Shape, NextRow, At
  <2>3. accepted' = accepted /\ \A m \in Mail : attempt'[m].outcome = attempt[m].outcome
    BY <1>13 DEF NextRow, tables
  <2>4. ~Unsent(w)'
    BY <1>0, <1>13, <2>1, <2>2, NextRowEffect DEF Unsent, Turns
  <2> QED BY <1>0, <2>1, <2>3, <2>4, AcceptedKept
<1>14. ASSUME NEW w \in Tasks, NextDelivery(w) PROVE AcceptedInv'
  <2>1. Kept(w) /\ Shape(task[w]) /\ task[w] \in Task
    BY <1>0, <1>t, <1>g, <1>14, OfTask, SoundNextDelivery
  <2>2. task[w].pc = "free" /\ ~task[w].event /\ task[w].attempt = 0 /\ ~task[w].recovery
    BY <2>1, <1>14 DEF Shape, NextDelivery, At
  <2>3. accepted' = accepted /\ \A m \in Mail : attempt'[m].outcome = attempt[m].outcome
    BY <1>14 DEF NextDelivery, tables
  <2>4. ~Unsent(w)'
    BY <1>0, <1>14, <2>1, <2>2, NextDeliveryEffect DEF Unsent, Turns
  <2> QED BY <1>0, <2>1, <2>3, <2>4, AcceptedKept
<1>15. ASSUME NEW w \in Tasks, Persist(w) PROVE AcceptedInv'
  <2>1. Kept(w) /\ Shape(task[w]) /\ task[w] \in Task
    BY <1>0, <1>t, <1>g, <1>15, OfTask, SoundPersist
  <2>2. task[w].pc = "persist" /\ task[w].attempt = 0 /\ ~task[w].recovery /\ task[w].event /\ task[w].redo = {}
    BY <2>1, <1>15 DEF Shape, Persist, At
  <2>3. accepted' = accepted /\ \A m \in Mail : attempt'[m].outcome = attempt[m].outcome
    BY <1>15 DEF Persist, tables
  <2>4. ~Unsent(w)'
    BY <1>0, <1>15, <2>1, <2>2, PersistEffect DEF Unsent, Turns
  <2> QED BY <1>0, <2>1, <2>3, <2>4, AcceptedKept
<1>16. ASSUME NEW w \in Tasks, Load(w) PROVE AcceptedInv'
  <2>1. Kept(w) /\ Shape(task[w]) /\ task[w] \in Task
    BY <1>0, <1>t, <1>g, <1>16, OfTask, SoundLoad
  <2>2. task[w].pc = "load" /\ task[w].attempt = 0 /\ ~task[w].recovery
    BY <2>1, <1>16 DEF Shape, Load, At
  <2>3. accepted' = accepted /\ \A m \in Mail : attempt'[m].outcome = attempt[m].outcome
    BY <1>16 DEF Load, tables
  <2>4. ~Unsent(w)'
    BY <1>0, <1>16, <2>1, <2>2, LoadEffect DEF Unsent, Turns, Returned,
     Answered, Proceeds
  <2> QED BY <1>0, <2>1, <2>3, <2>4, AcceptedKept
<1>17. ASSUME NEW w \in Tasks, Claim(w) PROVE AcceptedInv'
  <2>1. Kept(w) /\ task[w] \in Task /\ task[w].mail \in Mail
    BY <1>0, <1>t, <1>g, <1>17, OfTask, SoundClaim
  <2>2. task[w].pc = "claim" /\ accepted' = accepted
    BY <1>17 DEF Claim, At
  <2>3. CASE Refuses(w)
    <3>1. ~Unsent(w)'
      BY <2>3 DEF Refuses, Unsent, Answered, Returned, Freed, Turns
    <3> QED BY <1>0, <2>1, <2>2, <2>3, <3>1, AcceptedKept DEF Refuses
  <2>4. CASE Reserves(w)
    <3>1. accepted[task[w].mail] = 0
      <4>1. attempt[task[w].mail].outcome \in {"none", "NOT_ACCEPTED"}
        <5>1. CASE task[w].recovery
          BY <2>4, <5>1 DEF Reserves, CanRecover
        <5>2. CASE ~task[w].recovery
          <6>1. ~SmtpTried(task[w].mail)
            BY <1>0, <2>2, <2>4, <5>2, AutomaticIsFirst DEF Reserves
          <6> QED BY <1>0, <2>1, <6>1 DEF IInv, AttemptInv, Marked
        <5> QED BY <5>1, <5>2
      <4>2. accepted[task[w].mail] \in Nat
        BY <1>0, <2>1 DEF TypeOK
      <4> QED BY <1>0, <2>1, <4>1, <4>2 DEF IInv, AcceptedInv
    <3>2. AcceptedInv
      BY <1>0 DEF IInv
    <3>3. \A m \in Mail : m # task[w].mail => attempt'[m] = attempt[m]
      BY <2>4 DEF Reserves, AttemptTurns
    <3>4. \A m \in Mail :
            /\ accepted'[m] <= 1
            /\ accepted'[m] > 0 => attempt'[m].outcome \in {"SENDING", "ACCEPTED", "UNKNOWN"}
      BY <2>2, <3>1, <3>2, <3>3 DEF AcceptedInv
    <3>5. \A u \in Tasks : Unsent(u)' => accepted'[task'[u].mail] = 0
      <4>1. task'[w].mail = task[w].mail
        BY <2>4 DEF Reserves, Turns
      <4>2. \A u \in Tasks : u # w => task'[u] = task[u]
        BY <2>1 DEF Kept
      <4> QED BY <2>2, <3>1, <3>2, <4>1, <4>2 DEF AcceptedInv, Unsent
    <3> QED BY <3>4, <3>5 DEF AcceptedInv
  <2> QED BY <1>0, <1>17, <2>3, <2>4, ClaimEffect
<1>18. ASSUME NEW w \in Tasks, ClaimFails(w) PROVE AcceptedInv'
  <2>1. Kept(w) /\ Shape(task[w]) /\ task[w] \in Task
    BY <1>0, <1>t, <1>g, <1>18, OfTask, SoundClaimFails
  <2>2. task[w].pc = "claim"
    BY <2>1, <1>18 DEF Shape, ClaimFails, At
  <2>3. accepted' = accepted /\ \A m \in Mail : attempt'[m].outcome = attempt[m].outcome
    BY <1>18 DEF ClaimFails, tables
  <2>4. ~Unsent(w)'
    BY <1>0, <1>18, <2>1, <2>2, ClaimFailsEffect DEF Unsent, Turns, Answered,
     Freed
  <2> QED BY <1>0, <2>1, <2>3, <2>4, AcceptedKept
<1>19. ASSUME NEW w \in Tasks, Send(w) PROVE AcceptedInv'
  <2>1. Kept(w) /\ task[w] \in Task /\ task[w].mail \in Mail /\ Unsent(w) /\ AcceptedInv
    BY <1>0, <1>t, <1>g, <1>19, OfTask, SoundSend DEF Send, At, Unsent, IInv
  <2>2. \A m \in Mail : attempt'[m].outcome = attempt[m].outcome
    BY <1>0, <1>19, <2>1, SendEffect DEF Sends, AttemptTurns
  <2>3. \/ ~Unsent(w)' /\ accepted' = accepted
        \/ /\ task'[w].mail = task[w].mail
           /\ accepted' = accepted
        \/ /\ ~Unsent(w)' /\ attempt[task[w].mail].outcome = "SENDING"
           /\ accepted' = [accepted EXCEPT ![task[w].mail] = @ + 1]
    BY <1>0, <1>19, SendEffect DEF Sends, Answered, Turns, Unsent
  <2>4. CASE accepted' = accepted
    <3>1. Unsent(w)' => task'[w].mail = task[w].mail
      BY <1>0, <1>19, SendEffect DEF Sends, Answered, Turns
    <3> QED BY <1>0, <2>1, <2>2, <2>4, <3>1, AcceptedKept
  <2>5. CASE /\ ~Unsent(w)' /\ attempt[task[w].mail].outcome = "SENDING"
             /\ accepted' = [accepted EXCEPT ![task[w].mail] = @ + 1]
    <3>1. accepted[task[w].mail] = 0 /\ accepted \in [Mail -> 0..MaxSends]
      BY <1>0, <2>1 DEF AcceptedInv, TypeOK
    <3>2. /\ accepted'[task[w].mail] = 1
          /\ \A m \in Mail : m # task[w].mail => accepted'[m] = accepted[m]
      BY <2>1, <2>5, <3>1
    <3>3. ASSUME NEW u \in Tasks, Unsent(u)'
          PROVE  accepted'[task'[u].mail] = 0
      <4>1. u # w /\ task'[u] = task[u] /\ Unsent(u)
        BY <2>1, <2>5, <3>3 DEF Kept, Unsent
      <4>2. task[u].mail # task[w].mail /\ task[u].mail \in Mail
        BY <1>0, <2>1, <4>1, UnsentHolds, OfTask DEF IInv, HolderInv
      <4> QED BY <2>1, <3>2, <4>1, <4>2 DEF AcceptedInv
    <3>4. \A m \in Mail :
            /\ accepted'[m] <= 1
            /\ accepted'[m] > 0 => attempt'[m].outcome \in {"SENDING", "ACCEPTED", "UNKNOWN"}
      BY <2>1, <2>2, <2>5, <3>2 DEF AcceptedInv
    <3> QED BY <3>3, <3>4 DEF AcceptedInv
  <2> QED BY <2>3, <2>4, <2>5
<1>20. ASSUME NEW w \in Tasks, Record(w) PROVE AcceptedInv'
  <2>1. Kept(w) /\ Shape(task[w]) /\ task[w].mail \in Mail /\ task[w].pc = "record" /\ AcceptedInv
    BY <1>0, <1>t, <1>g, <1>20, OfTask, SoundRecord DEF Record, At, IInv
  <2>2. ~Unsent(w)' /\ accepted' = accepted
    BY <1>0, <1>20, RecordEffect DEF Returned, Turns, Unsent, Record
  <2>3. \A u \in Tasks : Unsent(u)' => accepted'[task'[u].mail] = 0
    BY <2>1, <2>2 DEF Kept, Unsent, AcceptedInv
  <2>4. ASSUME NEW m \in Mail
        PROVE  /\ accepted'[m] <= 1
               /\ accepted'[m] > 0 => attempt'[m].outcome \in {"SENDING", "ACCEPTED", "UNKNOWN"}
    <3>1. CASE m # task[w].mail \/ attempt'[m].outcome = attempt[m].outcome
      BY <1>0, <1>20, <2>1, <2>2, <3>1, RecordEffect DEF AcceptedInv, AttemptTurns
    <3>2. CASE /\ m = task[w].mail /\ task[w].attempt > 0
               /\ attempt'[m].outcome = task[w].result
      <4>1. task[w].result \in Answers
        BY <2>1, <3>2 DEF Shape
      <4>2. task[w].result = "NOT_ACCEPTED" => accepted[m] = 0
        BY <2>1, <3>2 DEF Unsent, AcceptedInv
      <4> QED BY <2>1, <2>2, <3>2, <4>1, <4>2 DEF Answers, AcceptedInv
    <3> QED BY <1>0, <1>20, <3>1, <3>2, RecordEffect DEF AttemptTurns
  <2> QED BY <2>3, <2>4 DEF AcceptedInv
<1>21. ASSUME NEW w \in Tasks, RecordFails(w) PROVE AcceptedInv'
  <2>1. Kept(w) /\ Shape(task[w]) /\ task[w] \in Task
    BY <1>0, <1>t, <1>g, <1>21, OfTask, SoundRecordFails
  <2>2. task[w].pc = "record"
    BY <2>1, <1>21 DEF Shape, RecordFails, At
  <2>3. accepted' = accepted /\ \A m \in Mail : attempt'[m].outcome = attempt[m].outcome
    BY <1>21 DEF RecordFails, tables
  <2>4. ~Unsent(w)'
    BY <1>0, <1>21, <2>1, <2>2, ReturnsEffect DEF Unsent, Turns, Returned
  <2> QED BY <1>0, <2>1, <2>3, <2>4, AcceptedKept
<1>22. ASSUME NEW w \in Tasks, MarkCompleted(w) PROVE AcceptedInv'
  <2>1. Kept(w) /\ Shape(task[w]) /\ task[w] \in Task
    BY <1>0, <1>t, <1>g, <1>22, OfTask, SoundMarkCompleted
  <2>2. task[w].pc = "complete" /\ task[w].attempt = 0 /\ ~task[w].recovery /\ task[w].event /\ task[w].redo = {}
    BY <2>1, <1>22 DEF Shape, MarkCompleted, At
  <2>3. accepted' = accepted /\ \A m \in Mail : attempt'[m].outcome = attempt[m].outcome
    BY <1>22 DEF MarkCompleted, tables
  <2>4. ~Unsent(w)'
    BY <1>0, <1>22, <2>1, <2>2, MarkCompletedEffect DEF Unsent, Turns, Freed
  <2> QED BY <1>0, <2>1, <2>3, <2>4, AcceptedKept
<1>23. ASSUME NEW w \in Tasks, Throw(w) PROVE AcceptedInv'
  <2>1. Kept(w) /\ Shape(task[w]) /\ task[w] \in Task
    BY <1>0, <1>t, <1>g, <1>23, OfTask, SoundThrow
  <2>2. task[w].pc # "claim" /\ task[w].pc # "free"
    BY <2>1, <1>23 DEF Throw, At
  <2>3. accepted' = accepted /\ \A m \in Mail : attempt'[m].outcome = attempt[m].outcome
    BY <1>23 DEF Throw, tables
  <2>4. ~Unsent(w)'
    BY <1>0, <1>23, <2>1, <2>2, ThrowEffect DEF Unsent, Turns, Freed
  <2> QED BY <1>0, <2>1, <2>3, <2>4, AcceptedKept
<1>24. CASE UNCHANGED vars
  BY <1>0, <1>24 DEF vars, bookingVars, tables, IInv, AcceptedInv, Unsent
<1> QED
  BY <1>1, <1>2, <1>3, <1>4, <1>5, <1>6, <1>7, <1>8, <1>9, <1>10, <1>11,
     <1>12, <1>13, <1>14, <1>15, <1>16, <1>17, <1>18, <1>19, <1>20, <1>21,
     <1>22, <1>23, <1>24 DEF Next, TaskStep

(* A slot keeps its mail unless another is tried that is not superseded.   *)
LEMMA SlotKept ==
  ASSUME IInv, approved' = approved, trip = "ENDED" => trip' = "ENDED",
         \A m \in AdminMail : Exists(m)' => Exists(m),
         \A m \in {"created", "ended"} : SmtpTried(m)' => SmtpTried(m) \/ ~Superseded(m)
  PROVE  SlotInv'
  BY DEF IInv, SlotInv, Superseded

(* An administrator's mail keeps the slot it took.                         *)
LEMMA SlotStep == ASSUME IInv, [Next]_vars PROVE SlotInv'
<1>0. IInv /\ TypeOK /\ SourceInv
  BY DEF IInv
<1>1. ASSUME EndTrip PROVE SlotInv'
  <2>1. \A m \in Mail : Exists(m)' <=> Exists(m)
    BY <1>1 DEF EndTrip, Exists, tables
  <2>2. \A m \in Mail : SmtpTried(m)' <=> SmtpTried(m)
    BY <1>1 DEF EndTrip, SmtpTried, tables
  <2>3. approved' = approved /\ (trip = "ENDED" => trip' = "ENDED")
    BY <1>1 DEF EndTrip, bookingVars
  <2>4. "created" \in Mail /\ "ended" \in Mail /\ AdminMail \subseteq Mail
    BY DEF Mail, EventMail
  <2> QED BY <1>0, <2>1, <2>2, <2>3, <2>4, SlotKept
<1>2. ASSUME Cancel PROVE SlotInv'
  <2>1. \A m \in Mail : Exists(m)' <=> Exists(m)
    BY <1>2 DEF Cancel, Exists, tables
  <2>2. \A m \in Mail : SmtpTried(m)' <=> SmtpTried(m)
    BY <1>2 DEF Cancel, SmtpTried, tables
  <2>3. approved' = approved /\ (trip = "ENDED" => trip' = "ENDED")
    BY <1>2 DEF Cancel, bookingVars
  <2>4. "created" \in Mail /\ "ended" \in Mail /\ AdminMail \subseteq Mail
    BY DEF Mail, EventMail
  <2> QED BY <1>0, <2>1, <2>2, <2>3, <2>4, SlotKept
<1>3. ASSUME EditAddress PROVE SlotInv'
  <2>1. \A m \in Mail : Exists(m)' <=> Exists(m)
    BY <1>3 DEF EditAddress, Exists, tables
  <2>2. \A m \in Mail : SmtpTried(m)' <=> SmtpTried(m)
    BY <1>3 DEF EditAddress, SmtpTried, tables
  <2>3. approved' = approved /\ (trip = "ENDED" => trip' = "ENDED")
    BY <1>3 DEF EditAddress, bookingVars
  <2>4. "created" \in Mail /\ "ended" \in Mail /\ AdminMail \subseteq Mail
    BY DEF Mail, EventMail
  <2> QED BY <1>0, <2>1, <2>2, <2>3, <2>4, SlotKept
<1>4. ASSUME NEW m \in Mail, ConfirmAccepted(m) PROVE SlotInv'
  <2>1. \A h \in Mail : Exists(h)' <=> Exists(h)
    BY <1>4 DEF ConfirmAccepted, Exists, tables
  <2>2. \A h \in Mail : SmtpTried(h)' <=> SmtpTried(h)
    BY <1>4 DEF ConfirmAccepted, SmtpTried, tables
  <2>3. approved' = approved /\ (trip = "ENDED" => trip' = "ENDED")
    BY <1>4 DEF ConfirmAccepted, bookingVars
  <2>4. "created" \in Mail /\ "ended" \in Mail /\ AdminMail \subseteq Mail
    BY DEF Mail, EventMail
  <2> QED BY <1>0, <2>1, <2>2, <2>3, <2>4, SlotKept
<1>5. ASSUME NEW w \in Tasks, RecoverOutbox(w) PROVE SlotInv'
  <2>1. \A m \in Mail : Exists(m)' <=> Exists(m)
    BY <1>5 DEF RecoverOutbox, Exists, tables
  <2>2. \A m \in Mail : SmtpTried(m)' <=> SmtpTried(m)
    BY <1>5 DEF RecoverOutbox, SmtpTried, tables
  <2>3. approved' = approved /\ (trip = "ENDED" => trip' = "ENDED")
    BY <1>5 DEF RecoverOutbox, bookingVars
  <2>4. "created" \in Mail /\ "ended" \in Mail /\ AdminMail \subseteq Mail
    BY DEF Mail, EventMail
  <2> QED BY <1>0, <2>1, <2>2, <2>3, <2>4, SlotKept
<1>6. ASSUME NEW w \in Tasks, RecoverDeliveries(w) PROVE SlotInv'
  <2>1. \A m \in Mail : Exists(m)' <=> Exists(m)
    BY <1>6 DEF RecoverDeliveries, Exists, tables
  <2>2. \A m \in Mail : SmtpTried(m)' <=> SmtpTried(m)
    BY <1>6 DEF RecoverDeliveries, SmtpTried, tables
  <2>3. approved' = approved /\ (trip = "ENDED" => trip' = "ENDED")
    BY <1>6 DEF RecoverDeliveries, bookingVars
  <2>4. "created" \in Mail /\ "ended" \in Mail /\ AdminMail \subseteq Mail
    BY DEF Mail, EventMail
  <2> QED BY <1>0, <2>1, <2>2, <2>3, <2>4, SlotKept
<1>7. ASSUME NEW w \in Tasks, NEW e \in EventMail, Dispatch(w, e) PROVE SlotInv'
  <2>1. \A m \in Mail : Exists(m)' <=> Exists(m)
    BY <1>7 DEF Dispatch, Exists, tables
  <2>2. \A m \in Mail : SmtpTried(m)' <=> SmtpTried(m)
    BY <1>7 DEF Dispatch, SmtpTried, tables
  <2>3. approved' = approved /\ (trip = "ENDED" => trip' = "ENDED")
    BY <1>7 DEF Dispatch, bookingVars
  <2>4. "created" \in Mail /\ "ended" \in Mail /\ AdminMail \subseteq Mail
    BY DEF Mail, EventMail
  <2> QED BY <1>0, <2>1, <2>2, <2>3, <2>4, SlotKept
<1>8. ASSUME NEW w \in Tasks, NEW m \in Mail, ApproveRetry(w, m) PROVE SlotInv'
  <2>1. \A h \in Mail : Exists(h)' <=> Exists(h)
    BY <1>8 DEF ApproveRetry, Exists, tables
  <2>2. \A h \in Mail : SmtpTried(h)' <=> SmtpTried(h)
    BY <1>8 DEF ApproveRetry, SmtpTried, tables
  <2>3. approved' = approved /\ (trip = "ENDED" => trip' = "ENDED")
    BY <1>8 DEF ApproveRetry, bookingVars
  <2>4. "created" \in Mail /\ "ended" \in Mail /\ AdminMail \subseteq Mail
    BY DEF Mail, EventMail
  <2> QED BY <1>0, <2>1, <2>2, <2>3, <2>4, SlotKept
<1>9. ASSUME NEW w \in Tasks, SendConfirmation(w) PROVE SlotInv'
  <2>1. "confirmation" \in AdminMail /\ "confirmation" \in Mail /\ "created" \in Mail /\ Supersede("confirmation")
        /\ attempt' = attempt /\ approved' = approved \cup {"confirmation"} /\ trip' = trip
    BY <1>9 DEF SendConfirmation, AdminMail, EventMail, Mail
  <2>2. ~SmtpTried("created")
    BY <1>0, <1>9, <2>1 DEF SendConfirmation, ConfirmationEligible, SafeNoSmtp, Opening, Mail, IInv, AttemptInv, Marked
  <2>3. \A m \in AdminMail : Exists(m)' => Exists(m) \/ m = "confirmation"
    BY <1>0, <2>1, SupersedeEffect DEF Exists, AdminMail, Mail
  <2>4. \A m \in Mail : SmtpTried(m)' <=> SmtpTried(m)
    BY <2>1 DEF SmtpTried
  <2>5. "confirmation" = "receipt" => trip = "ENDED"
    BY <1>9 DEF SendConfirmation, ConfirmationEligible
  <2> QED BY <1>0, <2>1, <2>2, <2>3, <2>4, <2>5 DEF IInv, SlotInv, Mail, EventMail
<1>10. ASSUME NEW w \in Tasks, SendReceipt(w) PROVE SlotInv'
  <2>1. "receipt" \in AdminMail /\ "receipt" \in Mail /\ "ended" \in Mail /\ Supersede("receipt")
        /\ attempt' = attempt /\ approved' = approved \cup {"receipt"} /\ trip' = trip
    BY <1>10 DEF SendReceipt, AdminMail, EventMail, Mail
  <2>2. ~SmtpTried("ended")
    BY <1>0, <1>10, <2>1 DEF SendReceipt, ReceiptEligible, SafeNoSmtp, Opening, Mail, IInv, AttemptInv, Marked
  <2>3. \A m \in AdminMail : Exists(m)' => Exists(m) \/ m = "receipt"
    BY <1>0, <2>1, SupersedeEffect DEF Exists, AdminMail, Mail
  <2>4. \A m \in Mail : SmtpTried(m)' <=> SmtpTried(m)
    BY <2>1 DEF SmtpTried
  <2>5. "receipt" = "receipt" => trip = "ENDED"
    BY <1>10 DEF SendReceipt, ReceiptEligible
  <2> QED BY <1>0, <2>1, <2>2, <2>3, <2>4, <2>5 DEF IInv, SlotInv, Mail, EventMail
<1>11. ASSUME Crash PROVE SlotInv'
  <2>1. \A m \in Mail : Exists(m)' <=> Exists(m)
    BY <1>11 DEF Crash, Exists, tables
  <2>2. \A m \in Mail : SmtpTried(m)' <=> SmtpTried(m)
    BY <1>11 DEF Crash, SmtpTried, tables
  <2>3. approved' = approved /\ (trip = "ENDED" => trip' = "ENDED")
    BY <1>11 DEF Crash, bookingVars
  <2>4. "created" \in Mail /\ "ended" \in Mail /\ AdminMail \subseteq Mail
    BY DEF Mail, EventMail
  <2> QED BY <1>0, <2>1, <2>2, <2>3, <2>4, SlotKept
<1>12. ASSUME Restart PROVE SlotInv'
  <2>1. \A m \in Mail : Exists(m)' <=> Exists(m)
    BY <1>12 DEF Restart, Exists, tables
  <2>2. \A m \in Mail : SmtpTried(m)' <=> SmtpTried(m)
    BY <1>12 DEF Restart, SmtpTried, tables
  <2>3. approved' = approved /\ (trip = "ENDED" => trip' = "ENDED")
    BY <1>12 DEF Restart, bookingVars
  <2>4. "created" \in Mail /\ "ended" \in Mail /\ AdminMail \subseteq Mail
    BY DEF Mail, EventMail
  <2> QED BY <1>0, <2>1, <2>2, <2>3, <2>4, SlotKept
<1>13. ASSUME NEW w \in Tasks, NextRow(w) PROVE SlotInv'
  <2>1. \A m \in Mail : Exists(m)' <=> Exists(m)
    BY <1>13 DEF NextRow, Exists, tables
  <2>2. \A m \in Mail : SmtpTried(m)' <=> SmtpTried(m)
    BY <1>13 DEF NextRow, SmtpTried, tables
  <2>3. approved' = approved /\ (trip = "ENDED" => trip' = "ENDED")
    BY <1>13 DEF NextRow, bookingVars
  <2>4. "created" \in Mail /\ "ended" \in Mail /\ AdminMail \subseteq Mail
    BY DEF Mail, EventMail
  <2> QED BY <1>0, <2>1, <2>2, <2>3, <2>4, SlotKept
<1>14. ASSUME NEW w \in Tasks, NextDelivery(w) PROVE SlotInv'
  <2>1. \A m \in Mail : Exists(m)' <=> Exists(m)
    BY <1>14 DEF NextDelivery, Exists, tables
  <2>2. \A m \in Mail : SmtpTried(m)' <=> SmtpTried(m)
    BY <1>14 DEF NextDelivery, SmtpTried, tables
  <2>3. approved' = approved /\ (trip = "ENDED" => trip' = "ENDED")
    BY <1>14 DEF NextDelivery, bookingVars
  <2>4. "created" \in Mail /\ "ended" \in Mail /\ AdminMail \subseteq Mail
    BY DEF Mail, EventMail
  <2> QED BY <1>0, <2>1, <2>2, <2>3, <2>4, SlotKept
<1>15. ASSUME NEW w \in Tasks, Persist(w) PROVE SlotInv'
  <2>1. \A m \in AdminMail : Exists(m)' => Exists(m)
    <3>1. task[w].mail \in EventMail
      BY <1>0, <1>15, OfTask DEF Shape, Persist, At
    <3> QED BY <1>0, <1>15, <3>1, PersistEffect DEF DeliveryTurns, Exists, EventMail, AdminMail, Mail
  <2>2. \A m \in Mail : SmtpTried(m)' <=> SmtpTried(m)
    BY <1>15 DEF Persist, SmtpTried, tables
  <2>3. approved' = approved /\ (trip = "ENDED" => trip' = "ENDED")
    BY <1>15 DEF Persist, bookingVars
  <2>4. "created" \in Mail /\ "ended" \in Mail /\ AdminMail \subseteq Mail
    BY DEF Mail, EventMail
  <2> QED BY <1>0, <2>1, <2>2, <2>3, <2>4, SlotKept
<1>16. ASSUME NEW w \in Tasks, Load(w) PROVE SlotInv'
  <2>1. \A m \in Mail : Exists(m)' <=> Exists(m)
    BY <1>16 DEF Load, Exists, tables
  <2>2. \A m \in Mail : SmtpTried(m)' <=> SmtpTried(m)
    BY <1>16 DEF Load, SmtpTried, tables
  <2>3. approved' = approved /\ (trip = "ENDED" => trip' = "ENDED")
    BY <1>16 DEF Load, bookingVars
  <2>4. "created" \in Mail /\ "ended" \in Mail /\ AdminMail \subseteq Mail
    BY DEF Mail, EventMail
  <2> QED BY <1>0, <2>1, <2>2, <2>3, <2>4, SlotKept
<1>17. ASSUME NEW w \in Tasks, Claim(w) PROVE SlotInv'
  <2>1. \A m \in Mail : Exists(m)' <=> Exists(m)
    BY <1>0, <1>17, ClaimEffect, OfTask DEF Reserves, Refuses, DeliveryTurns, Exists
  <2>2. \A m \in Mail : SmtpTried(m)' => SmtpTried(m) \/ ~Superseded(m)
    BY <1>0, <1>17, ClaimEffect, OfTask DEF Reserves, Refuses, AttemptTurns, SmtpTried
  <2>3. approved' = approved /\ (trip = "ENDED" => trip' = "ENDED")
    BY <1>17 DEF Claim, bookingVars
  <2>4. "created" \in Mail /\ "ended" \in Mail /\ AdminMail \subseteq Mail
    BY DEF Mail, EventMail
  <2> QED BY <1>0, <2>1, <2>2, <2>3, <2>4, SlotKept
<1>18. ASSUME NEW w \in Tasks, ClaimFails(w) PROVE SlotInv'
  <2>1. \A m \in Mail : Exists(m)' <=> Exists(m)
    BY <1>18 DEF ClaimFails, Exists, tables
  <2>2. \A m \in Mail : SmtpTried(m)' <=> SmtpTried(m)
    BY <1>18 DEF ClaimFails, SmtpTried, tables
  <2>3. approved' = approved /\ (trip = "ENDED" => trip' = "ENDED")
    BY <1>18 DEF ClaimFails, bookingVars
  <2>4. "created" \in Mail /\ "ended" \in Mail /\ AdminMail \subseteq Mail
    BY DEF Mail, EventMail
  <2> QED BY <1>0, <2>1, <2>2, <2>3, <2>4, SlotKept
<1>19. ASSUME NEW w \in Tasks, Send(w) PROVE SlotInv'
  <2>1. \A m \in Mail : Exists(m)' <=> Exists(m)
    BY <1>19 DEF Send, Exists, tables
  <2>2. \A m \in Mail : SmtpTried(m)' <=> SmtpTried(m)
    BY <1>0, <1>19, SendEffect, OfTask DEF Sends, AttemptTurns, SmtpTried
  <2>3. approved' = approved /\ (trip = "ENDED" => trip' = "ENDED")
    BY <1>19 DEF Send, bookingVars
  <2>4. "created" \in Mail /\ "ended" \in Mail /\ AdminMail \subseteq Mail
    BY DEF Mail, EventMail
  <2> QED BY <1>0, <2>1, <2>2, <2>3, <2>4, SlotKept
<1>20. ASSUME NEW w \in Tasks, Record(w) PROVE SlotInv'
  <2>1. \A m \in Mail : Exists(m)' => Exists(m)
    <3>1. Exists(task[w].mail) /\ task[w].mail \in Mail
      BY <1>0, <1>20, OfTask DEF Sound, Working, Record, At
    <3> QED BY <1>0, <1>20, <3>1, RecordEffect DEF DeliveryTurns, Exists
  <2>2. \A m \in Mail : SmtpTried(m)' <=> SmtpTried(m)
    BY <1>0, <1>20, RecordEffect, OfTask DEF AttemptTurns, SmtpTried
  <2>3. approved' = approved /\ (trip = "ENDED" => trip' = "ENDED")
    BY <1>20 DEF Record, bookingVars
  <2>4. "created" \in Mail /\ "ended" \in Mail /\ AdminMail \subseteq Mail
    BY DEF Mail, EventMail
  <2> QED BY <1>0, <2>1, <2>2, <2>3, <2>4, SlotKept
<1>21. ASSUME NEW w \in Tasks, RecordFails(w) PROVE SlotInv'
  <2>1. \A m \in Mail : Exists(m)' <=> Exists(m)
    BY <1>21 DEF RecordFails, Exists, tables
  <2>2. \A m \in Mail : SmtpTried(m)' <=> SmtpTried(m)
    BY <1>21 DEF RecordFails, SmtpTried, tables
  <2>3. approved' = approved /\ (trip = "ENDED" => trip' = "ENDED")
    BY <1>21 DEF RecordFails, bookingVars
  <2>4. "created" \in Mail /\ "ended" \in Mail /\ AdminMail \subseteq Mail
    BY DEF Mail, EventMail
  <2> QED BY <1>0, <2>1, <2>2, <2>3, <2>4, SlotKept
<1>22. ASSUME NEW w \in Tasks, MarkCompleted(w) PROVE SlotInv'
  <2>1. \A m \in Mail : Exists(m)' <=> Exists(m)
    BY <1>22 DEF MarkCompleted, Exists, tables
  <2>2. \A m \in Mail : SmtpTried(m)' <=> SmtpTried(m)
    BY <1>22 DEF MarkCompleted, SmtpTried, tables
  <2>3. approved' = approved /\ (trip = "ENDED" => trip' = "ENDED")
    BY <1>22 DEF MarkCompleted, bookingVars
  <2>4. "created" \in Mail /\ "ended" \in Mail /\ AdminMail \subseteq Mail
    BY DEF Mail, EventMail
  <2> QED BY <1>0, <2>1, <2>2, <2>3, <2>4, SlotKept
<1>23. ASSUME NEW w \in Tasks, Throw(w) PROVE SlotInv'
  <2>1. \A m \in Mail : Exists(m)' <=> Exists(m)
    BY <1>23 DEF Throw, Exists, tables
  <2>2. \A m \in Mail : SmtpTried(m)' <=> SmtpTried(m)
    BY <1>23 DEF Throw, SmtpTried, tables
  <2>3. approved' = approved /\ (trip = "ENDED" => trip' = "ENDED")
    BY <1>23 DEF Throw, bookingVars
  <2>4. "created" \in Mail /\ "ended" \in Mail /\ AdminMail \subseteq Mail
    BY DEF Mail, EventMail
  <2> QED BY <1>0, <2>1, <2>2, <2>3, <2>4, SlotKept
<1>24. CASE UNCHANGED vars
  BY <1>0, <1>24 DEF vars, bookingVars, tables, IInv, SlotInv, Exists, SmtpTried
<1> QED
  BY <1>1, <1>2, <1>3, <1>4, <1>5, <1>6, <1>7, <1>8, <1>9, <1>10, <1>11,
     <1>12, <1>13, <1>14, <1>15, <1>16, <1>17, <1>18, <1>19, <1>20, <1>21,
     <1>22, <1>23, <1>24 DEF Next, TaskStep

(* A row that nobody has handled yet.                                      *)
Fresh(e) == outbox[e].status = "PENDING" /\ outbox[e].retries = 0

(* A row nobody has taken is told by its two fields.                       *)
LEMMA FreshRow ==
  ASSUME NEW row \in OutboxRow
  PROVE  row = [status |-> "PENDING", retries |-> 0] <=> row.status = "PENDING" /\ row.retries = 0
  BY DEF OutboxRow

(* NoEventIsLost, by the fields of the rows.                               *)
Waits ==
  \A e \in EventMail :
    /\ outbox[e].status = "COMPLETED" => Exists(e)
    /\ server.up /\ Fresh(e) => e \in server.dispatch \/ server.outboxDue

(* The form of NoEventIsLost that the steps are compared with.             *)
LEMMA WaitsIs == ASSUME TypeOK PROVE Waits <=> NoEventIsLost
<1>1. \A e \in EventMail : outbox[e] \in OutboxRow
  BY DEF TypeOK
<1>2. \A e \in EventMail : Fresh(e) <=> outbox[e] = [status |-> "PENDING", retries |-> 0]
  BY <1>1, FreshRow DEF Fresh
<1> QED BY <1>2 DEF Waits, NoEventIsLost

(* No event is lost by a step that completes only what is stored.          *)
LEMMA WaitsKept ==
  ASSUME IInv, TypeOK', Grows, server.up, server'.dispatch = server.dispatch,
         server'.outboxDue = server.outboxDue,
         \A e \in EventMail : outbox'[e].status = "COMPLETED" => outbox[e].status = "COMPLETED" \/ Exists(e),
         \A e \in EventMail : Fresh(e)' => Fresh(e)
  PROVE  NoEventIsLost'
<1>1. Waits
  BY WaitsIs DEF IInv
<1>2. Waits'
  BY <1>1 DEF Waits, Grows, Mail
<1>3. TypeOK' => (Waits' <=> NoEventIsLost')
  BY WaitsIs, PTL
<1> QED BY <1>2, <1>3

(* A booking publishes two events at most, so that one batch takes them    *)
(* all.                                                                    *)
LEMMA BatchIsAll ==
  ASSUME IInv, NEW batch \in SUBSET {e \in EventMail : Claimable(e)},
         \/ Cardinality(batch) = BatchSize
         \/ batch = {e \in EventMail : Claimable(e)}
  PROVE  \A e \in EventMail : Claimable(e) => e \in batch
<1> SUFFICES ASSUME NEW e \in EventMail, Claimable(e), e \notin batch PROVE FALSE
  OBVIOUS
<1>1. \A f \in EventMail : Claimable(f) => Published(f)
  BY DEF Claimable, Published
<1>2. ~(Published("ended") /\ Published("cancelled"))
  BY DEF IInv, SourceInv
<1>3. PICK f \in EventMail : batch \subseteq {f}
  <2>1. e \in batch \cup {e} /\ \A f \in batch : f \in EventMail /\ Claimable(f) /\ f # e
    OBVIOUS
  <2>2. CASE e = "created"
    <3>1. CASE Published("ended")
      BY <1>1, <1>2, <2>1, <2>2, <3>1 DEF EventMail
    <3>2. CASE ~Published("ended")
      BY <1>1, <2>1, <2>2, <3>2 DEF EventMail
    <3> QED BY <3>1, <3>2
  <2>3. CASE e # "created"
    BY <1>1, <1>2, <2>1, <2>3 DEF EventMail
  <2> QED BY <2>2, <2>3
<1>4. IsFiniteSet({f}) /\ Cardinality({f}) = 1
  BY FS_Singleton
<1>5. Cardinality(batch) <= 1 /\ Cardinality(batch) \in Nat
  BY <1>3, <1>4, FS_Subset, FS_CardinalityType
<1>6. Cardinality(batch) = BatchSize
  OBVIOUS
<1> QED BY <1>5, <1>6, MailAssumption

(* No event is forgotten.                                                  *)
LEMMA EventStep == ASSUME IInv, [Next]_vars PROVE NoEventIsLost'
<1>0. IInv /\ TypeOK /\ SourceInv
  BY DEF IInv
<1>t. TypeOK'
  BY TypeStep
<1>g. Grows
  BY GrowsStep
<1>1. ASSUME EndTrip PROVE NoEventIsLost'
  <2>1. "ended" \in EventMail /\ Publish("ended") /\ server.up /\ Waits
    BY <1>0, <1>1, WaitsIs DEF EndTrip, EventMail, IInv
  <2>2. /\ EventTurns("ended", "PENDING", outbox["ended"].retries)
        /\ server'.dispatch = server.dispatch \cup {"ended"} /\ server'.outboxDue = server.outboxDue
    BY <1>0, <2>1, PublishEffect
  <2>9. Waits'
    BY <1>g, <2>1, <2>2 DEF Waits, Fresh, EventTurns, Grows, Mail
  <2>8. TypeOK' => (Waits' <=> NoEventIsLost')
    BY WaitsIs, PTL
  <2> QED BY <1>t, <2>8, <2>9
<1>2. ASSUME Cancel PROVE NoEventIsLost'
  <2>1. "cancelled" \in EventMail /\ Publish("cancelled") /\ server.up /\ Waits
    BY <1>0, <1>2, WaitsIs DEF Cancel, EventMail, IInv
  <2>2. /\ EventTurns("cancelled", "PENDING", outbox["cancelled"].retries)
        /\ server'.dispatch = server.dispatch \cup {"cancelled"} /\ server'.outboxDue = server.outboxDue
    BY <1>0, <2>1, PublishEffect
  <2>9. Waits'
    BY <1>g, <2>1, <2>2 DEF Waits, Fresh, EventTurns, Grows, Mail
  <2>8. TypeOK' => (Waits' <=> NoEventIsLost')
    BY WaitsIs, PTL
  <2> QED BY <1>t, <2>8, <2>9
<1>3. ASSUME EditAddress PROVE NoEventIsLost'
  <2>1. server.up /\ server'.dispatch = server.dispatch /\ server'.outboxDue = server.outboxDue
    BY <1>0, <1>3 DEF EditAddress, TypeOK, Server, tables, bookingVars
  <2>2. outbox' = outbox
    BY <1>3 DEF EditAddress, tables
  <2>3. \A e \in EventMail : Fresh(e)' => Fresh(e)
    BY <2>2 DEF Fresh
  <2> QED BY <1>0, <1>t, <1>g, <2>1, <2>2, <2>3, WaitsKept
<1>4. ASSUME NEW m \in Mail, ConfirmAccepted(m) PROVE NoEventIsLost'
  <2>1. server.up /\ server'.dispatch = server.dispatch /\ server'.outboxDue = server.outboxDue
    BY <1>0, <1>4 DEF ConfirmAccepted, TypeOK, Server, tables, bookingVars
  <2>2. outbox' = outbox
    BY <1>4 DEF ConfirmAccepted, tables
  <2>3. \A e \in EventMail : Fresh(e)' => Fresh(e)
    BY <2>2 DEF Fresh
  <2> QED BY <1>0, <1>t, <1>g, <2>1, <2>2, <2>3, WaitsKept
<1>5. ASSUME NEW w \in Tasks, RecoverOutbox(w) PROVE NoEventIsLost'
  <2>1. server'.up = server.up /\ server'.dispatch = server.dispatch /\ Waits
    BY <1>0, <1>5, WaitsIs DEF RecoverOutbox, IInv, TypeOK, Server
  <2>2. PICK batch \in SUBSET {e \in EventMail : Claimable(e)} :
          /\ \/ Cardinality(batch) = BatchSize
             \/ batch = {e \in EventMail : Claimable(e)}
          /\ \A e \in EventMail :
               /\ outbox'[e].status = IF e \in batch THEN "PROCESSING" ELSE outbox[e].status
               /\ outbox'[e].retries = outbox[e].retries
    BY <1>0, <1>5, RecoverOutboxEffect
  <2>3. \A e \in EventMail : Claimable(e) => e \in batch
    BY <1>0, <2>2, BatchIsAll
  <2>4. ASSUME NEW e \in EventMail PROVE ~Fresh(e)'
    <3>1. CASE e \in batch
      BY <2>2, <3>1 DEF Fresh
    <3>2. CASE e \notin batch
      BY <2>2, <2>3, <3>2, MailAssumption DEF Fresh, Claimable
    <3> QED BY <3>1, <3>2
  <2>9. Waits'
    BY <1>g, <2>1, <2>2, <2>4 DEF Waits, Grows, Mail
  <2>8. TypeOK' => (Waits' <=> NoEventIsLost')
    BY WaitsIs, PTL
  <2> QED BY <1>t, <2>8, <2>9
<1>6. ASSUME NEW w \in Tasks, RecoverDeliveries(w) PROVE NoEventIsLost'
  <2>1. server.up /\ server'.dispatch = server.dispatch /\ server'.outboxDue = server.outboxDue
    BY <1>0, <1>6 DEF RecoverDeliveries, TypeOK, Server, tables, bookingVars
  <2>2. outbox' = outbox
    BY <1>6 DEF RecoverDeliveries, tables
  <2>3. \A e \in EventMail : Fresh(e)' => Fresh(e)
    BY <2>2 DEF Fresh
  <2> QED BY <1>0, <1>t, <1>g, <2>1, <2>2, <2>3, WaitsKept
<1>7. ASSUME NEW w \in Tasks, NEW e \in EventMail, Dispatch(w, e) PROVE NoEventIsLost'
  <2>1. server'.up = server.up /\ server'.dispatch = server.dispatch \ {e} /\ Waits
        /\ server'.outboxDue = server.outboxDue
    BY <1>0, <1>7, WaitsIs DEF Dispatch, IInv, TypeOK, Server
  <2>2. \/ outbox' = outbox /\ outbox[e].status = "COMPLETED"
        \/ EventTurns(e, "PROCESSING", outbox[e].retries)
    BY <1>0, <1>7, DispatchEffect DEF Dispatch
  <2>9. Waits'
    BY <1>g, <2>1, <2>2 DEF Waits, Fresh, EventTurns, Grows, Mail
  <2>8. TypeOK' => (Waits' <=> NoEventIsLost')
    BY WaitsIs, PTL
  <2> QED BY <1>t, <2>8, <2>9
<1>8. ASSUME NEW w \in Tasks, NEW m \in Mail, ApproveRetry(w, m) PROVE NoEventIsLost'
  <2>1. server.up /\ server'.dispatch = server.dispatch /\ server'.outboxDue = server.outboxDue
    BY <1>0, <1>8 DEF ApproveRetry, TypeOK, Server, tables, bookingVars
  <2>2. outbox' = outbox
    BY <1>8 DEF ApproveRetry, tables
  <2>3. \A e \in EventMail : Fresh(e)' => Fresh(e)
    BY <2>2 DEF Fresh
  <2> QED BY <1>0, <1>t, <1>g, <2>1, <2>2, <2>3, WaitsKept
<1>9. ASSUME NEW w \in Tasks, SendConfirmation(w) PROVE NoEventIsLost'
  <2>1. server.up /\ server'.dispatch = server.dispatch /\ server'.outboxDue = server.outboxDue
    BY <1>0, <1>9 DEF SendConfirmation, TypeOK, Server, tables, bookingVars
  <2>2. outbox' = outbox
    BY <1>9 DEF SendConfirmation, tables
  <2>3. \A e \in EventMail : Fresh(e)' => Fresh(e)
    BY <2>2 DEF Fresh
  <2> QED BY <1>0, <1>t, <1>g, <2>1, <2>2, <2>3, WaitsKept
<1>10. ASSUME NEW w \in Tasks, SendReceipt(w) PROVE NoEventIsLost'
  <2>1. server.up /\ server'.dispatch = server.dispatch /\ server'.outboxDue = server.outboxDue
    BY <1>0, <1>10 DEF SendReceipt, TypeOK, Server, tables, bookingVars
  <2>2. outbox' = outbox
    BY <1>10 DEF SendReceipt, tables
  <2>3. \A e \in EventMail : Fresh(e)' => Fresh(e)
    BY <2>2 DEF Fresh
  <2> QED BY <1>0, <1>t, <1>g, <2>1, <2>2, <2>3, WaitsKept
<1>11. ASSUME Crash PROVE NoEventIsLost'
  <2>1. ~server'.up /\ outbox' = outbox /\ Waits
    BY <1>0, <1>11, CrashEffect, WaitsIs DEF Crash, tables, IInv
  <2>9. Waits'
    BY <1>g, <2>1 DEF Waits, Grows, Mail
  <2>8. TypeOK' => (Waits' <=> NoEventIsLost')
    BY WaitsIs, PTL
  <2> QED BY <1>t, <2>8, <2>9
<1>12. ASSUME Restart PROVE NoEventIsLost'
  <2>1. server'.outboxDue /\ outbox' = outbox /\ Waits
    BY <1>0, <1>12, WaitsIs DEF Restart, tables, IInv, TypeOK, Server
  <2>9. Waits'
    BY <1>g, <2>1 DEF Waits, Grows, Mail
  <2>8. TypeOK' => (Waits' <=> NoEventIsLost')
    BY WaitsIs, PTL
  <2> QED BY <1>t, <2>8, <2>9
<1>13. ASSUME NEW w \in Tasks, NextRow(w) PROVE NoEventIsLost'
  <2>1. server.up /\ server'.dispatch = server.dispatch /\ server'.outboxDue = server.outboxDue
    BY <1>0, <1>13 DEF NextRow, At, TypeOK, Server, tables, bookingVars
  <2>2. outbox' = outbox
    BY <1>13 DEF NextRow, tables
  <2>3. \A e \in EventMail : Fresh(e)' => Fresh(e)
    BY <2>2 DEF Fresh
  <2> QED BY <1>0, <1>t, <1>g, <2>1, <2>2, <2>3, WaitsKept
<1>14. ASSUME NEW w \in Tasks, NextDelivery(w) PROVE NoEventIsLost'
  <2>1. server.up /\ server'.dispatch = server.dispatch /\ server'.outboxDue = server.outboxDue
    BY <1>0, <1>14 DEF NextDelivery, At, TypeOK, Server, tables, bookingVars
  <2>2. outbox' = outbox
    BY <1>14 DEF NextDelivery, tables
  <2>3. \A e \in EventMail : Fresh(e)' => Fresh(e)
    BY <2>2 DEF Fresh
  <2> QED BY <1>0, <1>t, <1>g, <2>1, <2>2, <2>3, WaitsKept
<1>15. ASSUME NEW w \in Tasks, Persist(w) PROVE NoEventIsLost'
  <2>1. server.up /\ server'.dispatch = server.dispatch /\ server'.outboxDue = server.outboxDue
    BY <1>0, <1>15 DEF Persist, At, TypeOK, Server, tables, bookingVars
  <2>2. outbox' = outbox
    BY <1>15 DEF Persist, tables
  <2>3. \A e \in EventMail : Fresh(e)' => Fresh(e)
    BY <2>2 DEF Fresh
  <2> QED BY <1>0, <1>t, <1>g, <2>1, <2>2, <2>3, WaitsKept
<1>16. ASSUME NEW w \in Tasks, Load(w) PROVE NoEventIsLost'
  <2>1. server.up /\ server'.dispatch = server.dispatch /\ server'.outboxDue = server.outboxDue
    BY <1>0, <1>16 DEF Load, At, TypeOK, Server, tables, bookingVars
  <2>2. outbox' = outbox
    BY <1>16 DEF Load, tables
  <2>3. \A e \in EventMail : Fresh(e)' => Fresh(e)
    BY <2>2 DEF Fresh
  <2> QED BY <1>0, <1>t, <1>g, <2>1, <2>2, <2>3, WaitsKept
<1>17. ASSUME NEW w \in Tasks, Claim(w) PROVE NoEventIsLost'
  <2>1. server.up /\ server'.dispatch = server.dispatch /\ server'.outboxDue = server.outboxDue
    BY <1>0, <1>17 DEF Claim, At, TypeOK, Server, tables, bookingVars
  <2>2. outbox' = outbox
    BY <1>17 DEF Claim, tables
  <2>3. \A e \in EventMail : Fresh(e)' => Fresh(e)
    BY <2>2 DEF Fresh
  <2> QED BY <1>0, <1>t, <1>g, <2>1, <2>2, <2>3, WaitsKept
<1>18. ASSUME NEW w \in Tasks, ClaimFails(w) PROVE NoEventIsLost'
  <2>1. server.up /\ server'.dispatch = server.dispatch /\ server'.outboxDue = server.outboxDue
    BY <1>0, <1>18 DEF ClaimFails, At, Fault, TypeOK, Server, tables,
     bookingVars
  <2>2. outbox' = outbox
    BY <1>18 DEF ClaimFails, tables
  <2>3. \A e \in EventMail : Fresh(e)' => Fresh(e)
    BY <2>2 DEF Fresh
  <2> QED BY <1>0, <1>t, <1>g, <2>1, <2>2, <2>3, WaitsKept
<1>19. ASSUME NEW w \in Tasks, Send(w) PROVE NoEventIsLost'
  <2>1. server.up /\ server'.dispatch = server.dispatch /\ server'.outboxDue = server.outboxDue
    BY <1>0, <1>19 DEF Send, At, TypeOK, Server, tables, bookingVars
  <2>2. outbox' = outbox
    BY <1>19 DEF Send, tables
  <2>3. \A e \in EventMail : Fresh(e)' => Fresh(e)
    BY <2>2 DEF Fresh
  <2> QED BY <1>0, <1>t, <1>g, <2>1, <2>2, <2>3, WaitsKept
<1>20. ASSUME NEW w \in Tasks, Record(w) PROVE NoEventIsLost'
  <2>1. server.up /\ server'.dispatch = server.dispatch /\ server'.outboxDue = server.outboxDue
    BY <1>0, <1>20 DEF Record, At, TypeOK, Server, tables, bookingVars
  <2>2. outbox' = outbox
    BY <1>20 DEF Record, tables
  <2>3. \A e \in EventMail : Fresh(e)' => Fresh(e)
    BY <2>2 DEF Fresh
  <2> QED BY <1>0, <1>t, <1>g, <2>1, <2>2, <2>3, WaitsKept
<1>21. ASSUME NEW w \in Tasks, RecordFails(w) PROVE NoEventIsLost'
  <2>1. server.up /\ server'.dispatch = server.dispatch /\ server'.outboxDue = server.outboxDue
    BY <1>0, <1>21 DEF RecordFails, At, Fault, TypeOK, Server, tables,
     bookingVars
  <2>2. outbox' = outbox
    BY <1>21 DEF RecordFails, tables
  <2>3. \A e \in EventMail : Fresh(e)' => Fresh(e)
    BY <2>2 DEF Fresh
  <2> QED BY <1>0, <1>t, <1>g, <2>1, <2>2, <2>3, WaitsKept
<1>22. ASSUME NEW w \in Tasks, MarkCompleted(w) PROVE NoEventIsLost'
  <2>1. server.up /\ server'.dispatch = server.dispatch /\ server'.outboxDue = server.outboxDue
    BY <1>0, <1>22 DEF MarkCompleted, At, TypeOK, Server, tables, bookingVars
  <2>2. \A e \in EventMail : outbox'[e].status = "COMPLETED" => outbox[e].status = "COMPLETED" \/ Exists(e)
    BY <1>0, <1>22, MarkCompletedEffect, OfTask DEF EventTurns, MarkCompleted, At, Sound
  <2>3. \A e \in EventMail : Fresh(e)' => Fresh(e)
    BY <1>0, <1>22, MarkCompletedEffect DEF EventTurns, Fresh, TypeOK, OutboxRow
  <2> QED BY <1>0, <1>t, <1>g, <2>1, <2>2, <2>3, WaitsKept
<1>23. ASSUME NEW w \in Tasks, Throw(w) PROVE NoEventIsLost'
  <2>1. server.up /\ server'.dispatch = server.dispatch /\ server'.outboxDue = server.outboxDue
    BY <1>0, <1>23 DEF Throw, At, Fault, TypeOK, Server, tables, bookingVars
  <2>2. \A e \in EventMail : outbox'[e].status = "COMPLETED" => outbox[e].status = "COMPLETED" \/ Exists(e)
    BY <1>0, <1>23, ThrowEffect DEF EventTurns
  <2>3. \A e \in EventMail : Fresh(e)' => Fresh(e)
    BY <1>0, <1>23, ThrowEffect DEF EventTurns, Fresh, TypeOK, OutboxRow
  <2> QED BY <1>0, <1>t, <1>g, <2>1, <2>2, <2>3, WaitsKept
<1>24. CASE UNCHANGED vars
  BY <1>0, <1>24 DEF vars, bookingVars, tables, IInv, NoEventIsLost, Exists
<1> QED
  BY <1>1, <1>2, <1>3, <1>4, <1>5, <1>6, <1>7, <1>8, <1>9, <1>10, <1>11,
     <1>12, <1>13, <1>14, <1>15, <1>16, <1>17, <1>18, <1>19, <1>20, <1>21,
     <1>22, <1>23, <1>24 DEF Next, TaskStep

-----------------------------------------------------------------------------
(***************************************************************************)
(* The theorems.                                                           *)
(***************************************************************************)
LEMMA InitIInv == Init => IInv
<1> SUFFICES ASSUME Init PROVE IInv
  OBVIOUS
<1>1. /\ 0 \in 0..3 /\ 0 \in 0..MaxSends /\ 0 \in 0..MaxFaults /\ 0 \in Nat
  BY MailAssumption
<1>2. \A m \in Mail : delivery[m] = [status |-> "NONE", attempts |-> 0, error |-> "none"]
  BY DEF Init, NewRow
<1>3. \A e \in EventMail :
        outbox[e].status = IF e = "created" THEN "PENDING" ELSE "NONE"
  BY DEF Init
<1>4. TypeOK
  <2>1. outbox \in [EventMail -> OutboxRow]
    BY <1>1 DEF Init, OutboxRow
  <2>2. delivery \in [Mail -> DeliveryRow]
    <3>1. [status |-> "NONE", attempts |-> 0, error |-> "none"] \in DeliveryRow
      BY <1>1 DEF DeliveryRow
    <3>2. [NewRow EXCEPT !.status = "NONE"] = [status |-> "NONE", attempts |-> 0, error |-> "none"]
      BY DEF NewRow
    <3> QED BY <3>1, <3>2 DEF Init
  <2>3. attempt \in [Mail -> AttemptRow]
    BY <1>1 DEF Init, AttemptRow
  <2>4. server \in Server
    BY <1>1 DEF Init, Server, EventMail
  <2>5. task \in [Tasks -> Task] /\ accepted \in [Mail -> 0..MaxSends]
    BY <1>1, FreeTyped DEF Init
  <2> QED BY <2>1, <2>2, <2>3, <2>4, <2>5 DEF Init, TypeOK
<1>5. \A w \in Tasks : /\ task[w].pc = "free" /\ task[w].mail = "created" /\ task[w].attempt = 0
                       /\ ~task[w].recovery /\ ~task[w].event /\ task[w].todo = {}
                       /\ task[w].redo = {}
  BY DEF Init, Free
<1>6. SourceInv
  <2>1. \A w \in Tasks : Sound(w)
    BY <1>5 DEF Sound, Shape, Working
  <2>2. server.up /\ server.dispatch = {"created"}
    BY DEF Init
  <2>3. "created" \in EventMail /\ EventMail \subseteq Mail
    BY DEF EventMail, Mail
  <2> QED BY <1>2, <1>3, <2>1, <2>2, <2>3 DEF SourceInv, Published, Exists, EventMail
<1>7. TokensInv /\ HolderInv
  BY <1>5 DEF TokensInv, Stores, Recovers, Working, HolderInv, Holds
<1>8. \A m \in Mail : attempt[m].n = 0 /\ attempt[m].outcome = "none" /\ accepted[m] = 0
  BY DEF Init
<1>9. AttemptInv
  BY <1>2, <1>8 DEF AttemptInv, Marked, SmtpTried
<1>10. BlotInv /\ AcceptedInv
  BY <1>5, <1>8 DEF BlotInv, SmtpTried, AcceptedInv, Unsent
<1>11. SlotInv
  BY <1>2, <1>8 DEF Init, SlotInv, SmtpTried, Exists, AdminMail, Mail
<1>12. NoEventIsLost
  <2>1. ASSUME NEW e \in EventMail, e # "created" PROVE outbox[e].status = "NONE"
    BY <1>3, <2>1
  <2>2. outbox["created"].status = "PENDING"
    BY <1>3 DEF EventMail
  <2>3. "created" \in server.dispatch
    BY DEF Init
  <2>4. Waits
    BY <2>1, <2>2, <2>3 DEF Waits, Fresh
  <2> QED BY <1>4, <2>4, WaitsIs
<1> QED BY <1>4, <1>6, <1>7, <1>9, <1>10, <1>11, <1>12 DEF IInv

(* The invariant is inductive.                                             *)
LEMMA NextIInv == IInv /\ [Next]_vars => IInv'
  BY TypeStep, SourceStep, TokensStep, AttemptStep, BlotStep, HolderStep, AcceptedStep,
     SlotStep, EventStep DEF IInv

(* The inductive invariant holds of the pipeline.                          *)
THEOREM Invariance == Spec => []IInv
  BY InitIInv, NextIInv, PTL DEF Spec

(* Every row, task and counter of the mail pipeline stays in its range;    *)
(* above all no more copies are handed over than attempts were reserved.   *)
THEOREM TypeCorrect == Spec => []TypeOK
<1>1. IInv => TypeOK
  BY DEF IInv
<1> QED BY <1>1, Invariance, PTL

(* The mail server takes one copy of one mail per slot, for any number of  *)
(* tasks, crashes and failed queries: a mail that was taken has an attempt,*)
(* a delivery and thus an event or an approval; the trip ends in one way,  *)
(* and an approval shuts out the automatic mail of its slot.               *)
THEOREM OneMailSafe == Spec => []OneMailPerSlot
<1>1. IInv => OneMailPerSlot
  <2> SUFFICES ASSUME IInv, NEW m \in Mail, NEW h \in Mail
               PROVE  /\ accepted[m] <= 1
                      /\ m # h /\ Slot(m) = Slot(h) => accepted[m] = 0 \/ accepted[h] = 0
    BY DEF OneMailPerSlot
  <2>1. \A x \in Mail : accepted[x] \in Nat /\ (accepted[x] > 0 => SmtpTried(x) /\ Exists(x))
    BY DEF IInv, TypeOK, AcceptedInv, AttemptInv, Marked
  <2>2. /\ accepted["created"] = 0 \/ accepted["confirmation"] = 0
        /\ accepted["ended"] = 0 \/ accepted["cancelled"] = 0
        /\ accepted["ended"] = 0 \/ accepted["receipt"] = 0
        /\ accepted["cancelled"] = 0 \/ accepted["receipt"] = 0
    BY <2>1 DEF IInv, SlotInv, SourceInv, Mail, EventMail, AdminMail
  <2>3. accepted[m] <= 1
    BY DEF IInv, AcceptedInv
  <2>4. ASSUME m # h, Slot(m) = Slot(h) PROVE accepted[m] = 0 \/ accepted[h] = 0
    BY <2>2, <2>4 DEF Slot, Opening, Mail, EventMail, AdminMail
  <2> QED BY <2>3, <2>4
<1> QED BY <1>1, Invariance, PTL

(* A delivery that the review page offers to send again was never taken.   *)
THEOREM RetrySafe == Spec => []RetryIsSafe
<1>1. IInv => RetryIsSafe
  BY DEF IInv, TypeOK, AcceptedInv, RetryIsSafe, CanRecover
<1> QED BY <1>1, Invariance, PTL

(* An event is closed only when its notification is stored, and one that   *)
(* nobody handled still has somebody to take it.                           *)
THEOREM EventsKept == Spec => []NoEventIsLost
<1>1. IInv => NoEventIsLost
  BY DEF IInv
<1> QED BY <1>1, Invariance, PTL
=============================================================================
