---------------------------- MODULE SupportInquiry ----------------------------
(***************************************************************************)
(* Inquiries to the customer center (supportInquiry.service.js and its     *)
(* repository): a customer, not signed in, opens one and reads it again    *)
(* with the public id and the token he was answered; administrators reply  *)
(* and set its status.  The public id is six random hex digits beside the  *)
(* date, kept unique by the table's key and drawn again on a collision;    *)
(* the token is 24 random bytes and named by the request it was made for.  *)
(* Of an inquiry the status, who wrote its messages and whether it has a   *)
(* file are kept.  The message rows' foreign key locks the inquiry row in  *)
(* share mode until the end of the transaction.                            *)
(***************************************************************************)
EXTENDS Naturals, Sequences

CONSTANTS
  Customers,    \* requests that open an inquiry, each with its own token
  Admins,       \* requests of administrators: replies
  PublicIds,    \* the ids the generator may draw
  None,         \* no customer, no id
  MaxMessages,  \* bound: messages of an inquiry
  MaxByHand     \* bound: statuses set by hand

STATUS_VALUES == {"NEW", "IN_PROGRESS", "RESOLVED", "CLOSED"}

VARIABLES
  inquiry,  \* the committed rows by the token that opens them, or NoInquiry
  opening,  \* a customer's request: its step, its id and the ids it tried
  answer,   \* the public id the customer was answered
  reply,    \* an administrator's request: its step, inquiry and status read
  order,    \* the place of an inquiry by updated_at, the latest first; 0 is
            \* that of one not stored
  byHand    \* inquiries whose status was set by hand, one entry each time

vars == <<inquiry, opening, answer, reply, order, byHand>>

NoInquiry == [publicId |-> None, status |-> "NEW", messages |-> <<>>]
Row == [publicId : PublicIds, status : STATUS_VALUES,
        messages : Seq({"CUSTOMER", "ADMIN"})]

TypeOK ==
  /\ inquiry \in [Customers -> Row \cup {NoInquiry}]
  /\ opening \in [Customers -> [step : {"new", "insert", "children", "detail", "done"},
                                publicId : PublicIds \cup {None}, attempt : 0..2]]
  /\ answer \in [Customers -> PublicIds \cup {None}]
  /\ reply \in [Admins -> [step : {"idle", "read", "inserted"},
                           to : Customers \cup {None}, saw : STATUS_VALUES]]
  /\ order \in [Customers -> Nat]
  /\ byHand \in Seq(Customers)

Init ==
  /\ inquiry = [c \in Customers |-> NoInquiry]
  /\ opening = [c \in Customers |-> [step |-> "new", publicId |-> None, attempt |-> 0]]
  /\ answer = [c \in Customers |-> None]
  /\ reply = [a \in Admins |-> [step |-> "idle", to |-> None, saw |-> "NEW"]]
  /\ order = [c \in Customers |-> 0]
  /\ byHand = <<>>

Stored(c) == inquiry[c] # NoInquiry

(* The row is listed first from now on: it was updated last; those that    *)
(* were before it move down.                                               *)
Touched(c) ==
  [d \in Customers |-> IF d = c THEN 1
                       ELSE IF order[d] > 0 /\ (order[c] = 0 \/ order[d] < order[c])
                       THEN order[d] + 1 ELSE order[d]]

-----------------------------------------------------------------------------
(* Opening an inquiry: one transaction, then a read through the pool.      *)

(* Files are checked, the id and the token drawn.                          *)
Create(c) ==
  /\ opening[c].step = "new"
  /\ \E p \in PublicIds : opening' = [opening EXCEPT ![c].step = "insert", ![c].publicId = p]
  /\ UNCHANGED <<inquiry, answer, reply, order, byHand>>

(* The key on public_id: a row of another transaction still open makes the *)
(* insert wait for its end.                                                *)
Taken(p) == \E c \in Customers : inquiry[c].publicId = p
Awaited(c, p) == \E other \in Customers \ {c} : /\ opening[other].step = "children"
                                                /\ opening[other].publicId = p

(* A collision draws another id; the third one is an error, and everything *)
(* is rolled back.                                                         *)
InsertInquiry(c) ==
  LET p == opening[c].publicId IN
  /\ opening[c].step = "insert"
  /\ ~Awaited(c, p)
  /\ \/ /\ ~Taken(p)
        /\ opening' = [opening EXCEPT ![c].step = "children"]
     \/ /\ Taken(p) /\ opening[c].attempt < 2
        /\ \E q \in PublicIds : opening' = [opening EXCEPT ![c].publicId = q, ![c].attempt = @ + 1]
     \/ /\ Taken(p) /\ opening[c].attempt = 2
        /\ opening' = [opening EXCEPT ![c].step = "done"]
  /\ UNCHANGED <<inquiry, answer, reply, order, byHand>>

(* Attachments, the first message and the commit; or a failure of one of   *)
(* them, which rolls all back.                                             *)
CommitInquiry(c) ==
  /\ opening[c].step = "children"
  /\ opening' = [opening EXCEPT ![c].step = "detail"]
  /\ inquiry' = [inquiry EXCEPT ![c] = [publicId |-> opening[c].publicId, status |-> "NEW",
                                        messages |-> <<"CUSTOMER">>]]
  /\ order' = Touched(c)
  /\ UNCHANGED <<answer, reply, byHand>>

RollBack(c) ==
  /\ opening[c].step = "children"
  /\ opening' = [opening EXCEPT ![c].step = "done"]
  /\ UNCHANGED <<inquiry, answer, reply, order, byHand>>

(* The row is read back for the answer, with the token in clear.           *)
AnswerCustomer(c) ==
  /\ opening[c].step = "detail"
  /\ opening' = [opening EXCEPT ![c].step = "done"]
  /\ answer' = [answer EXCEPT ![c] = inquiry[c].publicId]
  /\ UNCHANGED <<inquiry, reply, order, byHand>>

(* The read after the commit fails: the customer is told of an error, and  *)
(* nobody knows the token of the inquiry that was stored.                  *)
AnswerLost(c) ==
  /\ opening[c].step = "detail"
  /\ opening' = [opening EXCEPT ![c].step = "done"]
  /\ UNCHANGED <<inquiry, answer, reply, order, byHand>>

-----------------------------------------------------------------------------
(* Administrators.                                                         *)

(* The inquiry a reply is for is read through the pool, outside the        *)
(* transaction that stores it.                                             *)
ReadInquiry(a, c) ==
  /\ reply[a].step = "idle" /\ Stored(c)
  /\ Len(inquiry[c].messages) < MaxMessages
  /\ reply' = [reply EXCEPT ![a] = [step |-> "read", to |-> c, saw |-> inquiry[c].status]]
  /\ UNCHANGED <<inquiry, opening, answer, order, byHand>>

(* The message row, not committed: the inquiry is locked in share mode.    *)
InsertMessage(a) ==
  /\ reply[a].step = "read"
  /\ Len(inquiry[reply[a].to].messages) < MaxMessages
  /\ reply' = [reply EXCEPT ![a].step = "inserted"]
  /\ UNCHANGED <<inquiry, opening, answer, order, byHand>>

(* Nobody else holds the lock of c's row.                                  *)
Unlocked(c, others) == \A a \in others : reply[a].step = "inserted" => reply[a].to # c

Idle(a) == [reply EXCEPT ![a] = [step |-> "idle", to |-> None, saw |-> "NEW"]]

(* The status follows the one read before the transaction.                 *)
AfterReplyKept(saw, status) == status
AfterReply(saw, status) == IF saw = "NEW" THEN "IN_PROGRESS" ELSE status

UpdateAndCommit(a) ==
  LET c == reply[a].to IN
  /\ reply[a].step = "inserted"
  /\ Unlocked(c, Admins \ {a})
  /\ inquiry' = [inquiry EXCEPT ![c].messages = Append(@, "ADMIN"),
                                ![c].status = AfterReply(reply[a].saw, @)]
  /\ order' = Touched(c)
  /\ reply' = Idle(a)
  /\ UNCHANGED <<opening, answer, byHand>>

(* Two replies to one inquiry hold its row in share mode and both want to  *)
(* update it: one is rolled back, with its message.                        *)
Deadlock(a) ==
  /\ reply[a].step = "inserted"
  /\ ~Unlocked(reply[a].to, Admins \ {a})
  /\ reply' = Idle(a)
  /\ UNCHANGED <<inquiry, opening, answer, order, byHand>>

(* PATCH .../status: any status, whatever it was.                          *)
UpdateStatus(c, status) ==
  /\ Stored(c) /\ Unlocked(c, Admins)
  /\ Len(byHand) < MaxByHand
  /\ inquiry' = [inquiry EXCEPT ![c].status = status]
  /\ order' = Touched(c)
  /\ byHand' = Append(byHand, c)
  /\ UNCHANGED <<opening, answer, reply>>

-----------------------------------------------------------------------------
(* What is read.                                                           *)

(* GET /support/inquiries/:publicId with a token: the row of that id, if   *)
(* its hash is the token's.                                                *)
PublicDetail(p, token) ==
  {c \in Customers : Stored(c) /\ inquiry[c].publicId = p /\ c = token}

(* The administrators' list, filtered by status, in the order of places.   *)
ListAdmin(status) == {c \in Customers : order[c] > 0 /\ inquiry[c].status = status}

Next ==
  \/ \E c \in Customers :
       \/ Create(c) \/ InsertInquiry(c) \/ CommitInquiry(c) \/ RollBack(c)
       \/ AnswerCustomer(c) \/ AnswerLost(c)
       \/ \E s \in STATUS_VALUES : UpdateStatus(c, s)
       \/ \E a \in Admins : ReadInquiry(a, c)
  \/ \E a \in Admins : InsertMessage(a) \/ UpdateAndCommit(a) \/ Deadlock(a)

Spec == Init /\ [][Next]_vars

-----------------------------------------------------------------------------
(* Properties.                                                             *)

(* Until somebody sets its status by hand, an inquiry is in the list of    *)
(* new ones exactly while nobody has replied, whatever became of replies   *)
(* that were written at the same time; and what a customer was answered    *)
(* opens his inquiry, collisions of its id included.                       *)
InquiriesAreFound ==
  \A c \in Customers :
    /\ (Stored(c) /\ \A i \in DOMAIN byHand : byHand[i] # c) =>
         (c \in ListAdmin("NEW") <=> inquiry[c].messages = <<"CUSTOMER">>)
    /\ answer[c] # None => PublicDetail(answer[c], c) = {c}
=============================================================================
