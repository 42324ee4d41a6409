------------------------------ MODULE Sessions ------------------------------
(***************************************************************************)
(* The sessions of one driver: logging in and out, refresh tokens, the     *)
(* password reset by an emailed code, suspension, and the sockets on which *)
(* he hears of open calls.                                                 *)
(*                                                                         *)
(* The password, the token version and the driver's status are rows of the *)
(* database; the revoked tokens and the sockets are the server's memory.   *)
(* Between two queries a handler yields, and bcrypt runs outside of any    *)
(* transaction.                                                            *)
(***************************************************************************)
EXTENDS Integers, Sequences, FiniteSets

CONSTANTS Requests,      \* concurrent logins and password resets
          Sockets,       \* connections of the driver's devices
          None,
          MAX_ATTEMPTS,  \* wrong codes before a code is dead
          MaxCodes, MaxTokens, MaxSuspensions   \* bounds

ASSUME SessionsAssumption ==
  /\ None \notin Requests
  /\ MAX_ATTEMPTS \in Nat /\ MaxCodes \in Nat /\ MaxTokens \in Nat /\ MaxSuspensions \in Nat

VARIABLES
  password,     \* users.password_hash: the first password is 0
  version,      \* users.auth_token_version
  status,       \* drivers.status
  codes,        \* rows of driver_password_reset_codes, oldest first
  codeLock,     \* the reset that holds the newest unused code, or None
  tokens,       \* refresh tokens given out
  revoked,      \* RevokedRefreshTokenStore: indices of tokens
  request,      \* Requests -> where the login or reset is
  socket,       \* Sockets -> where the connection is
  closing,      \* suspension committed, sockets not yet disconnected
  suspensions,  \* history: number of suspensions
  tried,        \* history: per code, how often a wrong guess was compared
  worked        \* history: the codes that reset the password, in order

account == <<password, version, status>>
resets == <<codes, codeLock, tried, worked>>
live == <<socket, closing>>
vars == <<account, codes, codeLock, tokens, revoked, request, socket, closing,
          suspensions, tried, worked>>

Passwords == 0..MaxCodes          \* one new password per code
Code == [fails: 0..MAX_ATTEMPTS, used: BOOLEAN, expired: BOOLEAN]
Token == [ver: Nat, password: Passwords, suspensions: 0..MaxSuspensions]

(* What a request carries: a login the row of users it read (ver, password *)
(* and how many suspensions came before), a reset the code it was given (0 *)
(* is a wrong one) and the row of codes it read.                           *)
Request == [pc: {"idle", "verify", "hash", "locked"},
            ver: Nat, password: Passwords, suspensions: 0..MaxSuspensions,
            code: 0..MaxCodes, row: 0..MaxCodes, fails: 0..MAX_ATTEMPTS]
Idle == [pc |-> "idle", ver |-> 0, password |-> 0, suspensions |-> 0,
         code |-> 0, row |-> 0, fails |-> 0]

TypeOK ==
  /\ password \in Passwords /\ version \in Nat
  /\ status \in {"OFFLINE", "AVAILABLE", "SUSPENDED"}
  /\ codes \in Seq(Code) /\ codeLock \in Requests \cup {None}
  /\ tokens \in Seq(Token) /\ revoked \subseteq DOMAIN tokens
  /\ request \in [Requests -> Request]
  /\ socket \in [Sockets -> {"closed", "open", "passed", "joined", "raced", "late"}]
  /\ closing \in BOOLEAN /\ suspensions \in 0..MaxSuspensions
  /\ tried \in Seq(Nat) /\ worked \in Seq(1..MaxCodes)

Init ==
  /\ password = 0 /\ version = 0 /\ status = "OFFLINE"
  /\ codes = <<>> /\ codeLock = None /\ tried = <<>> /\ worked = <<>>
  /\ tokens = <<>> /\ revoked = {}
  /\ request = [r \in Requests |-> Idle]
  /\ socket = [s \in Sockets |-> "closed"] /\ closing = FALSE
  /\ suspensions = 0

-----------------------------------------------------------------------------
(* Logging in.                                                             *)

(* login: the row of users is read; whoever gives a password that was not  *)
(* the current one then is refused after the comparison.                   *)
Login(r) ==
  /\ request[r].pc = "idle" /\ Len(tokens) < MaxTokens
  /\ request' = [request EXCEPT ![r] =
       [Idle EXCEPT !.pc = "verify", !.ver = version, !.password = password,
                    !.suspensions = suspensions]]
  /\ UNCHANGED <<account, resets, tokens, revoked, live, suspensions>>

Give(r, v) ==
  /\ request[r].pc = "verify" /\ Len(tokens) < MaxTokens
  /\ tokens' = Append(tokens, [ver |-> v, password |-> request[r].password,
                               suspensions |-> request[r].suspensions])
  /\ request' = [request EXCEPT ![r] = Idle]
  /\ UNCHANGED <<account, resets, revoked, live, suspensions>>

(* Mutant of Sign: the user is read again for the token.                   *)
SignFresh(r) == Give(r, version)

(* buildAuthResponse: the token is made from the row that was read.        *)
Sign(r) == Give(r, request[r].ver)

(* verifyRefreshToken and refresh: what a refresh accepts.                 *)
Accepted(i) == i \notin revoked /\ tokens[i].ver = version

(* logout: the token is refused from now on, and the driver goes offline   *)
(* unless he is suspended.                                                 *)
Logout(i) ==
  /\ i \in DOMAIN tokens /\ i \notin revoked
  /\ revoked' = revoked \cup {i}
  /\ status' = IF status = "SUSPENDED" THEN status ELSE "OFFLINE"
  /\ UNCHANGED <<password, version, resets, tokens, request, live, suspensions>>

-----------------------------------------------------------------------------
(* Resetting the password.                                                 *)

Unused == {i \in DOMAIN codes : ~codes[i].used}
Newest == IF Unused = {} THEN 0 ELSE CHOOSE i \in Unused : \A j \in Unused : j <= i
NewCode == [fails |-> 0, used |-> FALSE, expired |-> FALSE]

(* requestCode, createCode: earlier codes are used up.  The UPDATE waits   *)
(* for a reset that has locked one.                                        *)
RequestCode ==
  /\ Len(codes) < MaxCodes /\ codeLock = None
  /\ codes' = Append([i \in DOMAIN codes |-> [codes[i] EXCEPT !.used = TRUE]], NewCode)
  /\ tried' = Append(tried, 0)
  /\ UNCHANGED <<account, codeLock, worked, tokens, revoked, request, live, suspensions>>

ExpireCode(i) ==
  /\ i \in DOMAIN codes /\ ~codes[i].expired
  /\ codes' = [codes EXCEPT ![i].expired = TRUE]
  /\ UNCHANGED <<account, codeLock, tried, worked, tokens, revoked, request, live,
                 suspensions>>

(* resetPassword: the driver is found and the new password hashed.         *)
Reset(r, c) ==
  /\ request[r].pc = "idle"
  /\ request' = [request EXCEPT ![r] = [Idle EXCEPT !.pc = "hash", !.code = c]]
  /\ UNCHANGED <<account, resets, tokens, revoked, live, suspensions>>

(* consumeCodeAndUpdatePassword: the newest unused code is locked ...      *)
Hold(r, owner) ==
  /\ request[r].pc = "hash"
  /\ request' = [request EXCEPT ![r].pc = "locked", ![r].row = Newest,
                                ![r].fails = IF Newest = 0 THEN 0
                                             ELSE codes[Newest].fails]
  /\ codeLock' = owner
  /\ UNCHANGED <<account, codes, tried, worked, tokens, revoked, live, suspensions>>

(* Mutant of LockCode: the code is read without FOR UPDATE.                *)
ReadCode(r) == Hold(r, codeLock)

LockCode(r) == codeLock = None /\ Hold(r, r)

(* ... and compared: a wrong one counts, the right one changes the         *)
(* password, ends every session by the version, and is used up.            *)
Consume(r) ==
  LET c == request[r].row
      fails == request[r].fails
      right == request[r].code = c /\ c # 0 /\ fails < MAX_ATTEMPTS /\ ~codes[c].expired
  IN /\ request[r].pc = "locked"
     /\ IF right
        THEN /\ password' = c /\ version' = version + 1
             /\ codes' = [codes EXCEPT ![c].used = TRUE]
             /\ worked' = Append(worked, c)
             /\ UNCHANGED tried
        ELSE /\ IF c # 0 /\ fails < MAX_ATTEMPTS
                THEN /\ codes' = [codes EXCEPT ![c].fails = @ + 1]
                     /\ tried' = [tried EXCEPT ![c] = @ + 1]
                ELSE UNCHANGED <<codes, tried>>
             /\ UNCHANGED <<password, version, worked>>
     /\ codeLock' = IF codeLock = r THEN None ELSE codeLock
     /\ request' = [request EXCEPT ![r] = Idle]
     /\ UNCHANGED <<status, tokens, revoked, live, suspensions>>

-----------------------------------------------------------------------------
(* Suspension and sockets.                                                 *)

(* suspend, its transaction.                                               *)
Suspend ==
  /\ suspensions < MaxSuspensions /\ ~closing
  /\ status' = "SUSPENDED" /\ version' = version + 1
  /\ suspensions' = suspensions + 1
  /\ closing' = TRUE
  /\ socket' = [s \in Sockets |-> IF socket[s] = "passed" THEN "raced" ELSE socket[s]]
  /\ UNCHANGED <<password, resets, tokens, revoked, request>>

(* Mutant of Disconnect: the reopened bookings are announced and the       *)
(* sockets forgotten.                                                      *)
DisconnectNobody ==
  /\ closing /\ closing' = FALSE
  /\ UNCHANGED <<account, resets, tokens, revoked, request, socket, suspensions>>

(* suspend, after the commit: the sockets in the driver's room are closed. *)
Disconnect ==
  /\ closing /\ closing' = FALSE
  /\ socket' = [s \in Sockets |-> IF socket[s] \in {"joined", "late"} THEN "closed"
                                  ELSE socket[s]]
  /\ UNCHANGED <<account, resets, tokens, revoked, request, suspensions>>

(* unsuspend.                                                              *)
Unsuspend ==
  /\ status = "SUSPENDED" /\ status' = "OFFLINE"
  /\ UNCHANGED <<password, version, resets, tokens, revoked, request, live, suspensions>>

(* goOnline.                                                               *)
GoOnline ==
  /\ status # "SUSPENDED" /\ status' = "AVAILABLE"
  /\ UNCHANGED <<password, version, resets, tokens, revoked, request, live, suspensions>>

Move(s, from, to) ==
  /\ socket[s] = from /\ socket' = [socket EXCEPT ![s] = to]
  /\ UNCHANGED <<account, resets, tokens, revoked, request, closing, suspensions>>

(* The connection, with any access token: the version is not looked at.    *)
Connect(s) == tokens # <<>> /\ Move(s, "closed", "open")

(* joinDriverRooms: the driver is read and must not be suspended; the      *)
(* socket joins the rooms when the answer has come.  A socket that passed  *)
(* before a suspension and joins after it is told apart.                   *)
CheckOperational(s) == status # "SUSPENDED" /\ Move(s, "open", "passed")
Join(s) == Move(s, "passed", "joined") \/ Move(s, "raced", "late")

CloseSocket(s) ==
  /\ socket[s] # "closed" /\ socket' = [socket EXCEPT ![s] = "closed"]
  /\ UNCHANGED <<account, resets, tokens, revoked, request, closing, suspensions>>

(* The server restarts: its memory is lost, the transactions roll back.    *)
Restart ==
  /\ revoked' = {} /\ codeLock' = None /\ closing' = FALSE
  /\ request' = [r \in Requests |-> Idle]
  /\ socket' = [s \in Sockets |-> "closed"]
  /\ UNCHANGED <<account, codes, tried, worked, tokens, suspensions>>

Next ==
  \/ \E r \in Requests : \/ Login(r) \/ Sign(r) \/ LockCode(r) \/ Consume(r)
                         \/ \E c \in 0..Len(codes) : Reset(r, c)
  \/ \E i \in DOMAIN tokens : Logout(i)
  \/ RequestCode \/ \E i \in DOMAIN codes : ExpireCode(i)
  \/ Suspend \/ Disconnect \/ Unsuspend \/ GoOnline
  \/ \E s \in Sockets : Connect(s) \/ CheckOperational(s) \/ Join(s) \/ CloseSocket(s)
  \/ Restart

Spec == Init /\ [][Next]_vars

-----------------------------------------------------------------------------
(* A refresh token that is still accepted was obtained with the current    *)
(* password and since the last suspension, even if that login was under    *)
(* way when the password was reset or the driver suspended.                *)
SessionsEndWithPassword ==
  \A i \in DOMAIN tokens :
    Accepted(i) => tokens[i].password = password /\ tokens[i].suspensions = suspensions

(* No code resets the password twice or after a newer one did, and no code *)
(* is guessed at more often than allowed, however many resets are sent at  *)
(* the same time.                                                          *)
CodeWorksOnce ==
  /\ \A m, n \in DOMAIN worked : m < n => worked[m] < worked[n]
  /\ \A c \in DOMAIN tried : tried[c] <= MAX_ATTEMPTS

(* Once a suspension has closed the driver's sockets, none of them is left *)
(* in the rooms of open calls, but one whose check had passed before the   *)
(* suspension and that joined after the others were closed.                *)
SuspendedHearsNothing ==
  status = "SUSPENDED" /\ ~closing => \A s \in Sockets : socket[s] # "joined"
=============================================================================
