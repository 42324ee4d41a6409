-------------------------- MODULE UserAccountsProofs ------------------------
(***************************************************************************)
(* Sessions.  For any number of logins, resets, sockets, codes and         *)
(* suspensions: what a token was obtained with, who hears of open calls    *)
(* after a suspension, and how often a code works.  The three rest on      *)
(* invariants of their own (TokensFresh with LoginsFresh, SocketsShut,     *)
(* CodesInv), which each action keeps.                                     *)
(*                                                                         *)
(* Social sign-ins (SocialInv): each placeholder's account is linked, on   *)
(* the way to its link in some sign-in, or was left by one that failed.    *)
(*                                                                         *)
(* Applications (ApplicationInv): who has searched users holds its lock,   *)
(* so that what it found of the pending applications holds when it inserts.*)
(*                                                                         *)
(* Positions (LocationInv): the rooms a report has listed are of trips its *)
(* driver is on, or ended since.                                           *)
(*                                                                         *)
(* Inquiries (SupportInv): a reply that read another status than NEW, and  *)
(* will write the one it finds, finds none that is NEW.                    *)
(***************************************************************************)
EXTENDS UserAccounts, SequenceTheorems, TLAPS

(* No row of users read before the last reset or suspension has today's    *)
(* version.                                                                *)
FreshSign(t) ==
  /\ t.ver <= version
  /\ t.ver = version => t.password = password /\ t.suspensions = suspensions

TokensFresh == \A i \in DOMAIN tokens : FreshSign(tokens[i])
LoginsFresh == \A r \in Requests : request[r].pc = "verify" => FreshSign(request[r])

(* While he is suspended no socket is about to join, and none is left in   *)
(* the rooms once they have been closed.                                   *)
SocketsShut ==
  status = "SUSPENDED" =>
    \A s \in Sockets : socket[s] # "passed" /\ (~closing => socket[s] # "joined")

(* Only the newest code is unused; the reset that compares holds it, and   *)
(* has read its row as it is.                                              *)
Held(r) ==
  request[r].pc = "locked" =>
    /\ codeLock = r
    /\ request[r].row # 0 =>
         /\ request[r].row \in DOMAIN codes
         /\ ~codes[request[r].row].used
         /\ request[r].fails = codes[request[r].row].fails

CodesInv ==
  /\ Len(codes) <= MaxCodes /\ Len(tried) = Len(codes)
  /\ \A i \in DOMAIN codes : tried[i] = codes[i].fails
  /\ \A i \in DOMAIN codes : ~codes[i].used => i = Len(codes)
  /\ \A k \in DOMAIN worked : worked[k] \in DOMAIN codes /\ codes[worked[k]].used
  /\ \A m, n \in DOMAIN worked : m < n => worked[m] < worked[n]
  /\ \A r \in Requests : Held(r)

IInv == TypeOK /\ TokensFresh /\ LoginsFresh /\ SocketsShut /\ CodesInv

-----------------------------------------------------------------------------
(* An idle request is well-typed.                                          *)
LEMMA IdleType == Idle \in Request /\ Idle.pc = "idle"
  BY SessionsAssumption DEF Idle, Request, Passwords

(* The row a reset locks: the newest code, when that is unused.            *)
LEMMA NewestRow ==
  ASSUME CodesInv, TypeOK
  PROVE  /\ Newest \in 0..MaxCodes
         /\ Newest # 0 => Newest \in DOMAIN codes /\ ~codes[Newest].used
<1>1. CASE Unused = {}
  BY <1>1, SessionsAssumption DEF Newest
<1>2. CASE Unused # {}
  <2>1. PICK i \in Unused : \A j \in Unused : j <= i
    <3>1. PICK i \in Unused : TRUE BY <1>2
    <3>2. \A j \in Unused : j = i BY <3>1 DEF Unused, CodesInv
    <3> QED BY <3>2 DEF Unused, TypeOK
  <2>2. Newest \in Unused
    BY <1>2, <2>1 DEF Newest
  <2> QED BY <2>2, SessionsAssumption DEF Unused, CodesInv, TypeOK
<1> QED BY <1>1, <1>2

(* No token, code, request or socket at first.                             *)
LEMMA Initially == Init => IInv
<1> SUFFICES ASSUME Init PROVE IInv
  OBVIOUS
<1>1. TypeOK
  <2>1. /\ password \in Passwords /\ version \in Nat
        /\ status \in {"OFFLINE", "AVAILABLE", "SUSPENDED"}
        /\ codeLock \in Requests \cup {None}
        /\ suspensions \in 0..MaxSuspensions
    BY SessionsAssumption DEF Init, Passwords
  <2>2. /\ codes \in Seq(Code) /\ tokens \in Seq(Token) /\ revoked \subseteq DOMAIN tokens
        /\ tried \in Seq(Nat) /\ worked \in Seq(1..MaxCodes)
    BY DEF Init
  <2>3. /\ request \in [Requests -> Request] /\ closing \in BOOLEAN
        /\ socket \in [Sockets -> {"closed", "open", "passed", "joined", "raced", "late"}]
    BY IdleType DEF Init
  <2> QED BY <2>1, <2>2, <2>3 DEF TypeOK
<1>2. TokensFresh /\ SocketsShut
  BY DEF Init, TokensFresh, SocketsShut
<1>3. LoginsFresh /\ CodesInv
  BY IdleType, SessionsAssumption DEF Init, LoginsFresh, CodesInv, Held
<1> QED BY <1>1, <1>2, <1>3 DEF IInv

-----------------------------------------------------------------------------
(* What each action does to a request, and what it is certain to leave.    *)

(* Tokens and logins under way stay no newer than what they were checked against. *)
LEMMA TokenStep ==
  ASSUME IInv, Next
  PROVE  TokensFresh' /\ LoginsFresh'
<1> USE DEF IInv
<1>1. ASSUME NEW r \in Requests, Login(r) PROVE TokensFresh' /\ LoginsFresh'
  <2> DEFINE q == [Idle EXCEPT !.pc = "verify", !.ver = version, !.password = password,
                               !.suspensions = suspensions]
  <2>1. q.ver = version /\ q.password = password /\ q.suspensions = suspensions
    BY DEF Idle
  <2>2. request' = [request EXCEPT ![r] = q] /\ UNCHANGED <<account, tokens, suspensions>>
    BY <1>1 DEF Login
  <2> HIDE DEF q
  <2>3. TokensFresh'
    BY <2>2 DEF TokensFresh, FreshSign, account
  <2>4. LoginsFresh'
    BY <2>1, <2>2 DEF LoginsFresh, FreshSign, account, TypeOK
  <2> QED BY <2>3, <2>4
<1>2. ASSUME NEW r \in Requests, Sign(r) PROVE TokensFresh' /\ LoginsFresh'
  <2> DEFINE t == [ver |-> request[r].ver, password |-> request[r].password,
                   suspensions |-> request[r].suspensions]
  <2>1. /\ tokens' = Append(tokens, t) /\ request' = [request EXCEPT ![r] = Idle]
        /\ UNCHANGED <<account, suspensions>> /\ FreshSign(t)
    BY <1>2 DEF Sign, Give, LoginsFresh, FreshSign
  <2> HIDE DEF t
  <2>2. TokensFresh'
    BY <2>1 DEF TokensFresh, FreshSign, account, TypeOK
  <2>3. LoginsFresh'
    BY <2>1, IdleType DEF LoginsFresh, FreshSign, account, TypeOK
  <2> QED BY <2>2, <2>3
<1>3. ASSUME version' = version + 1, UNCHANGED tokens,
             \A r \in Requests : request'[r].pc = "verify" => request'[r] = request[r]
      PROVE  TokensFresh' /\ LoginsFresh'
  <2>1. \A i \in DOMAIN tokens : tokens[i].ver \in Nat
    <3>1. \A i \in DOMAIN tokens : tokens[i] \in Token BY DEF TypeOK
    <3> QED BY <3>1 DEF Token
  <2>2. \A r \in Requests : request[r].ver \in Nat
    BY DEF TypeOK, Request
  <2>3. TokensFresh'
    BY <1>3, <2>1 DEF TokensFresh, FreshSign, TypeOK
  <2>4. LoginsFresh'
    BY <1>3, <2>2 DEF LoginsFresh, FreshSign, TypeOK
  <2> QED BY <2>3, <2>4
<1>4. ASSUME UNCHANGED <<version, password, suspensions, tokens>>,
             \A r \in Requests : request'[r].pc = "verify" => request'[r] = request[r]
      PROVE  TokensFresh' /\ LoginsFresh'
  BY <1>4 DEF TokensFresh, LoginsFresh, FreshSign, TypeOK
<1>5. ASSUME NEW r \in Requests, NEW q, q.pc # "verify", request' = [request EXCEPT ![r] = q]
      PROVE  \A k \in Requests : request'[k].pc = "verify" => request'[k] = request[k]
  BY <1>5 DEF TypeOK
<1>6. ASSUME NEW r \in Requests, Consume(r) PROVE TokensFresh' /\ LoginsFresh'
  <2>1. \A k \in Requests : request'[k].pc = "verify" => request'[k] = request[k]
    BY <1>5, <1>6, IdleType DEF Consume
  <2>2. \/ version' = version + 1 /\ UNCHANGED tokens
        \/ UNCHANGED <<version, password, suspensions, tokens>>
    BY <1>6 DEF Consume
  <2> QED BY <2>1, <2>2, <1>3, <1>4
<1>7. ASSUME NEW r \in Requests, LockCode(r) PROVE TokensFresh' /\ LoginsFresh'
  BY <1>7, <1>4 DEF LockCode, Hold, account, TypeOK
<1>8. ASSUME NEW r \in Requests, NEW c \in 0..Len(codes), Reset(r, c)
      PROVE  TokensFresh' /\ LoginsFresh'
  <2>1. [Idle EXCEPT !.pc = "hash", !.code = c].pc = "hash"
    BY DEF Idle
  <2>2. \A k \in Requests : request'[k].pc = "verify" => request'[k] = request[k]
    BY <1>5, <1>8, <2>1 DEF Reset
  <2> QED BY <2>2, <1>4, <1>8 DEF Reset, account
<1>9. CASE \/ \E i \in DOMAIN tokens : Logout(i)
           \/ RequestCode \/ \E i \in DOMAIN codes : ExpireCode(i)
           \/ Disconnect \/ Unsuspend \/ GoOnline
           \/ \E s \in Sockets : Connect(s) \/ CheckOperational(s) \/ Join(s) \/ CloseSocket(s)
  <2>1. UNCHANGED <<version, password, suspensions, tokens, request>>
    BY <1>9 DEF Logout, RequestCode, ExpireCode, Disconnect, Unsuspend, GoOnline, Connect,
                CheckOperational, Join, CloseSocket, Move, account
  <2> QED BY <2>1, <1>4
<1>10. CASE Suspend
  BY <1>10, <1>3 DEF Suspend
<1>11. CASE Restart
  <2>1. \A r \in Requests : request'[r] = Idle
    BY <1>11 DEF Restart
  <2> QED BY <2>1, <1>11, <1>4, IdleType DEF Restart, account
<1> QED BY <1>1, <1>2, <1>6, <1>7, <1>8, <1>9, <1>10, <1>11 DEF Next

(* Sockets stay out of the rooms once a suspension has closed them.        *)
LEMMA SocketStep ==
  ASSUME IInv, Next
  PROVE  SocketsShut'
<1> USE DEF IInv
<1>1. CASE UNCHANGED <<status, socket, closing>>
  BY <1>1 DEF SocketsShut
<1>2. CASE status' # "SUSPENDED"
  BY <1>2 DEF SocketsShut
<1>3. CASE \/ \E r \in Requests : \/ Login(r) \/ Sign(r) \/ LockCode(r) \/ Consume(r)
                                  \/ \E c \in 0..Len(codes) : Reset(r, c)
           \/ RequestCode \/ \E i \in DOMAIN codes : ExpireCode(i)
  BY <1>1, <1>3 DEF Login, Sign, Give, LockCode, Hold, Consume, Reset, RequestCode, ExpireCode,
                    account, live
<1>4. CASE \E i \in DOMAIN tokens : Logout(i)
  BY <1>1, <1>2, <1>4 DEF Logout, live
<1>5. CASE Suspend
  BY <1>5 DEF Suspend, SocketsShut, TypeOK
<1>6. CASE Disconnect
  BY <1>6 DEF Disconnect, SocketsShut, TypeOK, account
<1>7. CASE Unsuspend \/ GoOnline
  BY <1>2, <1>7 DEF Unsuspend, GoOnline
<1>8. ASSUME NEW s \in Sockets, Connect(s) \/ CheckOperational(s) \/ Join(s) \/ CloseSocket(s)
      PROVE  SocketsShut'
  <2>1. CASE status # "SUSPENDED"
    BY <2>1, <1>8, <1>2 DEF Connect, CheckOperational, Join, CloseSocket, Move, account
  <2>2. CASE status = "SUSPENDED"
    <3>1. PICK to \in {"open", "late", "closed"} :
            socket' = [socket EXCEPT ![s] = to] /\ UNCHANGED <<status, closing>>
      BY <2>2, <1>8 DEF Connect, CheckOperational, Join, CloseSocket, Move, account, SocketsShut
    <3> QED BY <3>1 DEF SocketsShut, TypeOK
  <2> QED BY <2>1, <2>2
<1>9. CASE Restart
  BY <1>9 DEF Restart, SocketsShut
<1> QED BY <1>3, <1>4, <1>5, <1>6, <1>7, <1>8, <1>9 DEF Next

(* The lock on the newest code keeps uses and guesses in order.            *)
LEMMA CodeStep ==
  ASSUME IInv, Next
  PROVE  CodesInv'
<1> USE DEF IInv
<1>1. ASSUME UNCHANGED <<codes, codeLock, tried, worked>>,
             \A r \in Requests : request'[r].pc = "locked" => request'[r] = request[r]
      PROVE  CodesInv'
  BY <1>1 DEF CodesInv, Held
<1>2. codeLock = None => \A r \in Requests : request[r].pc # "locked"
  BY SessionsAssumption DEF CodesInv, Held
<1>3. ASSUME NEW r \in Requests, NEW q, q.pc # "locked", request' = [request EXCEPT ![r] = q]
      PROVE  \A k \in Requests : request'[k].pc = "locked" => k # r /\ request'[k] = request[k]
  BY <1>3 DEF TypeOK
<1>4. ASSUME NEW r \in Requests, Login(r) \/ Sign(r) \/ \E c \in 0..Len(codes) : Reset(r, c)
      PROVE  CodesInv'
  <2>1. UNCHANGED <<codes, codeLock, tried, worked>>
    BY <1>4 DEF Login, Sign, Give, Reset, resets
  <2>2. PICK q : q.pc # "locked" /\ request' = [request EXCEPT ![r] = q]
    <3>1. /\ \A v, p, n : [Idle EXCEPT !.pc = "verify", !.ver = v, !.password = p,
                                       !.suspensions = n].pc = "verify"
          /\ \A c : [Idle EXCEPT !.pc = "hash", !.code = c].pc = "hash"
      BY DEF Idle
    <3> QED BY <1>4, <3>1, IdleType DEF Login, Sign, Give, Reset
  <2>3. \A k \in Requests : request'[k].pc = "locked" => request'[k] = request[k]
    BY <2>2, <1>3
  <2> QED BY <2>1, <2>3, <1>1
<1>5. CASE \/ \E i \in DOMAIN tokens : Logout(i)
           \/ Suspend \/ Disconnect \/ Unsuspend \/ GoOnline
           \/ \E s \in Sockets : Connect(s) \/ CheckOperational(s) \/ Join(s) \/ CloseSocket(s)
  <2>1. UNCHANGED <<codes, codeLock, tried, worked, request>>
    BY <1>5 DEF Logout, Suspend, Disconnect, Unsuspend, GoOnline, Connect, CheckOperational,
                Join, CloseSocket, Move, resets
  <2> QED BY <2>1, <1>1
<1>6. CASE RequestCode
  <2>1. codes' = Append([i \in DOMAIN codes |-> [codes[i] EXCEPT !.used = TRUE]], NewCode)
    BY <1>6 DEF RequestCode
  <2>2. /\ Len(codes') = Len(codes) + 1 /\ DOMAIN codes' = 1..(Len(codes) + 1)
        /\ \A i \in DOMAIN codes : codes'[i].used /\ codes'[i].fails = codes[i].fails
        /\ codes'[Len(codes) + 1].fails = 0
    BY <2>1 DEF NewCode, TypeOK, Code
  <2>3. /\ tried' = Append(tried, 0) /\ UNCHANGED <<worked, request>>
        /\ Len(codes) < MaxCodes /\ codeLock = None
    BY <1>6 DEF RequestCode
  <2>4. Len(codes') <= MaxCodes /\ Len(tried') = Len(codes')
    BY <2>2, <2>3, SessionsAssumption DEF CodesInv, TypeOK
  <2>5. \A i \in DOMAIN codes' : tried'[i] = codes'[i].fails /\ (~codes'[i].used => i = Len(codes'))
    BY <2>2, <2>3 DEF CodesInv, TypeOK
  <2>6. \A k \in DOMAIN worked' : worked'[k] \in DOMAIN codes' /\ codes'[worked'[k]].used
    BY <2>2, <2>3 DEF CodesInv, TypeOK
  <2>7. \A r \in Requests : Held(r)'
    BY <2>3, <1>2 DEF Held
  <2> QED BY <2>3, <2>4, <2>5, <2>6, <2>7 DEF CodesInv
<1>7. ASSUME NEW c \in DOMAIN codes, ExpireCode(c)
      PROVE  CodesInv'
  <2>1. /\ Len(codes') = Len(codes) /\ DOMAIN codes' = DOMAIN codes
        /\ \A i \in DOMAIN codes : (codes'[i].used <=> codes[i].used)
                                  /\ codes'[i].fails = codes[i].fails
        /\ UNCHANGED <<codeLock, tried, worked, request>>
    BY <1>7 DEF ExpireCode, TypeOK, Code
  <2> QED BY <2>1 DEF CodesInv, Held
<1>8. ASSUME NEW r \in Requests, LockCode(r)
      PROVE  CodesInv'
  <2>1. /\ codeLock = None /\ codeLock' = r /\ UNCHANGED <<codes, tried, worked>>
        /\ request' = [request EXCEPT ![r].pc = "locked", ![r].row = Newest,
                          ![r].fails = IF Newest = 0 THEN 0 ELSE codes[Newest].fails]
    BY <1>8 DEF LockCode, Hold
  <2>2. /\ request'[r].row = Newest
        /\ Newest # 0 => request'[r].fails = codes[Newest].fails
        /\ \A k \in Requests \ {r} : request'[k] = request[k]
    BY <2>1 DEF TypeOK, Request
  <2>3. \A k \in Requests : Held(k)'
    BY <2>1, <2>2, <1>2, NewestRow DEF Held
  <2> QED BY <2>1, <2>3 DEF CodesInv
<1>9. ASSUME NEW r \in Requests, Consume(r)
      PROVE  CodesInv'
  <2> DEFINE c == request[r].row
             right == request[r].code = c /\ c # 0 /\ request[r].fails < MAX_ATTEMPTS
                      /\ ~codes[c].expired
  <2>1. /\ codeLock = r
        /\ c # 0 => c \in DOMAIN codes /\ ~codes[c].used /\ request[r].fails = codes[c].fails
    BY <1>9 DEF Consume, CodesInv, Held
  <2>2. \A k \in Requests : request'[k].pc # "locked"
    <3>1. \A k \in Requests \ {r} : request[k].pc # "locked"
      BY <2>1 DEF CodesInv, Held
    <3> QED BY <3>1, <1>9, IdleType DEF Consume, TypeOK
  <2>3. \A k \in Requests : Held(k)'
    BY <2>2 DEF Held
  <2>4. CASE right
    <3>1. /\ codes' = [codes EXCEPT ![c].used = TRUE] /\ worked' = Append(worked, c)
          /\ tried' = tried /\ c \in DOMAIN codes /\ ~codes[c].used /\ c = Len(codes)
      BY <1>9, <2>1, <2>4 DEF Consume, CodesInv
    <3> HIDE DEF c
    <3>2. /\ Len(codes') = Len(codes) /\ DOMAIN codes' = DOMAIN codes
          /\ \A i \in DOMAIN codes : (codes'[i].used <=> (i = c \/ codes[i].used))
                                    /\ codes'[i].fails = codes[i].fails
      BY <3>1 DEF TypeOK, Code
    <3>3. \A k \in DOMAIN worked : worked[k] < c /\ worked[k] \in DOMAIN codes
                                 /\ codes[worked[k]].used
      BY <3>1 DEF CodesInv, TypeOK
    <3>4. /\ DOMAIN worked' = 1..(Len(worked) + 1) /\ worked'[Len(worked) + 1] = c
          /\ \A k \in DOMAIN worked : worked'[k] = worked[k]
      BY <3>1 DEF TypeOK
    <3>5. \A k \in DOMAIN worked' : worked'[k] \in DOMAIN codes' /\ codes'[worked'[k]].used
      BY <3>1, <3>2, <3>3, <3>4 DEF TypeOK
    <3>6. ASSUME NEW m \in DOMAIN worked', NEW n \in DOMAIN worked', m < n
          PROVE  worked'[m] < worked'[n]
      <4>1. Len(worked) \in Nat /\ DOMAIN worked = 1..Len(worked)
        BY DEF TypeOK
      <4>2. m \in DOMAIN worked
        BY <3>4, <3>6, <4>1
      <4>3. CASE n = Len(worked) + 1
        BY <3>3, <3>4, <4>2, <4>3
      <4>4. CASE n # Len(worked) + 1
        BY <3>4, <3>6, <4>1, <4>2, <4>4 DEF CodesInv
      <4> QED BY <4>3, <4>4
    <3>7. /\ Len(codes') <= MaxCodes /\ Len(tried') = Len(codes')
          /\ \A i \in DOMAIN codes' : tried'[i] = codes'[i].fails
          /\ \A i \in DOMAIN codes' : ~codes'[i].used => i = Len(codes')
      BY <3>1, <3>2 DEF CodesInv
    <3> QED BY <2>3, <3>5, <3>6, <3>7 DEF CodesInv
  <2>5. CASE ~right
    <3>1. /\ worked' = worked
          /\ \/ c # 0 /\ codes' = [codes EXCEPT ![c].fails = request[r].fails + 1]
                        /\ tried' = [tried EXCEPT ![c] = @ + 1]
             \/ UNCHANGED <<codes, tried>>
      BY <1>9, <2>1, <2>5 DEF Consume
    <3> HIDE DEF c
    <3>2. CASE UNCHANGED <<codes, tried>>
      BY <2>3, <3>1, <3>2 DEF CodesInv
    <3>3. CASE /\ c # 0 /\ codes' = [codes EXCEPT ![c].fails = request[r].fails + 1]
               /\ tried' = [tried EXCEPT ![c] = @ + 1]
      <4>1. c \in DOMAIN codes /\ request[r].fails = codes[c].fails
        BY <2>1, <3>3
      <4>2. /\ Len(codes') = Len(codes) /\ DOMAIN codes' = DOMAIN codes
            /\ Len(tried') = Len(tried) /\ DOMAIN tried = DOMAIN codes
        BY <3>3 DEF TypeOK, CodesInv
      <4>3. ASSUME NEW i \in DOMAIN codes
            PROVE  /\ codes'[i].used <=> codes[i].used
                   /\ tried'[i] = codes'[i].fails
        <5>1. codes[i] \in Code BY DEF TypeOK
        <5>2. CASE i = c
          <6>1. codes'[i] = [codes[i] EXCEPT !.fails = codes[i].fails + 1]
            BY <3>3, <4>1, <5>2
          <6>2. codes'[i].fails = codes[i].fails + 1 /\ codes'[i].used = codes[i].used
            BY <5>1, <6>1 DEF Code
          <6>3. tried'[i] = codes[i].fails + 1
            BY <3>3, <4>2, <5>2 DEF CodesInv
          <6> QED BY <6>2, <6>3
        <5>3. CASE i # c
          <6>1. codes'[i] = codes[i] /\ tried'[i] = tried[i]
            BY <3>3, <4>2, <5>3 DEF TypeOK
          <6> QED BY <6>1 DEF CodesInv
        <5> QED BY <5>2, <5>3
      <4> QED BY <2>3, <3>1, <4>2, <4>3 DEF CodesInv
    <3> QED BY <3>1, <3>2, <3>3
  <2> QED BY <2>4, <2>5
<1>10. CASE Restart
  BY <1>10, IdleType DEF Restart, CodesInv, Held
<1> QED BY <1>4, <1>5, <1>6, <1>7, <1>8, <1>9, <1>10 DEF Next

(* Lookups in a record or a sequence of records keep their types.          *)
LEMMA TypeStep ==
  ASSUME IInv, Next
  PROVE  TypeOK'
<1> USE DEF IInv
<1> DEFINE Socket == {"closed", "open", "passed", "joined", "raced", "late"}
           Status == {"OFFLINE", "AVAILABLE", "SUSPENDED"}
<1>1. ASSUME NEW r \in Requests, Login(r)
      PROVE  TypeOK'
  <2>1. [Idle EXCEPT !.pc = "verify", !.ver = version, !.password = password,
                     !.suspensions = suspensions] \in Request
    BY IdleType, SessionsAssumption DEF Idle, Request, TypeOK, Passwords
  <2>2. request' \in [Requests -> Request]
    BY <1>1, <2>1 DEF Login, TypeOK
  <2> QED BY <1>1, <2>2 DEF Login, TypeOK, account, resets, live
<1>2. ASSUME NEW r \in Requests, Sign(r)
      PROVE  TypeOK'
  <2>1. [ver |-> request[r].ver, password |-> request[r].password,
         suspensions |-> request[r].suspensions] \in Token
    BY DEF TypeOK, Request, Token
  <2>2. tokens' \in Seq(Token) /\ revoked' \subseteq DOMAIN tokens'
    BY <1>2, <2>1 DEF Sign, Give, TypeOK
  <2>3. request' \in [Requests -> Request]
    BY <1>2, IdleType DEF Sign, Give, TypeOK
  <2> QED BY <1>2, <2>2, <2>3 DEF Sign, Give, TypeOK, account, resets, live
<1>3. ASSUME NEW r \in Requests, NEW c \in 0..Len(codes), Reset(r, c)
      PROVE  TypeOK'
  <2>1. c \in 0..MaxCodes
    BY SessionsAssumption DEF CodesInv, TypeOK
  <2>2. [Idle EXCEPT !.pc = "hash", !.code = c] \in Request
    BY <2>1, IdleType DEF Idle, Request
  <2>3. request' \in [Requests -> Request]
    BY <1>3, <2>2 DEF Reset, TypeOK
  <2> QED BY <1>3, <2>3 DEF Reset, TypeOK, account, resets, live
<1>4. ASSUME NEW r \in Requests, LockCode(r)
      PROVE  TypeOK'
  <2> DEFINE f == IF Newest = 0 THEN 0 ELSE codes[Newest].fails
  <2>1. f \in 0..MAX_ATTEMPTS /\ Newest \in 0..MaxCodes
    <3>1. Newest # 0 => codes[Newest] \in Code
      BY NewestRow DEF TypeOK
    <3> QED BY <3>1, NewestRow, SessionsAssumption DEF Code
  <2>2. request' = [request EXCEPT ![r] =
                      [request[r] EXCEPT !.pc = "locked", !.row = Newest, !.fails = f]]
    BY <1>4 DEF LockCode, Hold, TypeOK
  <2> HIDE DEF f
  <2>3. [request[r] EXCEPT !.pc = "locked", !.row = Newest, !.fails = f] \in Request
    BY <2>1 DEF TypeOK, Request
  <2>4. request' \in [Requests -> Request]
    BY <2>2, <2>3 DEF TypeOK
  <2> QED BY <1>4, <2>4 DEF LockCode, Hold, TypeOK, account, live
<1>5. ASSUME NEW r \in Requests, Consume(r)
      PROVE  TypeOK'
  <2> DEFINE c == request[r].row
  <2>1. /\ c # 0 => c \in DOMAIN codes /\ codes[c] \in Code /\ request[r].fails = codes[c].fails
        /\ c \in 0..MaxCodes /\ version + 1 \in Nat
    <3>1. c \in 0..MaxCodes /\ version + 1 \in Nat
      BY DEF TypeOK, Request
    <3>2. request[r].pc = "locked"
      BY <1>5 DEF Consume
    <3>3. c # 0 => c \in DOMAIN codes /\ request[r].fails = codes[c].fails
      BY <3>2 DEF CodesInv, Held
    <3> QED BY <3>1, <3>3 DEF TypeOK
  <2>2. /\ \/ c # 0 /\ password' = c /\ version' = version + 1 /\ worked' = Append(worked, c)
           \/ UNCHANGED <<password, version, worked>>
        /\ \/ UNCHANGED codes
           \/ c # 0 /\ codes' = [codes EXCEPT ![c].used = TRUE]
           \/ c # 0 /\ codes[c].fails < MAX_ATTEMPTS
                    /\ codes' = [codes EXCEPT ![c].fails = @ + 1]
        /\ UNCHANGED tried \/ (c # 0 /\ tried' = [tried EXCEPT ![c] = @ + 1])
    BY <1>5, <2>1 DEF Consume
  <2> HIDE DEF c
  <2>3. password' \in Passwords /\ version' \in Nat /\ worked' \in Seq(1..MaxCodes)
    <3>1. c # 0 => c \in 1..MaxCodes
      BY <2>1, SessionsAssumption
    <3>2. CASE UNCHANGED <<password, version, worked>>
      BY <3>2 DEF TypeOK
    <3>3. CASE c # 0 /\ password' = c /\ version' = version + 1 /\ worked' = Append(worked, c)
      <4>1. worked' \in Seq(1..MaxCodes) BY <3>1, <3>3 DEF TypeOK
      <4> QED BY <2>1, <3>3, <4>1 DEF Passwords
    <3> QED BY <2>2, <3>2, <3>3
  <2>4. codes' \in Seq(Code)
    <3>1. CASE UNCHANGED codes BY <3>1 DEF TypeOK
    <3>2. ASSUME c # 0, NEW e \in Code, codes' = [codes EXCEPT ![c] = e]
          PROVE  codes' \in Seq(Code)
      BY <2>1, <3>2 DEF TypeOK
    <3>3. CASE c # 0 /\ codes' = [codes EXCEPT ![c].used = TRUE]
      <4>1. [codes[c] EXCEPT !.used = TRUE] \in Code BY <2>1, <3>3 DEF Code
      <4> QED BY <3>2, <3>3, <4>1
    <3>4. CASE c # 0 /\ codes[c].fails < MAX_ATTEMPTS /\ codes' = [codes EXCEPT ![c].fails = @ + 1]
      <4>1. codes[c].fails + 1 \in 0..MAX_ATTEMPTS
        BY <2>1, <3>4, SessionsAssumption DEF Code
      <4>2. [codes[c] EXCEPT !.fails = codes[c].fails + 1] \in Code
        BY <2>1, <3>4, <4>1 DEF Code
      <4> QED BY <3>2, <3>4, <4>2
    <3> QED BY <2>2, <3>1, <3>3, <3>4
  <2>5. tried' \in Seq(Nat)
    <3>1. DOMAIN tried = DOMAIN codes BY DEF CodesInv, TypeOK
    <3>2. CASE UNCHANGED tried BY <3>2 DEF TypeOK
    <3>3. CASE c # 0 /\ tried' = [tried EXCEPT ![c] = @ + 1]
      <4>1. c \in DOMAIN tried BY <2>1, <3>1, <3>3
      <4>2. tried[c] + 1 \in Nat BY <4>1 DEF TypeOK
      <4>3. tried' = [tried EXCEPT ![c] = tried[c] + 1] BY <3>3
      <4> HIDE <3>3
      <4> QED BY <4>1, <4>2, <4>3 DEF TypeOK
    <3> QED BY <2>2, <3>2, <3>3
  <2>6. request' \in [Requests -> Request] /\ codeLock' \in Requests \cup {None}
    BY <1>5, IdleType DEF Consume, TypeOK
  <2> QED BY <1>5, <2>3, <2>4, <2>5, <2>6 DEF Consume, TypeOK, live
<1>6. ASSUME NEW i \in DOMAIN tokens, Logout(i)
      PROVE  TypeOK'
  BY <1>6 DEF Logout, TypeOK, resets, live
<1>7. CASE RequestCode
  <2>1. \A i \in DOMAIN codes : [codes[i] EXCEPT !.used = TRUE] \in Code
    <3>1. \A i \in DOMAIN codes : codes[i] \in Code BY DEF TypeOK
    <3> QED BY <3>1 DEF Code
  <2>2. [i \in DOMAIN codes |-> [codes[i] EXCEPT !.used = TRUE]] \in Seq(Code)
    BY <2>1 DEF TypeOK
  <2>3. NewCode \in Code
    BY SessionsAssumption DEF NewCode, Code
  <2>4. codes' \in Seq(Code) /\ tried' \in Seq(Nat)
    BY <1>7, <2>2, <2>3 DEF RequestCode, TypeOK
  <2> QED BY <1>7, <2>4 DEF RequestCode, TypeOK, account, live
<1>8. ASSUME NEW i \in DOMAIN codes, ExpireCode(i)
      PROVE  TypeOK'
  <2>1. [codes[i] EXCEPT !.expired = TRUE] \in Code
    <3>1. codes[i] \in Code BY DEF TypeOK
    <3> QED BY <3>1 DEF Code
  <2>2. codes' \in Seq(Code)
    BY <1>8, <2>1 DEF ExpireCode, TypeOK
  <2> QED BY <1>8, <2>2 DEF ExpireCode, TypeOK, account, live
<1>9. CASE Suspend \/ Disconnect
  <2>1. /\ status' \in Status /\ version' \in Nat /\ closing' \in BOOLEAN
        /\ suspensions' \in 0..MaxSuspensions
    <3>1. CASE Suspend
      BY <3>1, SessionsAssumption DEF Suspend, TypeOK
    <3>2. CASE Disconnect
      BY <3>2 DEF Disconnect, TypeOK, account
    <3> QED BY <1>9, <3>1, <3>2
  <2>2. socket' \in [Sockets -> Socket]
    <3>1. \A s \in Sockets : socket[s] \in Socket BY DEF TypeOK
    <3> QED BY <1>9, <3>1 DEF Suspend, Disconnect
  <2> QED BY <1>9, <2>1, <2>2 DEF Suspend, Disconnect, TypeOK, account, resets
<1>10. CASE Unsuspend \/ GoOnline
  BY <1>10 DEF Unsuspend, GoOnline, TypeOK, resets, live
<1>11. ASSUME NEW s \in Sockets, Connect(s) \/ CheckOperational(s) \/ Join(s) \/ CloseSocket(s)
       PROVE  TypeOK'
  <2>1. PICK to \in Socket : socket' = [socket EXCEPT ![s] = to]
    BY <1>11 DEF Connect, CheckOperational, Join, CloseSocket, Move
  <2>2. socket' \in [Sockets -> Socket]
    BY <2>1 DEF TypeOK
  <2>3. UNCHANGED <<account, resets, tokens, revoked, request, closing, suspensions>>
    BY <1>11 DEF Connect, CheckOperational, Join, CloseSocket, Move
  <2> QED BY <2>2, <2>3 DEF TypeOK, account, resets
<1>12. CASE Restart
  <2>1. request' \in [Requests -> Request] /\ socket' \in [Sockets -> Socket]
    BY <1>12, IdleType DEF Restart
  <2> QED BY <1>12, <2>1 DEF Restart, TypeOK, account
<1> QED BY <1>1, <1>2, <1>3, <1>4, <1>5, <1>6, <1>7, <1>8, <1>9, <1>10, <1>11, <1>12 DEF Next

-----------------------------------------------------------------------------
(* The inductive invariant of the sessions.                                *)
THEOREM SessionsInvariance == Spec => []IInv
<1>1. IInv /\ UNCHANGED vars => IInv'
  BY DEF IInv, TypeOK, TokensFresh, LoginsFresh, FreshSign, SocketsShut, CodesInv, Held, vars, account
<1>2. IInv /\ [Next]_vars => IInv'
  BY <1>1, TypeStep, TokenStep, SocketStep, CodeStep DEF IInv
<1> QED BY Initially, <1>2, PTL DEF Spec

(* A token that is still accepted was obtained with the current password   *)
(* and since the last suspension.                                          *)
THEOREM OldSessionsEnd == Spec => []SessionsEndWithPassword
<1>1. IInv => SessionsEndWithPassword
  BY DEF IInv, TokensFresh, FreshSign, SessionsEndWithPassword, Accepted
<1> QED BY <1>1, SessionsInvariance, PTL

(* No code works twice or after a newer one, and none is guessed at beyond *)
(* the limit.                                                              *)
THEOREM CodesWorkOnce == Spec => []CodeWorksOnce
<1>1. IInv => CodeWorksOnce
  <2> SUFFICES ASSUME IInv PROVE CodeWorksOnce
    OBVIOUS
  <2>1. ASSUME NEW c \in DOMAIN tried PROVE tried[c] <= MAX_ATTEMPTS
    <3>1. c \in DOMAIN codes /\ codes[c] \in Code
      BY DEF IInv, CodesInv, TypeOK
    <3> QED BY <3>1, SessionsAssumption DEF IInv, CodesInv, Code
  <2> QED BY <2>1 DEF IInv, CodesInv, CodeWorksOnce
<1> QED BY <1>1, SessionsInvariance, PTL

(* Once a suspension has closed his sockets the driver hears of no calls.  *)
THEOREM SuspendedIsCutOff == Spec => []SuspendedHearsNothing
<1>1. IInv => SuspendedHearsNothing
  BY DEF IInv, SocketsShut, SuspendedHearsNothing
<1> QED BY <1>1, SessionsInvariance, PTL

-----------------------------------------------------------------------------
(* Social sign-ins.                                                        *)

(* A sign-in at the link has an account to link; one at its end found or   *)
(* wrote the link.                                                         *)
SignInInv(l) ==
  /\ login[l].pc = "link" => login[l].user \in DOMAIN customers
  /\ login[l].pc = "enter" => /\ login[l].id \in DOMAIN links
                              /\ links[login[l].id] = login[l].user

(* A placeholder's account is linked, being linked, or was left so.        *)
PlaceholderInv(i) ==
  Social!WithEmail(Social!Placeholder(i)) # {} =>
    \/ i \in DOMAIN links \/ i \in cut
    \/ \E l \in Logins : login[l].pc = "link" /\ login[l].id = i

SocialInv ==
  /\ Social!TypeOK
  /\ \A l \in Logins : SignInInv(l)
  /\ \A s \in sessions : s[1] \in DOMAIN links /\ links[s[1]] = s[2]
  /\ \A i \in Social!Identities : PlaceholderInv(i)

(* Accounts and links are only added, and cut only grows.                  *)
AccountsGrow ==
  /\ customers' \in Seq(Social!User) /\ Len(customers') <= MaxCustomers
  /\ Len(customers) <= Len(customers')
  /\ DOMAIN links \subseteq DOMAIN links' /\ DOMAIN links' \subseteq Social!Identities
  /\ \A i \in DOMAIN links : links'[i] = links[i]
  /\ cut \subseteq cut' /\ cut' \subseteq Social!Identities

(* One sign-in moves on.                                                   *)
SignsIn(l, s) ==
  /\ login' \in [Logins -> Social!Login] /\ login'[l] = s
  /\ \A m \in Logins \ {l} : login'[m] = login[m]

(* The types of the rows and of a sign-in.                                 *)
LEMMA SocialTypes ==
  ASSUME SocialInv
  PROVE  /\ customers \in Seq(Social!User) /\ Len(customers) \in Nat
         /\ Len(customers) <= MaxCustomers /\ DOMAIN customers = 1..Len(customers)
         /\ login \in [Logins -> Social!Login]
         /\ \A i \in DOMAIN links : links[i] \in DOMAIN customers
         /\ DOMAIN links \subseteq Social!Identities /\ cut \subseteq Social!Identities
  BY LenProperties DEF SocialInv, Social!TypeOK

(* A step's login record, and the moves the handlers make.                 *)
LEMMA GotoIs ==
  ASSUME SocialInv, NEW l \in Logins, NEW u \in 0..MaxCustomers,
         NEW pc \in {"idle", "link?", "email?", "create", "link", "enter"},
         Social!Goto(l, pc, u)
  PROVE  \E s \in Social!Login : /\ SignsIn(l, s) /\ s.pc = pc /\ s.user = u
                                 /\ s.id = login[l].id /\ s.email = login[l].email
<1> DEFINE s == [login[l] EXCEPT !.pc = pc, !.user = u]
<1>1. login[l] \in Social!Login
  BY SocialTypes
<1>2. s \in Social!Login /\ s.pc = pc /\ s.user = u
      /\ s.id = login[l].id /\ s.email = login[l].email
  BY <1>1 DEF Social!Login
<1>3. login' = [login EXCEPT ![l] = s]
  BY SocialTypes DEF Social!Goto
<1> HIDE DEF s
<1>4. SignsIn(l, s)
  BY <1>2, <1>3, SocialTypes DEF SignsIn
<1> QED BY <1>2, <1>4

(* A sign-in that ends.                                                    *)
LEMMA QuitIs ==
  ASSUME SocialInv, NEW l \in Logins, Social!Quit(l)
  PROVE  SignsIn(l, Social!Idle) /\ Social!Idle.pc = "idle"
<1>1. Social!AnyIdentity \in Social!Identities
  BY SocialAssumption DEF Social!AnyIdentity, Social!Identities
<1>2. Social!Idle \in Social!Login /\ Social!Idle.pc = "idle"
  BY <1>1, SocialAssumption DEF Social!Idle, Social!Login
<1> QED BY <1>2, SocialTypes DEF Social!Quit, SignsIn

(* What every step of a sign-in shows of its rows: the rest follows.       *)
LEMMA SocialOnce ==
  ASSUME SocialInv, AccountsGrow, NEW l \in Logins, NEW s, SignsIn(l, s),
         s.pc = "link" => s.user \in 1..Len(customers'),
         s.pc = "enter" => s.id \in DOMAIN links' /\ links'[s.id] = s.user,
         \A i \in DOMAIN links' \ DOMAIN links : links'[i] \in 1..Len(customers'),
         sessions' \subseteq Social!Identities \X (1..Len(customers')),
         \A x \in sessions' \ sessions : x[1] \in DOMAIN links' /\ links'[x[1]] = x[2],
         \A i \in Social!Identities : PlaceholderInv(i)'
  PROVE  SocialInv'
<1>1. DOMAIN customers' = 1..Len(customers') /\ Len(customers') \in Nat
  BY LenProperties DEF AccountsGrow
<1>2. \A i \in DOMAIN links : links[i] \in 1..Len(customers')
  BY <1>1, SocialTypes DEF AccountsGrow
<1>3. Social!TypeOK'
  BY <1>1, <1>2 DEF Social!TypeOK, AccountsGrow, SignsIn
<1>4. \A m \in Logins : SignInInv(m)'
  <2> TAKE m \in Logins
  <2>1. CASE m = l
    BY <1>1, <2>1 DEF SignInInv, SignsIn
  <2>2. CASE m # l
    BY <1>1, <2>2, SocialTypes DEF SignInInv, SignsIn, SocialInv, AccountsGrow
  <2> QED BY <2>1, <2>2
<1>5. \A x \in sessions' : x[1] \in DOMAIN links' /\ links'[x[1]] = x[2]
  BY DEF SocialInv, AccountsGrow
<1> QED BY <1>3, <1>4, <1>5 DEF SocialInv

(* A sign-in that is not at the link, or leaves it with its identity       *)
(* linked or cut, leaves no placeholder behind.                            *)
LEMMA PlaceholdersStand ==
  ASSUME SocialInv, AccountsGrow, NEW l \in Logins, NEW s, SignsIn(l, s),
         customers' = customers,
         login[l].pc = "link" => login[l].id \in DOMAIN links' \cup cut'
  PROVE  \A i \in Social!Identities : PlaceholderInv(i)'
<1> TAKE i \in Social!Identities
<1> SUFFICES ASSUME Social!WithEmail(Social!Placeholder(i))' # {},
                    i \notin DOMAIN links', i \notin cut'
             PROVE  \E m \in Logins : login'[m].pc = "link" /\ login'[m].id = i
  BY DEF PlaceholderInv
<1>1. Social!WithEmail(Social!Placeholder(i)) # {}
  BY DEF Social!WithEmail, Social!Placeholder
<1>2. PICK m \in Logins : login[m].pc = "link" /\ login[m].id = i
  BY <1>1 DEF SocialInv, PlaceholderInv, AccountsGrow
<1>3. m # l
  BY <1>2
<1> QED BY <1>2, <1>3 DEF SignsIn

(* The provider answered; the link and the account are searched.           *)
LEMMA SignInSearches ==
  ASSUME SocialInv, NEW l \in Logins,
         \/ \E p \in Social!Profiles : Social!Start(l, p)
         \/ Social!FindLink(l) \/ Social!FindEmail(l)
  PROVE  SocialInv'
<1>1. /\ UNCHANGED <<customers, links, sessions, cut>>
      /\ login[l].pc \in {"idle", "link?", "email?"}
  BY DEF Social!Start, Social!FindLink, Social!FindEmail
<1>2. AccountsGrow
  BY <1>1, SocialTypes DEF AccountsGrow
<1>3. /\ sessions' \subseteq Social!Identities \X (1..Len(customers'))
      /\ sessions' = sessions
  BY <1>1, SocialTypes DEF SocialInv, Social!TypeOK
<1>4. \E s \in Social!Login :
        /\ SignsIn(l, s)
        /\ s.pc = "link" => s.user \in 1..Len(customers)
        /\ s.pc = "enter" => s.id \in DOMAIN links /\ links[s.id] = s.user
  <2>1. CASE \E p \in Social!Profiles : Social!Start(l, p)
    <3>1. PICK p \in Social!Profiles : Social!Start(l, p)
      BY <2>1
    <3> DEFINE s == [pc |-> "link?", id |-> p.id, email |-> p.email, user |-> 0]
    <3>2. s \in Social!Login /\ s.pc = "link?"
      BY SocialAssumption DEF Social!Login, Social!Profiles, Social!GoogleProfiles,
         Social!OtherProfiles, Social!Identities
    <3>3. login' = [login EXCEPT ![l] = s]
      BY <3>1 DEF Social!Start
    <3> HIDE DEF s
    <3>4. SignsIn(l, s)
      BY <3>2, <3>3, SocialTypes DEF SignsIn
    <3> QED BY <3>2, <3>4
  <2>2. CASE Social!FindLink(l)
    <3>1. CASE login[l].id \in DOMAIN links /\ Social!Goto(l, "enter", links[login[l].id])
      <4>1. links[login[l].id] \in 0..MaxCustomers
        BY <3>1, SocialTypes, SocialAssumption
      <4> QED BY <3>1, <4>1, GotoIs
    <3>2. CASE Social!Quit(l)
      BY <3>2, QuitIs DEF SignsIn
    <3>3. CASE Social!Goto(l, IF login[l].email = None THEN "create" ELSE "email?", 0)
      <4>1. 0 \in 0..MaxCustomers
        BY SocialAssumption
      <4> DEFINE next == IF login[l].email = None THEN "create" ELSE "email?"
      <4>2. next \in {"create", "email?"}
        OBVIOUS
      <4>3. Social!Goto(l, next, 0)
        BY <3>3
      <4> HIDE DEF next
      <4> QED BY <4>1, <4>2, <4>3, GotoIs
    <3> QED BY <2>2, <3>1, <3>2, <3>3 DEF Social!FindLink
  <2>3. CASE Social!FindEmail(l)
    <3>1. CASE Social!Goto(l, "create", 0)
      <4>1. 0 \in 0..MaxCustomers
        BY SocialAssumption
      <4> QED BY <3>1, <4>1, GotoIs
    <3>2. CASE \E u \in Social!WithEmail(login[l].email) : Social!Goto(l, "link", u)
      <4>1. PICK u \in Social!WithEmail(login[l].email) : Social!Goto(l, "link", u)
        BY <3>2
      <4>2. u \in 1..Len(customers) /\ u \in 0..MaxCustomers
        BY SocialTypes, SocialAssumption DEF Social!WithEmail
      <4> QED BY <4>1, <4>2, GotoIs
    <3>3. CASE Social!Quit(l)
      BY <3>3, QuitIs DEF SignsIn
    <3> QED BY <2>3, <3>1, <3>2, <3>3 DEF Social!FindEmail
  <2> QED BY <2>1, <2>2, <2>3
<1>5. PICK s \in Social!Login :
        /\ SignsIn(l, s)
        /\ s.pc = "link" => s.user \in 1..Len(customers)
        /\ s.pc = "enter" => s.id \in DOMAIN links /\ links[s.id] = s.user
  BY <1>4
<1>6. \A i \in Social!Identities : PlaceholderInv(i)'
  BY <1>1, <1>2, <1>5, PlaceholdersStand
<1> QED BY <1>1, <1>2, <1>3, <1>5, <1>6, SocialOnce

(* A user is appended; nobody else has his e-mail.                         *)
LEMMA UserAdded ==
  ASSUME SocialInv, Len(customers) < MaxCustomers, NEW u \in Social!User,
         customers' = Append(customers, u)
  PROVE  /\ customers' \in Seq(Social!User) /\ Len(customers') = Len(customers) + 1
         /\ Len(customers') <= MaxCustomers
         /\ \A e : Social!WithEmail(e)' # {} => e = u.email \/ Social!WithEmail(e) # {}
<1>1. /\ customers' \in Seq(Social!User) /\ Len(customers') = Len(customers) + 1
      /\ \A i \in 1..Len(customers) : customers'[i] = customers[i]
      /\ customers'[Len(customers) + 1] = u
  BY SocialTypes, AppendProperties
<1>2. DOMAIN customers' = 1..(Len(customers) + 1)
  BY <1>1, LenProperties
<1>3. ASSUME NEW e, NEW i \in Social!WithEmail(e)'
      PROVE  e = u.email \/ Social!WithEmail(e) # {}
  <2>1. i \in 1..(Len(customers) + 1) /\ customers'[i].email = e
    BY <1>2, <1>3 DEF Social!WithEmail
  <2>2. CASE i = Len(customers) + 1
    BY <1>1, <2>1, <2>2
  <2>3. CASE i \in 1..Len(customers)
    BY <1>1, <2>1, <2>3, SocialTypes DEF Social!WithEmail
  <2> QED BY <2>1, <2>2, <2>3, SocialTypes
<1> QED BY <1>1, <1>3, SocialTypes, SocialAssumption

(* The account of a sign-in: its placeholder's sign-in goes to the link.   *)
LEMMA CreateUserStep ==
  ASSUME SocialInv, NEW l \in Logins, Social!CreateUser(l)
  PROVE  SocialInv'
<1>1. /\ UNCHANGED <<links, sessions, cut>> /\ login[l].pc = "create"
      /\ login[l] \in Social!Login
  BY SocialTypes DEF Social!CreateUser
<1>2. CASE Social!Quit(l) /\ UNCHANGED customers
  <2>1. AccountsGrow
    BY <1>1, <1>2, SocialTypes DEF AccountsGrow
  <2>2. SignsIn(l, Social!Idle) /\ Social!Idle.pc = "idle"
    BY <1>2, QuitIs
  <2>3. sessions' \subseteq Social!Identities \X (1..Len(customers')) /\ sessions' = sessions
    BY <1>1, <1>2, SocialTypes DEF SocialInv, Social!TypeOK
  <2>4. \A i \in Social!Identities : PlaceholderInv(i)'
    BY <1>1, <1>2, <2>1, <2>2, PlaceholdersStand
  <2> QED BY <1>1, <2>1, <2>2, <2>3, <2>4, SocialOnce
<1>3. CASE /\ Len(customers) < MaxCustomers
           /\ customers' = Append(customers, [email |-> Social!AccountEmail(l), role |-> "CUSTOMER"])
           /\ Social!Goto(l, "link", Len(customers'))
  <2> DEFINE u == [email |-> Social!AccountEmail(l), role |-> "CUSTOMER"]
  <2>1. u \in Social!User /\ u.email = Social!AccountEmail(l)
    BY <1>1 DEF Social!User, Social!AccountEmail, Social!Login
  <2>2. customers' = Append(customers, u)
    BY <1>3
  <2> HIDE DEF u
  <2>3. /\ customers' \in Seq(Social!User) /\ Len(customers') = Len(customers) + 1
        /\ Len(customers') <= MaxCustomers
        /\ \A e : Social!WithEmail(e)' # {} => e = u.email \/ Social!WithEmail(e) # {}
    BY <1>3, <2>1, <2>2, UserAdded
  <2>4. Len(customers') \in 1..MaxCustomers /\ Len(customers') \in 0..MaxCustomers
    BY <2>3, SocialTypes, SocialAssumption
  <2>5. PICK s \in Social!Login : /\ SignsIn(l, s) /\ s.pc = "link" /\ s.user = Len(customers')
                                  /\ s.id = login[l].id
    BY <1>3, <2>4, GotoIs
  <2>6. AccountsGrow
    BY <1>1, <2>3, SocialTypes DEF AccountsGrow
  <2>7. sessions' \subseteq Social!Identities \X (1..Len(customers')) /\ sessions' = sessions
    BY <1>1, <2>3, SocialTypes DEF SocialInv, Social!TypeOK
  <2>8. ASSUME NEW i \in Social!Identities, Social!WithEmail(Social!Placeholder(i))' # {},
               i \notin DOMAIN links', i \notin cut'
        PROVE  \E m \in Logins : login'[m].pc = "link" /\ login'[m].id = i
    <3>1. CASE Social!Placeholder(i) = u.email
      <4>1. login[l].email = None /\ Social!Placeholder(login[l].id) = Social!Placeholder(i)
        BY <1>1, <2>1, <3>1, SocialAssumption
           DEF Social!AccountEmail, Social!Login, Social!Identities
      <4>2. login[l].id = i
        BY <4>1 DEF Social!Placeholder
      <4> QED BY <2>5, <4>2 DEF SignsIn
    <3>2. CASE Social!WithEmail(Social!Placeholder(i)) # {}
      <4>1. PICK m \in Logins : login[m].pc = "link" /\ login[m].id = i
        BY <1>1, <2>8, <3>2 DEF SocialInv, PlaceholderInv
      <4>2. m # l
        BY <1>1, <4>1
      <4> QED BY <2>5, <4>1, <4>2 DEF SignsIn
    <3>3. ASSUME NEW e, e = Social!Placeholder(i)
          PROVE  Social!WithEmail(e)' # {}
      BY <2>8, <3>3 DEF Social!Placeholder, Social!WithEmail
    <3> QED BY <2>3, <3>1, <3>2, <3>3
  <2>9. \A i \in Social!Identities : PlaceholderInv(i)'
    BY <2>8 DEF PlaceholderInv
  <2>10. s.user \in 1..Len(customers')
    BY <2>4, <2>5
  <2> QED BY <1>1, <2>5, <2>6, <2>7, <2>9, <2>10, SocialOnce
<1> QED BY <1>2, <1>3 DEF Social!CreateUser

(* The link is written once.                                               *)
LEMMA CreateLinkStep ==
  ASSUME SocialInv, NEW l \in Logins, Social!CreateLink(l)
  PROVE  SocialInv'
<1>1. /\ UNCHANGED <<customers, sessions, cut>> /\ login[l].pc = "link"
      /\ login[l] \in Social!Login /\ login[l].user \in 1..Len(customers)
  BY SocialTypes DEF Social!CreateLink, SocialInv, SignInInv
<1>2. sessions' \subseteq Social!Identities \X (1..Len(customers')) /\ sessions' = sessions
  BY <1>1, SocialTypes DEF SocialInv, Social!TypeOK
<1>3. CASE login[l].id \in DOMAIN links /\ Social!Quit(l) /\ UNCHANGED links
  <2>1. AccountsGrow
    BY <1>1, <1>3, SocialTypes DEF AccountsGrow
  <2>2. SignsIn(l, Social!Idle) /\ Social!Idle.pc = "idle"
    BY <1>3, QuitIs
  <2>3. \A i \in Social!Identities : PlaceholderInv(i)'
    BY <1>1, <1>3, <2>1, <2>2, PlaceholdersStand
  <2> QED BY <1>1, <1>2, <1>3, <2>1, <2>2, <2>3, SocialOnce
<1>4. CASE /\ login[l].id \notin DOMAIN links
           /\ links' = [i \in DOMAIN links \cup {login[l].id} |->
                          IF i \in DOMAIN links THEN links[i] ELSE login[l].user]
           /\ Social!Goto(l, "enter", login[l].user)
  <2>1. /\ DOMAIN links' = DOMAIN links \cup {login[l].id}
        /\ \A i \in DOMAIN links : links'[i] = links[i]
        /\ links'[login[l].id] = login[l].user /\ login[l].id \in Social!Identities
    BY <1>1, <1>4 DEF Social!Login
  <2>2. AccountsGrow
    BY <1>1, <2>1, SocialTypes DEF AccountsGrow
  <2>3. login[l].user \in 0..MaxCustomers
    BY <1>1 DEF Social!Login
  <2>4. PICK s \in Social!Login : /\ SignsIn(l, s) /\ s.pc = "enter" /\ s.user = login[l].user
                                  /\ s.id = login[l].id
    BY <1>4, <2>3, GotoIs
  <2>5. \A i \in Social!Identities : PlaceholderInv(i)'
    BY <1>1, <2>1, <2>2, <2>4, PlaceholdersStand
  <2> QED BY <1>1, <1>2, <2>1, <2>2, <2>4, <2>5, SocialOnce
<1> QED BY <1>3, <1>4 DEF Social!CreateLink

(* A session of the account the link names; a query that fails.            *)
LEMMA EnterOrFailStep ==
  ASSUME SocialInv, NEW l \in Logins, Social!Enter(l) \/ Social!Fail(l)
  PROVE  SocialInv'
<1>1. /\ UNCHANGED <<customers, links>> /\ Social!Quit(l) /\ login[l] \in Social!Login
  BY SocialTypes DEF Social!Enter, Social!Fail
<1>2. SignsIn(l, Social!Idle) /\ Social!Idle.pc = "idle"
  BY <1>1, QuitIs
<1>3. cut \subseteq cut' /\ cut' \subseteq Social!Identities
      /\ (login[l].pc = "link" => login[l].id \in cut')
  BY <1>1, SocialTypes DEF Social!Enter, Social!Fail, Social!Login
<1>4. AccountsGrow
  BY <1>1, <1>3, SocialTypes DEF AccountsGrow
<1>5. sessions \subseteq Social!Identities \X (1..Len(customers'))
  BY <1>1, SocialTypes DEF SocialInv, Social!TypeOK
<1>6. \A x \in sessions' \ sessions :
        /\ x \in Social!Identities \X (1..Len(customers'))
        /\ x[1] \in DOMAIN links' /\ links'[x[1]] = x[2]
  <2>1. CASE Social!Enter(l)
    <3>1. login[l].id \in DOMAIN links /\ links[login[l].id] = login[l].user
      BY <2>1 DEF Social!Enter, SocialInv, SignInInv
    <3>2. login[l].user \in 1..Len(customers)
      BY <3>1, SocialTypes
    <3>3. \A x \in sessions' \ sessions : x = <<login[l].id, login[l].user>>
      BY <2>1 DEF Social!Enter
    <3> QED BY <1>1, <3>1, <3>2, <3>3 DEF Social!Login
  <2>2. CASE Social!Fail(l)
    BY <2>2 DEF Social!Fail
  <2> QED BY <2>1, <2>2
<1>7. sessions' \subseteq Social!Identities \X (1..Len(customers'))
  BY <1>5, <1>6
<1>8. \A i \in Social!Identities : PlaceholderInv(i)'
  BY <1>1, <1>2, <1>3, <1>4, PlaceholdersStand
<1> QED BY <1>1, <1>2, <1>4, <1>6, <1>7, <1>8, SocialOnce

(* A registration, which has an e-mail of its own; steps of other parts.   *)
LEMMA RegistrationStep ==
  ASSUME SocialInv,
         \/ \E e \in Mailboxes, role \in {"CUSTOMER", "DRIVER"} : Social!Register(e, role)
         \/ UNCHANGED socialVars
  PROVE  SocialInv'
<1>1. CASE UNCHANGED socialVars
  BY <1>1 DEF SocialInv, Social!TypeOK, SignInInv, PlaceholderInv, Social!WithEmail, socialVars,
     Social!Placeholder
<1>2. ASSUME NEW e \in Mailboxes, NEW role \in {"CUSTOMER", "DRIVER"}, Social!Register(e, role)
      PROVE  SocialInv'
  <2> DEFINE u == [email |-> e, role |-> role]
  <2>1. u \in Social!User /\ u.email = e
    BY DEF Social!User
  <2>2. customers' = Append(customers, u) /\ UNCHANGED <<links, login, sessions, cut>>
        /\ Len(customers) < MaxCustomers
    BY <1>2 DEF Social!Register
  <2> HIDE DEF u
  <2>3. /\ customers' \in Seq(Social!User) /\ Len(customers') = Len(customers) + 1
        /\ Len(customers') <= MaxCustomers
        /\ \A x : Social!WithEmail(x)' # {} => x = u.email \/ Social!WithEmail(x) # {}
    BY <2>1, <2>2, UserAdded
  <2>4. /\ DOMAIN customers' = 1..Len(customers')
        /\ DOMAIN customers \subseteq DOMAIN customers'
    BY <2>3, SocialTypes, LenProperties
  <2>5. Social!TypeOK'
    BY <2>2, <2>3, <2>4 DEF SocialInv, Social!TypeOK
  <2>6. \A i \in Social!Identities : PlaceholderInv(i)'
    BY <2>1, <2>2, <2>3, SocialAssumption
       DEF PlaceholderInv, SocialInv, Social!Placeholder, Social!Identities
  <2>7. \A l \in Logins : SignInInv(l)'
    BY <2>2, <2>4 DEF SocialInv, SignInInv
  <2> QED BY <2>2, <2>5, <2>6, <2>7 DEF SocialInv
<1> QED BY <1>1, <1>2

(* Every step keeps the invariant.                                         *)
LEMMA SocialKeeps ==
  ASSUME SocialInv, Social!Next
  PROVE  SocialInv'
BY SignInSearches, CreateUserStep, CreateLinkStep, EnterOrFailStep, RegistrationStep
   DEF Social!Next

(* The inductive invariant of the social sign-ins.                         *)
THEOREM SocialInvariance == AccountsSpec => []SocialInv
<1>1. AccountsInit => SocialInv
  <2> SUFFICES ASSUME Social!Init PROVE SocialInv
    BY DEF AccountsInit
  <2>1. customers = <<>> /\ login = [l \in Logins |-> Social!Idle] /\ DOMAIN links = {}
        /\ sessions = {} /\ cut = {}
    BY DEF Social!Init
  <2>2. Social!AnyIdentity \in Social!Identities
    BY SocialAssumption DEF Social!AnyIdentity, Social!Identities
  <2>3. Social!Idle \in Social!Login /\ Social!Idle.pc = "idle"
    BY <2>2, SocialAssumption DEF Social!Idle, Social!Login
  <2>4. customers \in Seq(Social!User) /\ Len(customers) = 0 /\ DOMAIN customers = {}
    BY <2>1, EmptySeq
  <2>5. Social!TypeOK
    BY <2>1, <2>3, <2>4, SocialAssumption DEF Social!TypeOK
  <2>6. \A e : Social!WithEmail(e) = {}
    BY <2>4 DEF Social!WithEmail
  <2> QED BY <2>1, <2>3, <2>5, <2>6 DEF SocialInv, SignInInv, PlaceholderInv
<1>2. [AccountsNext]_accountsVars => Social!Next \/ UNCHANGED socialVars
  BY DEF AccountsNext, SessionStep, ApplicationStep, SocialStep, LocationStep, SupportStep,
     accountsVars
<1>3. SocialInv /\ [AccountsNext]_accountsVars => SocialInv'
  BY <1>2, SocialKeeps, RegistrationStep
<1> QED BY <1>1, <1>3, PTL DEF AccountsSpec

(* However its sign-ins interleave, an identity only ever enters one       *)
(* account, and is kept out of it only if one of them failed between the   *)
(* account and the link.                                                   *)
THEOREM AnIdentityIsOneAccount == AccountsSpec => []IdentityIsOneAccount
<1>1. SocialInv => IdentityIsOneAccount
  BY DEF SocialInv, PlaceholderInv, IdentityIsOneAccount, Social!IdentityIsOneAccount
<1> QED BY <1>1, SocialInvariance, PTL

-----------------------------------------------------------------------------
(* Applications, and the drivers they become.                              *)

Transaction == [pc: {"idle", "submit", "approve", "searched", "checked"},
                row: Nat, form: Applications!Form]

(* A transaction that has searched users holds them, one that approves     *)
(* holds a pending row, and no pending row is like the form of one that    *)
(* is about to insert: nobody else inserts while it holds users.           *)
TransactionInv(t) ==
  /\ task[t].pc \in {"searched", "checked"} => usersLock = t
  /\ task[t].pc = "approve" =>
       task[t].row \in DOMAIN applications /\ applications[task[t].row].status = "PENDING"
  /\ task[t].pc = "checked" =>
       \A i \in DOMAIN applications : applications[i].status = "PENDING" =>
         /\ applications[i].email # Applications!Address(task[t].form)
         /\ applications[i].phone # task[t].form.phone
         /\ applications[i].plate # task[t].form.plate
  /\ task[t].row # 0 => \A u \in Tasks \ {t} : task[u].row # task[t].row

(* An application has an account exactly if it was approved.               *)
AccountInv(i) ==
  /\ applications[i].account # 0 <=> applications[i].status = "APPROVED"
  /\ applications[i].status = "APPROVED" =>
       /\ applications[i].account \in DOMAIN drivers
       /\ users[applications[i].account].email = applications[i].email
  /\ \A j \in DOMAIN applications : applications[i].status = "APPROVED" /\ i # j =>
       applications[i].account # applications[j].account

(* A driver's rows agree, and one vehicle is his primary.                  *)
DriverInv(u) ==
  /\ u \in DOMAIN users /\ drivers[u] \in Applications!Driver
  /\ users[u].role = "DRIVER" /\ users[u].phone = drivers[u].phone
  /\ \E v \in DOMAIN vehicles : /\ Applications!Primary(u) = {v}
                                /\ vehicles[v].type = drivers[u].type

(* A vehicle is a driver's; a primary one is approved and in use.          *)
VehicleInv(v) ==
  /\ vehicles[v].driver \in DOMAIN drivers
  /\ vehicles[v].primary => vehicles[v].active /\ vehicles[v].approval = "APPROVED"

ApplicationTypes ==
  /\ applications \in Seq(Applications!Application)
  /\ users \in Seq(Applications!User) /\ Len(users) <= MaxUsers
  /\ vehicles \in Seq(Applications!Vehicle)
  /\ usersLock \in Tasks \cup {None}
  /\ task \in [Tasks -> Transaction]

RowsInv ==
  /\ Applications!OnePendingEach
  /\ \A i \in DOMAIN applications : AccountInv(i)
  /\ \A u \in DOMAIN drivers : DriverInv(u)
  /\ \A v \in DOMAIN vehicles : VehicleInv(v)

ApplicationInv == ApplicationTypes /\ RowsInv /\ \A t \in Tasks : TransactionInv(t)

(* The rows by their numbers.                                              *)
LEMMA ApplicationRows ==
  ASSUME ApplicationInv
  PROVE  /\ DOMAIN applications = 1..Len(applications) /\ Len(applications) \in Nat
         /\ DOMAIN users = 1..Len(users) /\ Len(users) \in Nat
         /\ DOMAIN vehicles = 1..Len(vehicles) /\ Len(vehicles) \in Nat
         /\ \A i \in DOMAIN applications : applications[i] \in Applications!Application
         /\ \A u \in DOMAIN users : users[u] \in Applications!User
         /\ \A v \in DOMAIN vehicles : vehicles[v] \in Applications!Vehicle
BY LenProperties, ElementOfSeq DEF ApplicationInv, ApplicationTypes

(* A row added to a table, and one written over.                           *)
LEMMA RowAdded ==
  ASSUME NEW S, NEW q \in Seq(S), NEW e \in S, NEW r, r = Append(q, e)
  PROVE  /\ r \in Seq(S) /\ Len(r) = Len(q) + 1 /\ Len(q) \in Nat
         /\ DOMAIN q = 1..Len(q) /\ DOMAIN r = 1..(Len(q) + 1)
         /\ \A i \in DOMAIN q : r[i] = q[i]
         /\ r[Len(q) + 1] = e
<1>1. /\ r \in Seq(S) /\ Len(r) = Len(q) + 1 /\ r[Len(q) + 1] = e
      /\ \A i \in 1..Len(q) : r[i] = q[i]
  BY AppendProperties
<1> QED BY <1>1, LenProperties

(* A row of a table written over.                                          *)
LEMMA RowWrittenOver ==
  ASSUME NEW S, NEW q \in Seq(S), NEW k \in DOMAIN q, NEW e \in S, NEW r,
         r = [q EXCEPT ![k] = e]
  PROVE  /\ r \in Seq(S) /\ Len(r) = Len(q) /\ DOMAIN r = DOMAIN q /\ r[k] = e
         /\ \A i \in DOMAIN q \ {k} : r[i] = q[i]
<1>1. DOMAIN q = 1..Len(q)
  BY LenProperties
<1>2. /\ r \in Seq(S) /\ Len(r) = Len(q)
      /\ \A i \in 1..Len(q) : r[i] = IF i = k THEN e ELSE q[i]
  BY <1>1, ExceptSeq
<1> QED BY <1>1, <1>2, LenProperties

(* A transaction is a transaction.                                         *)
LEMMA IdleTransaction ==
  Applications!Idle \in Transaction /\ Applications!Idle.pc = "idle" /\ Applications!Idle.row = 0
  /\ Applications!Idle.form \in Applications!Form
<1>1. \E p \in Phones, x \in Plates, y \in Types : TRUE
  BY ApplicationAssumption
<1>2. \E f : f \in Applications!Form
  <2>1. PICK p \in Phones, x \in Plates, y \in Types : TRUE
    BY <1>1
  <2>2. [email |-> None, phone |-> p, plate |-> x, type |-> y] \in Applications!Form
    BY DEF Applications!Form
  <2> QED BY <2>2
<1>3. Applications!AnyForm \in Applications!Form
  BY <1>2 DEF Applications!AnyForm
<1> QED BY <1>3 DEF Applications!Idle, Transaction

(* The rows as they are leave the invariant of the rows.                   *)
LEMMA RowsStand ==
  ASSUME RowsInv, UNCHANGED Applications!tables
  PROVE  RowsInv'
BY DEF RowsInv, Applications!tables, Applications!OnePendingEach, Applications!WithStatus,
   AccountInv, DriverInv, VehicleInv, Applications!Primary, Applications!Driver

(* One transaction moves, perhaps taking or leaving users.                 *)
LEMMA TransactionMoves ==
  ASSUME ApplicationInv, UNCHANGED Applications!tables, NEW t \in Tasks, NEW s \in Transaction,
         task' = [task EXCEPT ![t] = s],
         \/ usersLock' = usersLock
         \/ usersLock = None /\ usersLock' = t
         \/ usersLock' = IF usersLock = t THEN None ELSE usersLock,
         s.pc \in {"searched", "checked"} => usersLock' = t,
         s.pc = "approve" =>
           s.row \in DOMAIN applications /\ applications[s.row].status = "PENDING",
         s.pc = "checked" =>
           \A i \in DOMAIN applications : applications[i].status = "PENDING" =>
             /\ applications[i].email # Applications!Address(s.form)
             /\ applications[i].phone # s.form.phone
             /\ applications[i].plate # s.form.plate,
         s.row # 0 => \A u \in Tasks \ {t} : task[u].row # s.row
  PROVE  ApplicationInv'
<1>1. UNCHANGED <<applications, users, drivers, vehicles>>
  BY DEF Applications!tables
<1>2. task' \in [Tasks -> Transaction] /\ task'[t] = s
      /\ \A u \in Tasks \ {t} : task'[u] = task[u]
  BY DEF ApplicationInv, ApplicationTypes
<1>3. ApplicationTypes'
  BY <1>1, <1>2 DEF ApplicationInv, ApplicationTypes
<1>4. RowsInv'
  BY RowsStand DEF ApplicationInv
<1>5. TransactionInv(t)'
  BY <1>1, <1>2 DEF TransactionInv, Applications!Address, Applications!LocalEmail
<1>6. ASSUME NEW u \in Tasks \ {t} PROVE TransactionInv(u)'
  <2>1. TransactionInv(u)
    BY DEF ApplicationInv
  <2>2. usersLock = u => usersLock' = u
    BY ApplicationAssumption
  <2>3. task'[u].row # 0 => \A w \in Tasks \ {u} : task'[w].row # task'[u].row
    BY <1>2, <2>1 DEF TransactionInv
  <2>4. task'[u] = task[u]
    BY <1>2
  <2> QED BY <1>1, <2>1, <2>2, <2>3, <2>4
             DEF TransactionInv, Applications!Address, Applications!LocalEmail
<1> QED BY <1>3, <1>4, <1>5, <1>6 DEF ApplicationInv

(* A transaction ends.                                                     *)
LEMMA TransactionEnds ==
  ASSUME ApplicationInv, UNCHANGED Applications!tables, NEW t \in Tasks, Applications!End(t)
  PROVE  ApplicationInv'
BY IdleTransaction, TransactionMoves DEF Applications!End

(* A form is submitted, the users and the pending applications searched.   *)
LEMMA SearchStep ==
  ASSUME ApplicationInv, NEW t \in Tasks,
         \/ \E f \in Applications!Form :
              \/ Applications!Submit(t, f)
              \/ \E i \in DOMAIN applications : Applications!Resubmit(t, f, i)
         \/ Applications!LockUsers(t) \/ Applications!Search(t)
         \/ \E i \in DOMAIN applications : Applications!Approve(t, i)
         \/ \E u \in Tasks : Applications!Deadlock(t, u)
  PROVE  ApplicationInv'
<1>0. task[t] \in Transaction /\ task \in [Tasks -> Transaction] /\ TransactionInv(t)
  BY DEF ApplicationInv, ApplicationTypes
<1>1. CASE \E f \in Applications!Form : Applications!Submit(t, f)
  <2>1. PICK f \in Applications!Form : Applications!Submit(t, f)
    BY <1>1
  <2> DEFINE s == [pc |-> "submit", row |-> 0, form |-> f]
  <2>2. s \in Transaction /\ s.pc = "submit" /\ s.row = 0
    BY DEF Transaction
  <2>3. task' = [task EXCEPT ![t] = s] /\ UNCHANGED Applications!tables /\ usersLock' = usersLock
    BY <2>1 DEF Applications!Submit
  <2> HIDE DEF s
  <2> QED BY <2>2, <2>3, TransactionMoves
<1>2. CASE \E f \in Applications!Form, i \in DOMAIN applications : Applications!Resubmit(t, f, i)
  <2>1. PICK f \in Applications!Form, i \in DOMAIN applications : Applications!Resubmit(t, f, i)
    BY <1>2
  <2> DEFINE s == [pc |-> "submit", row |-> i, form |-> f]
  <2>2. s \in Transaction /\ s.pc = "submit" /\ s.row = i
    BY ApplicationRows DEF Transaction
  <2>3. task' = [task EXCEPT ![t] = s] /\ UNCHANGED Applications!tables /\ usersLock' = usersLock
        /\ \A u \in Tasks \ {t} : task[u].row # i
    BY <2>1 DEF Applications!Resubmit, Applications!RowFree
  <2> HIDE DEF s
  <2> QED BY <2>2, <2>3, TransactionMoves
<1>3. CASE Applications!LockUsers(t)
  <2>1. CASE Applications!End(t)
    BY <1>3, <2>1, TransactionEnds DEF Applications!LockUsers
  <2>2. CASE task' = [task EXCEPT ![t].pc = "searched"] /\ usersLock' = t
    <3> DEFINE s == [task[t] EXCEPT !.pc = "searched"]
    <3>1. s \in Transaction /\ s.pc = "searched" /\ s.row = task[t].row
      BY <1>0 DEF Transaction
    <3>2. task' = [task EXCEPT ![t] = s] /\ UNCHANGED Applications!tables /\ usersLock = None
      BY <1>0, <1>3, <2>2 DEF Applications!LockUsers
    <3>3. task[t].row # 0 => \A u \in Tasks \ {t} : task[u].row # task[t].row
      BY <1>0 DEF TransactionInv
    <3>4. usersLock = None /\ usersLock' = t
      BY <2>2, <3>2
    <3> HIDE DEF s
    <3> QED BY <3>1, <3>2, <3>3, <3>4, TransactionMoves
  <2> QED BY <1>3, <2>1, <2>2 DEF Applications!LockUsers
<1>4. CASE Applications!Search(t)
  <2>1. CASE Applications!End(t)
    BY <1>4, <2>1, TransactionEnds DEF Applications!Search
  <2>2. CASE /\ Applications!CanSubmit(task[t].form)
             /\ task' = [task EXCEPT ![t].pc = "checked"] /\ usersLock' = usersLock
    <3> DEFINE s == [task[t] EXCEPT !.pc = "checked"]
    <3>1. s \in Transaction /\ s.pc = "checked" /\ s.row = task[t].row /\ s.form = task[t].form
      BY <1>0 DEF Transaction
    <3>2. task' = [task EXCEPT ![t] = s] /\ UNCHANGED Applications!tables /\ usersLock = t
      BY <1>0, <1>4, <2>2 DEF Applications!Search, TransactionInv
    <3>3. \A i \in DOMAIN applications : applications[i].status = "PENDING" =>
            /\ applications[i].email # Applications!Address(task[t].form)
            /\ applications[i].phone # task[t].form.phone
            /\ applications[i].plate # task[t].form.plate
      BY <2>2 DEF Applications!CanSubmit, Applications!Alike, Applications!WithStatus
    <3>4. task[t].row # 0 => \A u \in Tasks \ {t} : task[u].row # task[t].row
      BY <1>0 DEF TransactionInv
    <3>5. usersLock' = usersLock /\ usersLock' = t
      BY <2>2, <3>2
    <3> HIDE DEF s
    <3> QED BY <3>1, <3>2, <3>3, <3>4, <3>5, TransactionMoves
  <2> QED BY <1>4, <2>1, <2>2 DEF Applications!Search
<1>5. CASE \E i \in DOMAIN applications : Applications!Approve(t, i)
  <2>1. PICK i \in DOMAIN applications : Applications!Approve(t, i)
    BY <1>5
  <2> DEFINE s == [Applications!Idle EXCEPT !.pc = "approve", !.row = i]
  <2>2. i \in Nat
    BY ApplicationRows
  <2>3. s \in Transaction /\ s.pc = "approve" /\ s.row = i
    BY <2>2, IdleTransaction DEF Transaction
  <2>4. /\ task' = [task EXCEPT ![t] = s] /\ UNCHANGED Applications!tables
        /\ usersLock' = usersLock /\ applications[i].status = "PENDING"
        /\ \A u \in Tasks \ {t} : task[u].row # i
    BY <2>1 DEF Applications!Approve, Applications!RowFree, Applications!WithStatus
  <2> HIDE DEF s
  <2> QED BY <2>3, <2>4, TransactionMoves
<1>6. CASE \E u \in Tasks : Applications!Deadlock(t, u)
  BY <1>6, TransactionEnds DEF Applications!Deadlock
<1> QED BY <1>1, <1>2, <1>3, <1>4, <1>5, <1>6

(* A new application: who inserts holds users.                             *)
LEMMA InsertStep ==
  ASSUME ApplicationInv, NEW t \in Tasks, Applications!Insert(t)
  PROVE  ApplicationInv'
<1> DEFINE f == task[t].form
           e == [email |-> Applications!Address(f), phone |-> f.phone, plate |-> f.plate,
                 type |-> f.type, status |-> "PENDING", account |-> 0]
           n == Len(applications)
<1>1. f \in Applications!Form /\ task[t].pc = "checked" /\ usersLock = t /\ TransactionInv(t)
  BY DEF ApplicationInv, ApplicationTypes, Transaction, Applications!Insert, TransactionInv
<1>2. /\ e \in Applications!Application /\ e.status = "PENDING" /\ e.account = 0
      /\ e.email = Applications!Address(f) /\ e.phone = f.phone /\ e.plate = f.plate
  BY <1>1, ApplicationAssumption DEF Applications!Form, Applications!Application,
     Applications!Address, Applications!Addresses
<1>3. /\ applications' = Append(applications, e) /\ UNCHANGED <<users, drivers, vehicles>>
      /\ task' = [task EXCEPT ![t] = Applications!Idle] /\ usersLock' = None
  BY <1>1 DEF Applications!Insert, Applications!End
<1>4. \A i \in DOMAIN applications : applications[i].status = "PENDING" =>
        applications[i].email # e.email /\ applications[i].phone # e.phone
        /\ applications[i].plate # e.plate
  BY <1>1, <1>2 DEF TransactionInv
<1> HIDE DEF e
<1>5. /\ applications' \in Seq(Applications!Application) /\ n \in Nat
      /\ DOMAIN applications = 1..n /\ DOMAIN applications' = 1..(n + 1)
      /\ \A i \in DOMAIN applications : applications'[i] = applications[i]
      /\ applications'[n + 1] = e
  BY <1>2, <1>3, RowAdded DEF ApplicationInv, ApplicationTypes
<1>6. task' \in [Tasks -> Transaction] /\ task'[t] = Applications!Idle
      /\ \A u \in Tasks \ {t} : task'[u] = task[u]
  BY <1>3, IdleTransaction DEF ApplicationInv, ApplicationTypes
<1>7. ApplicationTypes'
  BY <1>3, <1>5, <1>6 DEF ApplicationInv, ApplicationTypes
<1> HIDE DEF n, f
<1>8. Applications!OnePendingEach'
  <2> SUFFICES ASSUME NEW i \in DOMAIN applications', NEW j \in DOMAIN applications', i # j,
                      applications'[i].status = "PENDING", applications'[j].status = "PENDING"
               PROVE  /\ applications'[i].email # applications'[j].email
                      /\ applications'[i].phone # applications'[j].phone
                      /\ applications'[i].plate # applications'[j].plate
    BY DEF Applications!OnePendingEach, Applications!WithStatus
  <2>1. CASE i \in DOMAIN applications /\ j \in DOMAIN applications
    BY <1>5, <2>1 DEF ApplicationInv, RowsInv, Applications!OnePendingEach, Applications!WithStatus
  <2>2. CASE i = n + 1 /\ j \in DOMAIN applications
    BY <1>4, <1>5, <2>2
  <2>3. CASE j = n + 1 /\ i \in DOMAIN applications
    BY <1>4, <1>5, <2>3
  <2> QED BY <1>5, <2>1, <2>2, <2>3
<1>9. ASSUME NEW i \in DOMAIN applications' PROVE AccountInv(i)'
  <2>1. CASE i = n + 1
    BY <1>2, <1>5, <2>1 DEF AccountInv
  <2>2. CASE i \in DOMAIN applications
    <3>1. AccountInv(i)
      BY <2>2 DEF ApplicationInv, RowsInv
    <3>2. \A j \in DOMAIN applications' : applications[i].status = "APPROVED" /\ i # j =>
            applications[i].account # applications'[j].account
      BY <1>2, <1>5, <3>1 DEF AccountInv
    <3> QED BY <1>3, <1>5, <2>2, <3>1, <3>2 DEF AccountInv
  <2> QED BY <1>5, <2>1, <2>2
<1>10. RowsInv'
  BY <1>3, <1>8, <1>9
     DEF ApplicationInv, RowsInv, DriverInv, VehicleInv, Applications!Primary, Applications!Driver
<1>11. TransactionInv(t)'
  BY <1>6, IdleTransaction DEF TransactionInv
<1>12. ASSUME NEW u \in Tasks \ {t} PROVE TransactionInv(u)'
  <2>1. TransactionInv(u) /\ task'[u] = task[u]
    BY <1>6 DEF ApplicationInv
  <2>2. task[u].pc \notin {"searched", "checked"}
    BY <1>1, <2>1 DEF TransactionInv
  <2>3. task[u].pc = "approve" => /\ task[u].row \in DOMAIN applications'
                                  /\ applications'[task[u].row].status = "PENDING"
    BY <1>5, <2>1 DEF TransactionInv
  <2>4. task[u].row # 0 => \A w \in Tasks \ {u} : task'[w].row # task[u].row
    BY <1>6, <2>1, IdleTransaction DEF TransactionInv
  <2> QED BY <2>1, <2>2, <2>3, <2>4 DEF TransactionInv
<1> QED BY <1>7, <1>10, <1>11, <1>12 DEF ApplicationInv

(* A pending application is reviewed: what the searches rely on stays.     *)
LEMMA Reviewed ==
  ASSUME ApplicationInv, NEW k \in DOMAIN applications, NEW e \in Applications!Application,
         applications[k].status = "PENDING", e.status # "PENDING",
         e.email = applications[k].email, e.phone = applications[k].phone,
         e.plate = applications[k].plate,
         applications' = [applications EXCEPT ![k] = e]
  PROVE  /\ applications' \in Seq(Applications!Application)
         /\ DOMAIN applications' = DOMAIN applications /\ applications'[k] = e
         /\ \A i \in DOMAIN applications \ {k} : applications'[i] = applications[i]
         /\ Applications!OnePendingEach'
         /\ \A t \in Tasks : task'[t] = task[t] /\ task[t].row # k
                             /\ (usersLock = t => usersLock' = t)
                             /\ (\A u \in Tasks \ {t} : task'[u].row # 0 => task'[u].row = task[u].row)
              => TransactionInv(t)'
<1>1. /\ applications' \in Seq(Applications!Application)
      /\ DOMAIN applications' = DOMAIN applications /\ applications'[k] = e
      /\ \A i \in DOMAIN applications \ {k} : applications'[i] = applications[i]
  BY RowWrittenOver DEF ApplicationInv, ApplicationTypes
<1>2. Applications!OnePendingEach'
  BY <1>1 DEF ApplicationInv, RowsInv, Applications!OnePendingEach, Applications!WithStatus
<1>3. ASSUME NEW t \in Tasks, task'[t] = task[t], task[t].row # k, usersLock = t => usersLock' = t,
             \A u \in Tasks \ {t} : task'[u].row # 0 => task'[u].row = task[u].row
      PROVE  TransactionInv(t)'
  <2>1. TransactionInv(t)
    BY DEF ApplicationInv
  <2>2. task[t].pc = "approve" => /\ task[t].row \in DOMAIN applications'
                                  /\ applications'[task[t].row].status = "PENDING"
    BY <1>1, <1>3, <2>1 DEF TransactionInv
  <2>3. task[t].pc = "checked" =>
          \A i \in DOMAIN applications' : applications'[i].status = "PENDING" =>
            /\ applications'[i].email # Applications!Address(task[t].form)
            /\ applications'[i].phone # task[t].form.phone
            /\ applications'[i].plate # task[t].form.plate
    BY <1>1, <2>1 DEF TransactionInv
  <2>4. task[t].row # 0 => \A u \in Tasks \ {t} : task'[u].row # task[t].row
    BY <1>3, <2>1 DEF TransactionInv
  <2> QED BY <1>3, <2>1, <2>2, <2>3, <2>4
             DEF TransactionInv, Applications!Address, Applications!LocalEmail
<1> QED BY <1>1, <1>2, <1>3

(* An application is rejected: nobody holds it.                            *)
LEMMA RejectStep ==
  ASSUME ApplicationInv, NEW k \in DOMAIN applications, Applications!Reject(k)
  PROVE  ApplicationInv'
<1> DEFINE e == [applications[k] EXCEPT !.status = "REJECTED"]
<1>1. /\ applications[k].status = "PENDING" /\ \A t \in Tasks : task[t].row # k
      /\ UNCHANGED <<users, drivers, vehicles, usersLock, task>>
  BY ApplicationAssumption DEF Applications!Reject, Applications!WithStatus, Applications!RowFree
<1>2. applications[k] \in Applications!Application /\ AccountInv(k)
  BY ApplicationRows DEF ApplicationInv, RowsInv
<1>3. /\ e \in Applications!Application /\ e.status = "REJECTED"
      /\ e.email = applications[k].email /\ e.phone = applications[k].phone
      /\ e.plate = applications[k].plate /\ e.account = applications[k].account
  BY <1>2 DEF Applications!Application
<1>4. applications' = [applications EXCEPT ![k] = e]
  BY <1>2 DEF Applications!Reject, Applications!Application
<1> HIDE DEF e
<1>5. /\ applications' \in Seq(Applications!Application)
      /\ DOMAIN applications' = DOMAIN applications /\ applications'[k] = e
      /\ \A i \in DOMAIN applications \ {k} : applications'[i] = applications[i]
      /\ Applications!OnePendingEach'
      /\ \A t \in Tasks : TransactionInv(t)'
  BY <1>1, <1>3, <1>4, Reviewed
<1>6. \A i \in DOMAIN applications' : applications'[i].account = applications[i].account
  BY <1>3, <1>5
<1>7. ASSUME NEW i \in DOMAIN applications' PROVE AccountInv(i)'
  <2>1. CASE i = k
    BY <1>1, <1>2, <1>3, <1>5, <2>1 DEF AccountInv
  <2>2. CASE i # k
    <3>1. AccountInv(i)
      BY <1>5 DEF ApplicationInv, RowsInv
    <3> QED BY <1>1, <1>5, <1>6, <2>2, <3>1 DEF AccountInv
  <2> QED BY <2>1, <2>2
<1>8. RowsInv'
  BY <1>1, <1>5, <1>7
     DEF ApplicationInv, RowsInv, DriverInv, VehicleInv, Applications!Primary, Applications!Driver
<1>9. ApplicationTypes'
  BY <1>1, <1>5 DEF ApplicationInv, ApplicationTypes
<1> QED BY <1>5, <1>8, <1>9 DEF ApplicationInv

(* An application is approved: the account, the driver and his vehicle are *)
(* new, and nobody else's.                                                 *)
LEMMA CreateStep ==
  ASSUME ApplicationInv, NEW t \in Tasks, Applications!Create(t)
  PROVE  ApplicationInv'
<1> DEFINE k == task[t].row
           a == applications[k]
           u == Len(users) + 1
           v == Len(vehicles) + 1
           e == [a EXCEPT !.status = "APPROVED", !.account = u]
           user == [email |-> a.email, phone |-> a.phone, role |-> "DRIVER"]
           car == [driver |-> u, plate |-> a.plate, type |-> a.type, primary |-> TRUE,
                   active |-> TRUE, approval |-> "APPROVED"]
<1>1. CASE UNCHANGED Applications!tables
  BY <1>1, TransactionEnds DEF Applications!Create
<1>2. CASE ~UNCHANGED Applications!tables
  <2>1. /\ task[t].pc = "approve" /\ usersLock = None /\ u <= MaxUsers
        /\ users' = Append(users, user)
        /\ drivers' = [w \in DOMAIN drivers \cup {u} |->
                         IF w = u THEN [phone |-> a.phone, type |-> a.type] ELSE drivers[w]]
        /\ vehicles' = Append(vehicles, car)
        /\ applications' = [applications EXCEPT
                              ![k] = [@ EXCEPT !.status = "APPROVED", !.account = u]]
        /\ task' = [task EXCEPT ![t] = Applications!Idle] /\ usersLock' = None
    BY <1>2, ApplicationAssumption DEF Applications!Create, Applications!End
  <2>2. /\ k \in DOMAIN applications /\ a.status = "PENDING" /\ TransactionInv(t)
        /\ a \in Applications!Application /\ AccountInv(k)
    BY <2>1, ApplicationRows DEF ApplicationInv, TransactionInv, RowsInv
  <2>3. /\ Len(users) \in Nat /\ DOMAIN users = 1..Len(users)
        /\ u \in 1..MaxUsers /\ u \notin DOMAIN users /\ u # 0
    BY <2>1, ApplicationRows, ApplicationAssumption
  <2>4. /\ e \in Applications!Application /\ e.status = "APPROVED" /\ e.account = u
        /\ e.email = a.email /\ e.phone = a.phone /\ e.plate = a.plate
    <3>1. u \in 0..MaxUsers
      BY <2>3
    <3> HIDE DEF u, a
    <3> QED BY <2>2, <3>1 DEF Applications!Application
  <2>5. applications' = [applications EXCEPT ![k] = e]
    BY <2>1
  <2>6. /\ user \in Applications!User /\ user.role = "DRIVER"
        /\ user.phone = a.phone /\ user.email = a.email
    BY <2>2 DEF Applications!User, Applications!Application
  <2>7. /\ car \in Applications!Vehicle /\ car.driver = u /\ car.primary /\ car.active
        /\ car.approval = "APPROVED" /\ car.type = a.type
    BY <2>2, <2>3 DEF Applications!Vehicle, Applications!Application
  <2>8. /\ DOMAIN drivers' = DOMAIN drivers \cup {u}
        /\ \A w \in DOMAIN drivers : w # u => drivers'[w] = drivers[w]
        /\ drivers'[u] = [phone |-> a.phone, type |-> a.type]
    BY <2>1
  <2>9. drivers'[u] \in Applications!Driver /\ drivers'[u].phone = a.phone /\ drivers'[u].type = a.type
    BY <2>2, <2>8 DEF Applications!Driver, Applications!Application
  <2> HIDE DEF e, user, car
  <2>10. /\ users' \in Seq(Applications!User) /\ Len(users') = u
         /\ DOMAIN users' = 1..u /\ users'[u] = user
         /\ \A w \in DOMAIN users : users'[w] = users[w]
    BY <2>1, <2>6, RowAdded DEF ApplicationInv, ApplicationTypes
  <2>11. /\ vehicles' \in Seq(Applications!Vehicle) /\ Len(vehicles) \in Nat
         /\ DOMAIN vehicles = 1..Len(vehicles) /\ DOMAIN vehicles' = 1..v
         /\ vehicles'[v] = car
         /\ \A w \in DOMAIN vehicles : vehicles'[w] = vehicles[w]
    BY <2>1, <2>7, RowAdded DEF ApplicationInv, ApplicationTypes
  <2>12. task' \in [Tasks -> Transaction] /\ task'[t] = Applications!Idle
         /\ \A w \in Tasks \ {t} : task'[w] = task[w]
    BY <2>1, IdleTransaction DEF ApplicationInv, ApplicationTypes
  <2>13. /\ applications' \in Seq(Applications!Application)
         /\ DOMAIN applications' = DOMAIN applications /\ applications'[k] = e
         /\ \A i \in DOMAIN applications \ {k} : applications'[i] = applications[i]
         /\ Applications!OnePendingEach'
         /\ \A w \in Tasks : task'[w] = task[w] /\ task[w].row # k
                             /\ (usersLock = w => usersLock' = w)
                             /\ (\A x \in Tasks \ {w} : task'[x].row # 0 => task'[x].row = task[x].row)
              => TransactionInv(w)'
    BY <2>2, <2>4, <2>5, Reviewed
  <2>14. ASSUME NEW w \in Tasks PROVE TransactionInv(w)'
    <3>1. CASE w = t
      BY <2>12, <3>1, IdleTransaction DEF TransactionInv
    <3>2. CASE w # t
      <4>1. k # 0
        BY <2>2, ApplicationRows
      <4>2. task[w].row # k
        BY <2>2, <3>2, <4>1 DEF TransactionInv
      <4>3. \A x \in Tasks \ {w} : task'[x].row # 0 => task'[x].row = task[x].row
        BY <2>12, IdleTransaction
      <4>4. usersLock # w
        BY <2>1, ApplicationAssumption
      <4>5. task'[w] = task[w]
        BY <2>12, <3>2
      <4> QED BY <2>13, <4>2, <4>3, <4>4, <4>5
    <3> QED BY <3>1, <3>2
  <2> HIDE DEF k, a
  <2>15. \A w \in DOMAIN drivers : DriverInv(w) /\ w \in DOMAIN users /\ w # u
    BY <2>3 DEF ApplicationInv, RowsInv, DriverInv
  <2>16. \A w \in DOMAIN vehicles : VehicleInv(w) /\ vehicles[w].driver # u
    BY <2>15 DEF ApplicationInv, RowsInv, VehicleInv
  <2>17. ASSUME NEW i \in DOMAIN applications' PROVE AccountInv(i)'
    <3>1. \A j \in DOMAIN applications : AccountInv(j)
      BY DEF ApplicationInv, RowsInv
    <3>2. CASE i = k
      <4>1. \A j \in DOMAIN applications \ {k} : applications[j].account # u
        BY <2>3, <2>15, <3>1 DEF AccountInv
      <4>2. u \in DOMAIN drivers' /\ users'[u].email = e.email
        BY <2>4, <2>6, <2>8, <2>10
      <4> QED BY <2>3, <2>4, <2>13, <3>2, <4>1, <4>2 DEF AccountInv
    <3>3. CASE i # k
      <4>1. AccountInv(i) /\ applications'[i] = applications[i]
        BY <2>13, <3>1, <3>3
      <4>2. applications[i].status = "APPROVED" =>
              /\ applications[i].account \in DOMAIN drivers'
              /\ users'[applications[i].account].email = applications[i].email
              /\ applications[i].account # u
        BY <2>8, <2>10, <2>15, <4>1 DEF AccountInv
      <4>3. \A j \in DOMAIN applications' : applications[i].status = "APPROVED" /\ i # j =>
              applications[i].account # applications'[j].account
        BY <2>4, <2>13, <4>1, <4>2 DEF AccountInv
      <4> QED BY <4>1, <4>2, <4>3 DEF AccountInv
    <3> QED BY <3>2, <3>3
  <2>18. v \in DOMAIN vehicles' /\ u \in DOMAIN users' /\ users'[u].role = "DRIVER"
         /\ users'[u].phone = a.phone /\ vehicles'[v].type = a.type
    BY <2>3, <2>6, <2>7, <2>10, <2>11
  <2>19. ASSUME NEW w, w = u PROVE DriverInv(w)'
    <3>1. {x \in DOMAIN vehicles' : vehicles'[x].driver = w
                                    /\ vehicles'[x].primary /\ vehicles'[x].active} = {v}
      BY <2>7, <2>11, <2>16, <2>19
    <3>2. Applications!Primary(w)' = {v}
      BY <3>1 DEF Applications!Primary
    <3> HIDE DEF u, v
    <3> QED BY <2>9, <2>18, <2>19, <3>2 DEF DriverInv
  <2>20. ASSUME NEW w \in DOMAIN drivers PROVE DriverInv(w)'
    <3>1. Applications!Primary(w)' = Applications!Primary(w)
      BY <2>7, <2>11, <2>15 DEF Applications!Primary
    <3>2. drivers'[w] = drivers[w] /\ users'[w] = users[w] /\ w \in DOMAIN users'
      BY <2>3, <2>8, <2>10, <2>15
    <3>3. PICK x \in DOMAIN vehicles : /\ Applications!Primary(w) = {x}
                                       /\ vehicles[x].type = drivers[w].type
      BY <2>15 DEF DriverInv
    <3>4. x \in DOMAIN vehicles' /\ vehicles'[x] = vehicles[x]
      BY <2>11
    <3> QED BY <2>15, <3>1, <3>2, <3>3, <3>4 DEF DriverInv, Applications!Driver
  <2>21. ASSUME NEW w \in DOMAIN vehicles' PROVE VehicleInv(w)'
    <3>1. CASE w = v
      BY <2>7, <2>8, <2>11, <3>1 DEF VehicleInv
    <3>2. CASE w \in DOMAIN vehicles
      BY <2>8, <2>11, <2>16, <3>2 DEF VehicleInv
    <3> QED BY <2>11, <3>1, <3>2
  <2>22. \A w \in DOMAIN drivers' : DriverInv(w)'
    BY <2>8, <2>19, <2>20
  <2>23. RowsInv'
    BY <2>13, <2>17, <2>21, <2>22 DEF RowsInv
  <2>24. ApplicationTypes'
    BY <2>1, <2>3, <2>10, <2>11, <2>12, <2>13 DEF ApplicationTypes
  <2> QED BY <2>14, <2>23, <2>24 DEF ApplicationInv
<1> QED BY <1>1, <1>2

(* What a step of an account or a vehicle must show: the applications rely *)
(* on the e-mails and on who is a driver.                                  *)
LEMMA AccountsStand ==
  ASSUME ApplicationInv, UNCHANGED <<applications, usersLock, task>>,
         users' \in Seq(Applications!User), Len(users') <= MaxUsers,
         vehicles' \in Seq(Applications!Vehicle), DOMAIN drivers' = DOMAIN drivers,
         \A u \in DOMAIN users : users'[u].email = users[u].email,
         \A u \in DOMAIN drivers : DriverInv(u)',
         \A v \in DOMAIN vehicles' : VehicleInv(v)'
  PROVE  ApplicationInv'
<1>1. ApplicationTypes' /\ \A t \in Tasks : TransactionInv(t)'
  BY DEF ApplicationInv, ApplicationTypes, TransactionInv, Applications!Address,
     Applications!LocalEmail
<1>2. \A u \in DOMAIN drivers : u \in DOMAIN users
  BY DEF ApplicationInv, RowsInv, DriverInv
<1>3. \A i \in DOMAIN applications' : AccountInv(i)'
  BY <1>2 DEF ApplicationInv, RowsInv, AccountInv
<1>4. Applications!OnePendingEach'
  BY DEF ApplicationInv, RowsInv, Applications!OnePendingEach, Applications!WithStatus
<1>5. RowsInv'
  BY <1>3, <1>4 DEF RowsInv
<1> QED BY <1>1, <1>5 DEF ApplicationInv

(* Customers register and change their phone, which is no driver's.        *)
LEMMA CustomerStep ==
  ASSUME ApplicationInv, NEW p \in Phones,
         \/ \E e \in Emails : Applications!Register(e, p)
         \/ \E u \in DOMAIN users : Applications!ChangeCustomerPhone(u, p)
  PROVE  ApplicationInv'
<1>1. UNCHANGED <<applications, usersLock, task, drivers, vehicles>>
  BY DEF Applications!Register, Applications!ChangeCustomerPhone, Applications!UsersFree
<1>2. \A u \in DOMAIN drivers : DriverInv(u)
  BY DEF ApplicationInv, RowsInv
<1> DEFINE Kept == /\ users' \in Seq(Applications!User) /\ Len(users') <= MaxUsers
                   /\ DOMAIN users \subseteq DOMAIN users'
                   /\ \A u \in DOMAIN users : users'[u].email = users[u].email
                   /\ \A u \in DOMAIN drivers : users'[u] = users[u]
<1>3. Kept
  <2>1. ASSUME NEW e \in Emails, Applications!Register(e, p) PROVE Kept
    <3> DEFINE user == [email |-> e, phone |-> p, role |-> "CUSTOMER"]
    <3>1. user \in Applications!User
      BY DEF Applications!User, Applications!Addresses
    <3>2. users' = Append(users, user) /\ Len(users) < MaxUsers
      BY <2>1 DEF Applications!Register
    <3> HIDE DEF user
    <3>3. /\ users' \in Seq(Applications!User) /\ Len(users') = Len(users) + 1
          /\ Len(users) \in Nat
          /\ DOMAIN users = 1..Len(users) /\ DOMAIN users' = 1..(Len(users) + 1)
          /\ \A u \in DOMAIN users : users'[u] = users[u]
      BY <3>1, <3>2, RowAdded DEF ApplicationInv, ApplicationTypes
    <3>4. Len(users') <= MaxUsers
      BY <3>2, <3>3, ApplicationAssumption
    <3> QED BY <1>2, <3>3, <3>4 DEF DriverInv
  <2>2. ASSUME NEW c \in DOMAIN users, Applications!ChangeCustomerPhone(c, p) PROVE Kept
    <3> DEFINE user == [users[c] EXCEPT !.phone = p]
    <3>1. user \in Applications!User /\ user.email = users[c].email
      BY ApplicationRows DEF Applications!User
    <3>2. users' = [users EXCEPT ![c] = user] /\ c \notin DOMAIN drivers
      BY <2>2 DEF Applications!ChangeCustomerPhone
    <3> HIDE DEF user
    <3>3. /\ users' \in Seq(Applications!User) /\ Len(users') = Len(users)
          /\ DOMAIN users' = DOMAIN users /\ users'[c] = user
          /\ \A u \in DOMAIN users \ {c} : users'[u] = users[u]
      BY <3>1, <3>2, RowWrittenOver DEF ApplicationInv, ApplicationTypes
    <3> QED BY <1>2, <3>1, <3>2, <3>3 DEF DriverInv, ApplicationInv, ApplicationTypes
  <2> QED BY <2>1, <2>2
<1>4. \A u \in DOMAIN drivers : DriverInv(u)'
  BY <1>1, <1>2, <1>3 DEF DriverInv, Applications!Primary, Applications!Driver
<1>5. \A v \in DOMAIN vehicles' : VehicleInv(v)'
  BY <1>1 DEF ApplicationInv, RowsInv, VehicleInv
<1>6. vehicles' \in Seq(Applications!Vehicle) /\ DOMAIN drivers' = DOMAIN drivers
  BY <1>1 DEF ApplicationInv, ApplicationTypes
<1> QED BY <1>1, <1>3, <1>4, <1>5, <1>6, AccountsStand

(* A driver's phone is changed in both of his rows.                        *)
LEMMA DriverPhoneStep ==
  ASSUME ApplicationInv, NEW p \in Phones, NEW d \in DOMAIN users,
         Applications!ChangeDriverPhone(d, p)
  PROVE  ApplicationInv'
<1> DEFINE user == [users[d] EXCEPT !.phone = p]
           row == [drivers[d] EXCEPT !.phone = p]
<1>1. UNCHANGED <<applications, usersLock, task, vehicles>> /\ d \in DOMAIN drivers
  BY DEF Applications!ChangeDriverPhone, Applications!UsersFree
<1>2. \A u \in DOMAIN drivers : DriverInv(u)
  BY DEF ApplicationInv, RowsInv
<1>3. user \in Applications!User /\ user.email = users[d].email /\ user.phone = p
      /\ user.role = users[d].role
  BY ApplicationRows DEF Applications!User
<1>4. row \in Applications!Driver /\ row.phone = p /\ row.type = drivers[d].type
  BY <1>1, <1>2 DEF DriverInv, Applications!Driver
<1>5. users' = [users EXCEPT ![d] = user] /\ drivers' = [drivers EXCEPT ![d] = row]
  BY DEF Applications!ChangeDriverPhone
<1> HIDE DEF user, row
<1>6. /\ users' \in Seq(Applications!User) /\ Len(users') = Len(users)
      /\ DOMAIN users' = DOMAIN users /\ users'[d] = user
      /\ \A u \in DOMAIN users \ {d} : users'[u] = users[u]
  BY <1>3, <1>5, RowWrittenOver DEF ApplicationInv, ApplicationTypes
<1>7. /\ DOMAIN drivers' = DOMAIN drivers /\ drivers'[d] = row
      /\ \A u \in DOMAIN drivers \ {d} : drivers'[u] = drivers[u]
  BY <1>1, <1>5
<1>8. ASSUME NEW u \in DOMAIN drivers PROVE DriverInv(u)'
  <2>1. DriverInv(u) /\ DriverInv(d)
    BY <1>1, <1>2
  <2>2. Applications!Primary(u)' = Applications!Primary(u)
    BY <1>1 DEF Applications!Primary
  <2>3. /\ u \in DOMAIN users' /\ drivers'[u] \in Applications!Driver
        /\ users'[u].role = "DRIVER" /\ users'[u].phone = drivers'[u].phone
        /\ drivers'[u].type = drivers[u].type
    BY <1>3, <1>4, <1>6, <1>7, <2>1 DEF DriverInv
  <2> QED BY <1>1, <2>1, <2>2, <2>3 DEF DriverInv, Applications!Driver
<1>9. \A v \in DOMAIN vehicles' : VehicleInv(v)'
  BY <1>1, <1>7 DEF ApplicationInv, RowsInv, VehicleInv
<1>10. vehicles' \in Seq(Applications!Vehicle) /\ Len(users') <= MaxUsers
  BY <1>1, <1>6 DEF ApplicationInv, ApplicationTypes
<1>11. \A u \in DOMAIN users : users'[u].email = users[u].email
  BY <1>3, <1>6
<1> QED BY <1>1, <1>6, <1>7, <1>8, <1>9, <1>10, <1>11, AccountsStand

(* The primary vehicle and the driver's type change together.              *)
LEMMA ChangeVehicleStep ==
  ASSUME ApplicationInv, NEW d \in DOMAIN users, NEW x \in Plates, NEW y \in Types,
         Applications!ChangeVehicle(d, x, y)
  PROVE  ApplicationInv'
<1>1. UNCHANGED <<applications, usersLock, task, users>> /\ d \in DOMAIN drivers
  BY DEF Applications!ChangeVehicle, Applications!UsersFree
<1>2. PICK v \in Applications!Primary(d) :
        vehicles' = [vehicles EXCEPT ![v].plate = x, ![v].type = y]
  BY DEF Applications!ChangeVehicle
<1> DEFINE car == [vehicles[v] EXCEPT !.plate = x, !.type = y]
           row == [drivers[d] EXCEPT !.type = y]
<1>3. v \in DOMAIN vehicles /\ vehicles[v] \in Applications!Vehicle
  BY <1>2, ApplicationRows DEF Applications!Primary
<1>4. /\ car \in Applications!Vehicle /\ car.type = y /\ car.driver = vehicles[v].driver
      /\ car.primary = vehicles[v].primary /\ car.active = vehicles[v].active
      /\ car.approval = vehicles[v].approval
  BY <1>3 DEF Applications!Vehicle
<1>5. \A u \in DOMAIN drivers : DriverInv(u)
  BY DEF ApplicationInv, RowsInv
<1>6. row \in Applications!Driver /\ row.type = y /\ row.phone = drivers[d].phone
  BY <1>1, <1>5 DEF DriverInv, Applications!Driver
<1>7. vehicles' = [vehicles EXCEPT ![v] = car] /\ drivers' = [drivers EXCEPT ![d] = row]
  BY <1>2, <1>3 DEF Applications!ChangeVehicle
<1> HIDE DEF car, row
<1>8. /\ vehicles' \in Seq(Applications!Vehicle) /\ DOMAIN vehicles' = DOMAIN vehicles
      /\ vehicles'[v] = car /\ \A w \in DOMAIN vehicles \ {v} : vehicles'[w] = vehicles[w]
  BY <1>3, <1>4, <1>7, RowWrittenOver DEF ApplicationInv, ApplicationTypes
<1>9. /\ DOMAIN drivers' = DOMAIN drivers /\ drivers'[d] = row
      /\ \A u \in DOMAIN drivers \ {d} : drivers'[u] = drivers[u]
  BY <1>1, <1>7
<1>10. ASSUME NEW u \in DOMAIN drivers PROVE DriverInv(u)'
  <2>1. DriverInv(u) /\ DriverInv(d)
    BY <1>1, <1>5
  <2>2. Applications!Primary(u)' = Applications!Primary(u)
    BY <1>4, <1>8 DEF Applications!Primary
  <2>3. /\ u \in DOMAIN users' /\ drivers'[u] \in Applications!Driver
        /\ users'[u].role = "DRIVER" /\ users'[u].phone = drivers'[u].phone
    BY <1>1, <1>6, <1>9, <2>1 DEF DriverInv
  <2>4. PICK w \in DOMAIN vehicles : /\ Applications!Primary(u) = {w}
                                     /\ vehicles[w].type = drivers[u].type
    BY <2>1 DEF DriverInv
  <2>5. vehicles'[w].type = drivers'[u].type
    <3>1. CASE u = d
      BY <1>2, <1>4, <1>6, <1>8, <1>9, <2>4, <3>1
    <3>2. CASE u # d
      <4>1. w # v
        BY <1>2, <2>4, <3>2 DEF Applications!Primary
      <4> QED BY <1>8, <1>9, <2>4, <3>2, <4>1
    <3> QED BY <3>1, <3>2
  <2> QED BY <1>8, <2>2, <2>3, <2>4, <2>5 DEF DriverInv, Applications!Driver
<1>11. \A w \in DOMAIN vehicles' : VehicleInv(w)'
  BY <1>3, <1>4, <1>8, <1>9 DEF ApplicationInv, RowsInv, VehicleInv
<1>12. users' \in Seq(Applications!User) /\ Len(users') <= MaxUsers
  BY <1>1 DEF ApplicationInv, ApplicationTypes
<1> QED BY <1>1, <1>8, <1>9, <1>10, <1>11, <1>12, AccountsStand

(* Another vehicle is added and reviewed: it is no primary one.            *)
LEMMA VehicleStep ==
  ASSUME ApplicationInv,
         \/ \E d \in DOMAIN users, x \in Plates, y \in Types : Applications!AddVehicle(d, x, y)
         \/ \E v \in DOMAIN vehicles : \E s \in {"APPROVED", "REJECTED"} :
              Applications!ReviewVehicle(v, s)
  PROVE  ApplicationInv'
<1>1. UNCHANGED <<applications, usersLock, task, users, drivers>>
  BY DEF Applications!AddVehicle, Applications!UsersFree, Applications!ReviewVehicle
<1>2. \A u \in DOMAIN drivers : DriverInv(u)
  BY DEF ApplicationInv, RowsInv
<1>3. \A v \in DOMAIN vehicles : VehicleInv(v)
  BY DEF ApplicationInv, RowsInv
<1> DEFINE Kept == /\ vehicles' \in Seq(Applications!Vehicle)
                   /\ DOMAIN vehicles \subseteq DOMAIN vehicles'
                   /\ \A v \in DOMAIN vehicles : vehicles'[v].type = vehicles[v].type
                   /\ \A u : {v \in DOMAIN vehicles' : vehicles'[v].driver = u
                               /\ vehicles'[v].primary /\ vehicles'[v].active}
                            = {v \in DOMAIN vehicles : vehicles[v].driver = u
                               /\ vehicles[v].primary /\ vehicles[v].active}
                   /\ \A v \in DOMAIN vehicles' : VehicleInv(v)'
<1>4. Kept
  <2>1. ASSUME NEW d \in DOMAIN users, NEW x \in Plates, NEW y \in Types,
               Applications!AddVehicle(d, x, y)
        PROVE  Kept
    <3> DEFINE car == [driver |-> d, plate |-> x, type |-> y, primary |-> FALSE,
                       active |-> FALSE, approval |-> "PENDING"]
    <3>1. d \in 1..MaxUsers
      BY ApplicationRows, ApplicationAssumption DEF ApplicationInv, ApplicationTypes
    <3>2. car \in Applications!Vehicle /\ car.driver = d /\ car.primary = FALSE
      BY <3>1 DEF Applications!Vehicle
    <3>3. vehicles' = Append(vehicles, car) /\ d \in DOMAIN drivers
      BY <2>1 DEF Applications!AddVehicle
    <3> HIDE DEF car
    <3>4. /\ vehicles' \in Seq(Applications!Vehicle) /\ Len(vehicles) \in Nat
          /\ DOMAIN vehicles = 1..Len(vehicles) /\ DOMAIN vehicles' = 1..(Len(vehicles) + 1)
          /\ vehicles'[Len(vehicles) + 1] = car
          /\ \A v \in DOMAIN vehicles : vehicles'[v] = vehicles[v]
      BY <3>2, <3>3, RowAdded DEF ApplicationInv, ApplicationTypes
    <3>5. \A v \in DOMAIN vehicles' : VehicleInv(v)'
      BY <1>1, <1>3, <3>2, <3>3, <3>4 DEF VehicleInv
    <3> QED BY <3>2, <3>4, <3>5
  <2>2. ASSUME NEW k \in DOMAIN vehicles, NEW s \in {"APPROVED", "REJECTED"},
               Applications!ReviewVehicle(k, s)
        PROVE  Kept
    <3> DEFINE car == [vehicles[k] EXCEPT !.approval = s, !.active = s = "APPROVED"]
    <3>1. vehicles[k] \in Applications!Vehicle /\ vehicles[k].primary = FALSE
      BY <1>3, <2>2, ApplicationRows DEF Applications!ReviewVehicle, VehicleInv, Applications!Vehicle
    <3>2. /\ car \in Applications!Vehicle /\ car.type = vehicles[k].type
          /\ car.driver = vehicles[k].driver /\ car.primary = FALSE
      BY <3>1 DEF Applications!Vehicle
    <3>3. vehicles' = [vehicles EXCEPT ![k] = car]
      BY <2>2, <3>1 DEF Applications!ReviewVehicle
    <3> HIDE DEF car
    <3>4. /\ vehicles' \in Seq(Applications!Vehicle) /\ DOMAIN vehicles' = DOMAIN vehicles
          /\ vehicles'[k] = car /\ \A v \in DOMAIN vehicles \ {k} : vehicles'[v] = vehicles[v]
      BY <3>2, <3>3, RowWrittenOver DEF ApplicationInv, ApplicationTypes
    <3>5. \A v \in DOMAIN vehicles' : VehicleInv(v)'
      BY <1>1, <1>3, <3>2, <3>4 DEF VehicleInv
    <3> QED BY <3>1, <3>2, <3>4, <3>5
  <2> QED BY <2>1, <2>2
<1>5. ASSUME NEW u \in DOMAIN drivers PROVE DriverInv(u)'
  <2>1. Applications!Primary(u)' = Applications!Primary(u)
    BY <1>4 DEF Applications!Primary
  <2> QED BY <1>1, <1>2, <1>4, <2>1 DEF DriverInv, Applications!Driver
<1>6. users' \in Seq(Applications!User) /\ Len(users') <= MaxUsers
      /\ DOMAIN drivers' = DOMAIN drivers /\ \A u \in DOMAIN users : users'[u].email = users[u].email
  BY <1>1 DEF ApplicationInv, ApplicationTypes
<1> QED BY <1>1, <1>4, <1>5, <1>6, AccountsStand

(* Every step keeps the invariant.                                         *)
LEMMA ApplicationKeeps ==
  ASSUME ApplicationInv, Applications!Next
  PROVE  ApplicationInv'
<1>1. CASE \E t \in Tasks :
        \/ \E f \in Applications!Form :
             \/ Applications!Submit(t, f)
             \/ \E i \in DOMAIN applications : Applications!Resubmit(t, f, i)
        \/ Applications!LockUsers(t) \/ Applications!Search(t)
        \/ \E i \in DOMAIN applications : Applications!Approve(t, i)
        \/ \E u \in Tasks : Applications!Deadlock(t, u)
  BY <1>1, SearchStep
<1>2. CASE \E t \in Tasks : Applications!Insert(t) \/ Applications!Create(t)
  BY <1>2, InsertStep, CreateStep
<1>3. CASE \E i \in DOMAIN applications : Applications!Reject(i)
  BY <1>3, RejectStep
<1>4. CASE \E p \in Phones : \/ \E e \in Emails : Applications!Register(e, p)
                           \/ \E u \in DOMAIN users : \/ Applications!ChangeCustomerPhone(u, p)
                                                     \/ Applications!ChangeDriverPhone(u, p)
  BY <1>4, CustomerStep, DriverPhoneStep
<1>5. CASE \E u \in DOMAIN users, x \in Plates, y \in Types :
        Applications!ChangeVehicle(u, x, y) \/ Applications!AddVehicle(u, x, y)
  BY <1>5, ChangeVehicleStep, VehicleStep
<1>6. CASE \E v \in DOMAIN vehicles : \E s \in {"APPROVED", "REJECTED"} :
             Applications!ReviewVehicle(v, s)
  BY <1>6, VehicleStep
<1> QED BY <1>1, <1>2, <1>3, <1>4, <1>5, <1>6 DEF Applications!Next

(* The inductive invariant of the applications.                            *)
THEOREM ApplicationInvariance == AccountsSpec => []ApplicationInv
<1>1. AccountsInit => ApplicationInv
  <2> SUFFICES ASSUME Applications!Init PROVE ApplicationInv
    BY DEF AccountsInit
  <2>1. /\ applications = <<>> /\ users = <<>> /\ vehicles = <<>> /\ usersLock = None
        /\ DOMAIN drivers = {} /\ task = [t \in Tasks |-> Applications!Idle]
    BY DEF Applications!Init
  <2>2. /\ <<>> \in Seq(Applications!Application) /\ <<>> \in Seq(Applications!User)
        /\ <<>> \in Seq(Applications!Vehicle) /\ Len(users) = 0
        /\ DOMAIN applications = {} /\ DOMAIN vehicles = {}
    BY <2>1, EmptySeq
  <2>3. ApplicationTypes
    BY <2>1, <2>2, IdleTransaction, ApplicationAssumption DEF ApplicationTypes
  <2>4. RowsInv
    BY <2>1, <2>2 DEF RowsInv, Applications!OnePendingEach, Applications!WithStatus
  <2>5. \A t \in Tasks : TransactionInv(t)
    BY <2>1, IdleTransaction DEF TransactionInv
  <2> QED BY <2>3, <2>4, <2>5 DEF ApplicationInv
<1>2. [AccountsNext]_accountsVars => Applications!Next \/ UNCHANGED applicationVars
  BY DEF AccountsNext, SessionStep, ApplicationStep, SocialStep, LocationStep, SupportStep,
     accountsVars
<1>3. ASSUME ApplicationInv, UNCHANGED applicationVars PROVE ApplicationInv'
  <2>1. UNCHANGED Applications!tables /\ usersLock' = usersLock /\ task' = task
    BY <1>3 DEF applicationVars, Applications!tables
  <2>2. RowsInv'
    BY <1>3, <2>1, RowsStand DEF ApplicationInv
  <2> QED BY <1>3, <2>1, <2>2 DEF ApplicationInv, ApplicationTypes, TransactionInv,
             Applications!tables, Applications!Address, Applications!LocalEmail
<1>4. ApplicationInv /\ [AccountsNext]_accountsVars => ApplicationInv'
  BY <1>2, <1>3, ApplicationKeeps
<1> QED BY <1>1, <1>4, PTL DEF AccountsSpec

(* However submissions and approvals overlap, no email, phone or plate     *)
(* waits in two applications, and exactly the approved ones have an        *)
(* account, each its own, with a driver and his one primary vehicle.       *)
THEOREM ApplicationsSettle == AccountsSpec => []ApplicationsAreSettled
<1>1. ASSUME ApplicationInv PROVE ApplicationsAreSettled
  <2>1. Applications!OnePendingEach
    BY <1>1 DEF ApplicationInv, RowsInv
  <2>2. \A i \in DOMAIN applications : AccountInv(i)
    BY <1>1 DEF ApplicationInv, RowsInv
  <2>3. ASSUME NEW i \in Applications!WithStatus("APPROVED"), NEW u, u = applications[i].account
        PROVE  /\ u \in DOMAIN drivers
               /\ users[u].role = "DRIVER" /\ users[u].email = applications[i].email
               /\ users[u].phone = drivers[u].phone
               /\ \E v \in Applications!Primary(u) : /\ Applications!Primary(u) = {v}
                                                     /\ vehicles[v].approval = "APPROVED"
                                                     /\ vehicles[v].type = drivers[u].type
    <3>1. u \in DOMAIN drivers /\ users[u].email = applications[i].email
      BY <2>2, <2>3 DEF Applications!WithStatus, AccountInv
    <3>2. DriverInv(u)
      BY <1>1, <3>1 DEF ApplicationInv, RowsInv
    <3>3. PICK v \in DOMAIN vehicles : /\ Applications!Primary(u) = {v}
                                       /\ vehicles[v].type = drivers[u].type
      BY <3>2 DEF DriverInv
    <3>4. vehicles[v].approval = "APPROVED"
      BY <1>1, <3>3 DEF ApplicationInv, RowsInv, VehicleInv, Applications!Primary
    <3> QED BY <3>1, <3>2, <3>3, <3>4 DEF DriverInv
  <2>4. Applications!ApprovedIsDriver
    BY <2>2, <2>3 DEF Applications!ApprovedIsDriver, Applications!WithStatus, AccountInv
  <2> QED BY <2>1, <2>4 DEF ApplicationsAreSettled
<1> QED BY <1>1, ApplicationInvariance, PTL

-----------------------------------------------------------------------------
(* Positions.                                                              *)

Position == [online: BOOLEAN, place: Location!Time \cup {None},
             recorded: Int \cup {None}, updated: Int \cup {None}]
Report == [pc: {"idle", "stored", "listed", "read"}, driver: Drivers \cup {None},
           rooms: SUBSET Bookings, place: Location!Time \cup {None}]

(* The rooms a handler has listed are of trips its driver is on, or the    *)
(* trip ended since.                                                       *)
ReportInv(h) ==
  /\ report[h].pc # "idle" => report[h].driver \in Drivers
  /\ \A b \in report[h].rooms :
       \/ trip[b].driver = report[h].driver /\ trip[b].status = "TRIP"
       \/ <<h, b>> \in owed

(* Whoever is in a room, or on his way into one, was let in to its booking.*)
LetIn ==
  /\ \A r \in Riders : <<r, pass[r].booking>> \in granted
  /\ checked \subseteq granted
  /\ \A b \in Bookings : \A r \in room[b] : <<r, b>> \in granted

LocationInv ==
  /\ clock \in Location!Time
  /\ driver \in [Drivers -> Position] /\ report \in [Reports -> Report]
  /\ trip \in [Bookings -> [status : Location!Status, driver : Drivers \cup {None}]]
  /\ pass \in [Riders -> Location!Pass]
  /\ checked \subseteq Riders \X Bookings /\ room \in [Bookings -> SUBSET Riders]
  /\ \A h \in Reports : ReportInv(h)
  /\ LetIn
  /\ Location!HeardOnTrip

(* A trip moves: who has listed its room is owed it.                       *)
LEMMA TripMoves ==
  ASSUME LocationInv, NEW b \in Bookings, NEW s \in Location!Status,
         NEW d \in Drivers \cup {None}, Location!MoveTrip(b, s, d)
  PROVE  LocationInv'
<1> DEFINE t == [status |-> s, driver |-> d]
<1>1. t \in [status : Location!Status, driver : Drivers \cup {None}]
  OBVIOUS
<1>2. trip' = [trip EXCEPT ![b] = t]
  BY DEF Location!MoveTrip
<1> HIDE DEF t
<1>3. /\ trip' \in [Bookings -> [status : Location!Status, driver : Drivers \cup {None}]]
      /\ \A c \in Bookings \ {b} : trip'[c] = trip[c]
  BY <1>1, <1>2 DEF LocationInv
<1>4. /\ owed \subseteq owed' /\ \A h \in Reports : b \in report[h].rooms => <<h, b>> \in owed'
      /\ UNCHANGED <<clock, driver, pass, checked, room, report, granted, heard>>
  BY DEF Location!MoveTrip
<1>5. \A h \in Reports : report[h].rooms \subseteq Bookings
  BY DEF LocationInv, Report
<1>6. \A h \in Reports : ReportInv(h)'
  BY <1>3, <1>4, <1>5 DEF LocationInv, ReportInv
<1>7. LetIn' /\ Location!HeardOnTrip'
  BY <1>4 DEF LocationInv, LetIn, Location!HeardOnTrip
<1> QED BY <1>3, <1>4, <1>6, <1>7 DEF LocationInv, Location!Time

(* Trips are given, set out on, given to others and ended.                 *)
LEMMA TripStep ==
  ASSUME LocationInv, NEW b \in Bookings,
         \/ Location!SetOut(b) \/ Location!EndTrip(b)
         \/ \E d \in Drivers : Location!Assign(b, d) \/ Location!Reassign(b, d)
  PROVE  LocationInv'
<1>1. trip[b].driver \in Drivers \cup {None} /\ trip[b].status \in Location!Status
  BY DEF LocationInv
<1>2. \E s \in Location!Status, d \in Drivers \cup {None} : Location!MoveTrip(b, s, d)
  BY <1>1 DEF Location!SetOut, Location!EndTrip, Location!Assign, Location!Reassign,
     Location!Status
<1> QED BY <1>2, TripMoves

(* Time passes, a driver goes on or off line, a token ends.                *)
LEMMA AroundStep ==
  ASSUME LocationInv,
         \/ Location!Tick \/ (\E d \in Drivers : Location!SetOnline(d))
         \/ (\E r \in Riders : Location!PassEnds(r)) \/ UNCHANGED locationVars
  PROVE  LocationInv'
<1>1. UNCHANGED <<trip, checked, room, report, granted, owed, heard>>
  BY DEF Location!Tick, Location!SetOnline, Location!PassEnds, locationVars, Location!world
<1>2. clock' \in Location!Time
  BY LocationAssumption DEF Location!Tick, Location!SetOnline, Location!PassEnds, locationVars,
     Location!world, LocationInv, Location!Time
<1>3. driver' \in [Drivers -> Position]
  <2>1. CASE \E d \in Drivers : Location!SetOnline(d)
    <3>1. PICK d \in Drivers : driver' = [driver EXCEPT ![d].online = ~@]
      BY <2>1 DEF Location!SetOnline
    <3> DEFINE p == [driver[d] EXCEPT !.online = ~@]
    <3>2. p \in Position
      BY DEF LocationInv, Position
    <3>3. driver' = [driver EXCEPT ![d] = p]
      BY <3>1
    <3> HIDE DEF p
    <3> QED BY <3>2, <3>3 DEF LocationInv
  <2>2. CASE driver' = driver
    BY <2>2 DEF LocationInv, Position, Location!Time
  <2> QED BY <2>1, <2>2 DEF Location!Tick, Location!PassEnds, locationVars
<1>4. pass' \in [Riders -> Location!Pass] /\ \A r \in Riders : pass'[r].booking = pass[r].booking
  <2>1. CASE \E r \in Riders : Location!PassEnds(r)
    <3>1. PICK r \in Riders : pass' = [pass EXCEPT ![r].by = "expired"]
      BY <2>1 DEF Location!PassEnds
    <3> DEFINE p == [pass[r] EXCEPT !.by = "expired"]
    <3>2. p \in Location!Pass /\ p.booking = pass[r].booking
      BY DEF LocationInv, Location!Pass
    <3>3. pass' = [pass EXCEPT ![r] = p]
      BY <3>1
    <3> HIDE DEF p
    <3> QED BY <3>2, <3>3 DEF LocationInv
  <2>2. CASE pass' = pass
    BY <2>2 DEF LocationInv
  <2> QED BY <2>1, <2>2 DEF Location!Tick, Location!SetOnline, locationVars, Location!world
<1>5. \A h \in Reports : ReportInv(h)'
  BY <1>1 DEF LocationInv, ReportInv
<1>6. LetIn' /\ Location!HeardOnTrip'
  BY <1>1, <1>4 DEF LocationInv, LetIn, Location!HeardOnTrip
<1> QED BY <1>1, <1>2, <1>3, <1>4, <1>5, <1>6 DEF LocationInv, Location!Time

(* What a report leaves alone, and what one handler's step must show.      *)
LEMMA ReportMoves ==
  ASSUME LocationInv, NEW h \in Reports, NEW s \in Report,
         UNCHANGED Location!world, checked' = checked, room' = room,
         driver' \in [Drivers -> Position],
         report' = [report EXCEPT ![h] = s],
         \A g \in Reports \ {h} : \A b \in Bookings : <<g, b>> \in owed => <<g, b>> \in owed',
         s.pc # "idle" => s.driver \in Drivers,
         \A b \in s.rooms : \/ trip[b].driver = s.driver /\ trip[b].status = "TRIP"
                            \/ <<h, b>> \in owed',
         \A m \in heard' \ heard : m.onTrip /\ <<m.rider, m.booking>> \in granted
  PROVE  LocationInv'
<1>1. /\ report' \in [Reports -> Report] /\ report'[h] = s
      /\ \A g \in Reports \ {h} : report'[g] = report[g]
  BY DEF LocationInv
<1>2. UNCHANGED <<clock, trip, pass, granted>>
  BY DEF Location!world
<1>3. \A g \in Reports : report[g].rooms \subseteq Bookings
  BY DEF LocationInv, Report
<1>4. \A g \in Reports : ReportInv(g)'
  BY <1>1, <1>2, <1>3 DEF LocationInv, ReportInv
<1>5. LetIn' /\ Location!HeardOnTrip'
  BY <1>2 DEF LocationInv, LetIn, Location!HeardOnTrip
<1> QED BY <1>1, <1>2, <1>4, <1>5 DEF LocationInv, Location!Time, Position

(* A report is stored, or only answered.                                   *)
LEMMA ReceiveStep ==
  ASSUME LocationInv, NEW h \in Reports, NEW d \in Drivers, NEW at \in Location!Time,
         Location!Receive(h, d, at)
  PROVE  LocationInv'
<1>1. driver' \in [Drivers -> Position]
  <2> DEFINE p == [online |-> TRUE, place |-> at, recorded |-> Location!WholeSecond(at),
                   updated |-> Location!WholeSecond(clock) + Shift]
  <2>1. \A t \in Location!Time : Location!WholeSecond(t) \in Int
    BY LocationAssumption DEF Location!WholeSecond, Location!Time
  <2>2. p \in Position
    BY <2>1, LocationAssumption DEF Position, LocationInv
  <2>3. driver' = driver \/ driver' = [driver EXCEPT ![d] = p]
    BY DEF Location!Receive, Location!Store
  <2> HIDE DEF p
  <2> QED BY <2>2, <2>3 DEF LocationInv
<1>2. /\ UNCHANGED Location!world /\ checked' = checked /\ room' = room
      /\ owed' = owed /\ heard' = heard
  BY DEF Location!Receive
<1>3. CASE report' = report
  <2>1. report' = [report EXCEPT ![h] = report[h]] /\ report[h] \in Report
    BY <1>3 DEF LocationInv
  <2> QED BY <1>1, <1>2, <2>1, ReportMoves DEF LocationInv, ReportInv
<1>4. CASE report' = [report EXCEPT ![h] = [Location!Idle EXCEPT !.pc = "stored", !.driver = d]]
  <2> DEFINE s == [Location!Idle EXCEPT !.pc = "stored", !.driver = d]
  <2>1. s \in Report /\ s.rooms = {} /\ s.driver = d
    BY DEF Location!Idle, Report
  <2>2. report' = [report EXCEPT ![h] = s]
    BY <1>4
  <2> HIDE DEF s
  <2> QED BY <1>1, <1>2, <2>1, <2>2, ReportMoves
<1> QED BY <1>3, <1>4 DEF Location!Receive

(* The rooms are listed, and the position is read.                         *)
LEMMA ListStep ==
  ASSUME LocationInv, NEW h \in Reports, Location!ListRooms(h) \/ Location!Snapshot(h)
  PROVE  LocationInv'
<1>1. /\ UNCHANGED Location!world /\ checked' = checked /\ room' = room
      /\ owed' = owed /\ heard' = heard /\ driver' = driver
  BY DEF Location!ListRooms, Location!Snapshot
<1>2. CASE Location!ListRooms(h)
  <2> DEFINE s == [report[h] EXCEPT !.pc = "listed", !.rooms = Location!RoomsOf(report[h].driver)]
  <2>1. Location!RoomsOf(report[h].driver) \subseteq Bookings
    BY DEF Location!RoomsOf
  <2>2. s \in Report /\ s.rooms = Location!RoomsOf(report[h].driver) /\ s.driver = report[h].driver
    BY <2>1 DEF LocationInv, Report
  <2>3. report' = [report EXCEPT ![h] = s]
    BY <1>2 DEF Location!ListRooms, LocationInv
  <2> HIDE DEF s
  <2>4. \A b \in s.rooms : trip[b].driver = s.driver /\ trip[b].status = "TRIP"
    BY <2>2 DEF Location!RoomsOf
  <2>5. report[h].driver \in Drivers
    BY <1>2 DEF Location!ListRooms, LocationInv, ReportInv
  <2> QED BY <1>1, <2>2, <2>3, <2>4, <2>5, ReportMoves DEF LocationInv
<1>3. CASE Location!Snapshot(h)
  <2> DEFINE place == driver[report[h].driver].place
             s == [report[h] EXCEPT !.pc = "read", !.place = place]
  <2>1. report' = [report EXCEPT ![h] = s]
    BY <1>3 DEF Location!Snapshot, LocationInv
  <2>2. place \in Location!Time \cup {None} /\ report[h].driver \in Drivers
    BY <1>3 DEF Location!Snapshot, LocationInv, ReportInv, Position
  <2>3. s \in Report /\ s.rooms = report[h].rooms /\ s.driver = report[h].driver
    BY <2>2 DEF LocationInv, Report
  <2> HIDE DEF s
  <2> QED BY <1>1, <2>1, <2>2, <2>3, ReportMoves DEF LocationInv, ReportInv
<1> QED BY <1>2, <1>3

(* The position is sent to the rooms that were listed: whoever of their    *)
(* drivers is no longer on the trip is owed it.                            *)
LEMMA EmitStep ==
  ASSUME LocationInv, NEW h \in Reports, Location!Emit(h)
  PROVE  LocationInv'
<1>1. /\ UNCHANGED Location!world /\ checked' = checked /\ room' = room /\ driver' = driver
      /\ owed' = {p \in owed : p[1] # h} /\ report' = [report EXCEPT ![h] = Location!Idle]
  BY DEF Location!Emit
<1>2. Location!Idle \in Report /\ Location!Idle.pc = "idle" /\ Location!Idle.rooms = {}
  BY DEF Location!Idle, Report
<1>3. \A g \in Reports \ {h} : \A b \in Bookings : <<g, b>> \in owed => <<g, b>> \in owed'
  BY <1>1
<1>4. ASSUME NEW m \in heard' \ heard
      PROVE  m.onTrip /\ <<m.rider, m.booking>> \in granted
  <2>1. PICK p \in {q \in Riders \X report[h].rooms : q[1] \in room[q[2]]} :
          m = [rider |-> p[1], booking |-> p[2],
               onTrip |-> p[2] \in Location!RoomsOnTrip(report[h].driver)
                          \/ <<h, p[2]>> \in owed]
    BY <1>4 DEF Location!Emit
  <2>2. p[2] \in report[h].rooms /\ p[1] \in room[p[2]] /\ p[2] \in Bookings
    BY DEF LocationInv, Report
  <2>3. p[2] \in Location!RoomsOnTrip(report[h].driver) \/ <<h, p[2]>> \in owed
    BY <2>2 DEF LocationInv, ReportInv, Location!RoomsOnTrip
  <2>4. <<p[1], p[2]>> \in granted
    BY <2>2 DEF LocationInv, LetIn
  <2> QED BY <2>1, <2>3, <2>4
<1>5. driver' \in [Drivers -> Position]
  BY <1>1 DEF LocationInv
<1> QED BY <1>1, <1>2, <1>3, <1>4, <1>5, ReportMoves

(* Riders are let in to a room, enter and leave it.                        *)
LEMMA ListenStep ==
  ASSUME LocationInv, NEW r \in Riders,
         \/ Location!Disconnect(r)
         \/ \E b \in Bookings : Location!Subscribe(r, b) \/ Location!Join(r, b)
  PROVE  LocationInv'
<1>1. UNCHANGED <<clock, trip, pass, granted, driver, report, owed, heard>>
  BY DEF Location!Disconnect, Location!Subscribe, Location!Join, Location!world
<1> DEFINE Entered == /\ checked' \subseteq Riders \X Bookings /\ checked' \subseteq granted
                      /\ room' \in [Bookings -> SUBSET Riders]
                      /\ \A b \in Bookings : \A q \in room'[b] : <<q, b>> \in granted
<1>2. Entered
  <2>1. CASE Location!Disconnect(r)
    BY <2>1 DEF Location!Disconnect, LocationInv, LetIn
  <2>2. ASSUME NEW b \in Bookings, Location!Subscribe(r, b)
        PROVE  Entered
    <3>1. pass[r].booking = b
      BY <2>2 DEF Location!Subscribe, Location!AccountOpens, Location!TokenOpens
    <3>2. <<r, b>> \in granted
      BY <3>1 DEF LocationInv, LetIn
    <3> QED BY <2>2, <3>2 DEF Location!Subscribe, LocationInv, LetIn
  <2>3. ASSUME NEW b \in Bookings, Location!Join(r, b)
        PROVE  Entered
    <3>1. <<r, b>> \in granted
      BY <2>3 DEF Location!Join, LocationInv, LetIn
    <3>2. /\ checked' \subseteq checked /\ room' = [room EXCEPT ![b] = room[b] \cup {r}]
      BY <2>3 DEF Location!Join
    <3> QED BY <3>1, <3>2 DEF LocationInv, LetIn
  <2> QED BY <2>1, <2>2, <2>3
<1>3. \A h \in Reports : ReportInv(h)'
  BY <1>1 DEF LocationInv, ReportInv
<1>4. LetIn' /\ Location!HeardOnTrip'
  BY <1>1, <1>2 DEF LocationInv, LetIn, Location!HeardOnTrip
<1> QED BY <1>1, <1>2, <1>3, <1>4 DEF LocationInv, Location!Time, Position

(* Every step keeps the invariant.                                         *)
LEMMA LocationKeeps ==
  ASSUME LocationInv, Location!Next
  PROVE  LocationInv'
BY TripStep, AroundStep, ReceiveStep, ListStep, EmitStep, ListenStep DEF Location!Next

(* The inductive invariant of the positions.                               *)
THEOREM LocationInvariance == AccountsSpec => []LocationInv
<1>1. AccountsInit => LocationInv
  <2> SUFFICES ASSUME Location!Init PROVE LocationInv
    BY DEF AccountsInit
  <2>1. 0 \in Location!Time
    BY LocationAssumption DEF Location!Time
  <2>2. driver \in [Drivers -> Position] /\ report \in [Reports -> Report]
    BY DEF Location!Init, Location!Idle, Position, Report
  <2>3. \A h \in Reports : report[h].rooms = {} /\ report[h].pc = "idle"
    BY DEF Location!Init, Location!Idle
  <2>4. trip \in [Bookings -> [status : Location!Status, driver : Drivers \cup {None}]]
    BY DEF Location!Init, Location!Status
  <2>5. pass \in [Riders -> Location!Pass]
    BY DEF Location!Init, Location!Pass
  <2>6. LetIn
    BY DEF Location!Init, LetIn
  <2> QED BY <2>1, <2>2, <2>3, <2>4, <2>5, <2>6
             DEF Location!Init, LocationInv, ReportInv, Location!HeardOnTrip
<1>2. [AccountsNext]_accountsVars => Location!Next \/ UNCHANGED locationVars
  BY DEF AccountsNext, SessionStep, ApplicationStep, SocialStep, LocationStep, SupportStep,
     accountsVars
<1>3. LocationInv /\ [AccountsNext]_accountsVars => LocationInv'
  BY <1>2, LocationKeeps, AroundStep
<1> QED BY <1>1, <1>3, PTL DEF AccountsSpec

(* A rider hears a driver in the room of a booking that was opened to the  *)
(* rider, while the driver is on its trip, but for the reports under way   *)
(* when the trip ended.                                                    *)
THEOREM RidersHearTheirTrip == AccountsSpec => []HeardOnTrip
<1>1. LocationInv => HeardOnTrip
  BY DEF LocationInv, HeardOnTrip
<1> QED BY <1>1, LocationInvariance, PTL

-----------------------------------------------------------------------------
(* Inquiries.                                                              *)

(* Nobody has set the status of c's inquiry.                               *)
ByReplies(c) == \A i \in DOMAIN byHand : byHand[i] # c

(* An inquiry is stored by the commit of its request and listed from then; *)
(* unless set by hand its status says whether anybody replied.             *)
InquiryInv(c) ==
  /\ opening[c].step \in {"new", "insert", "children"} => ~Support!Stored(c)
  /\ opening[c].step = "detail" => Support!Stored(c)
  /\ opening[c].step # "new" => opening[c].publicId \in PublicIds
  /\ order[c] > 0 <=> Support!Stored(c)
  /\ Support!Stored(c) => inquiry[c] \in Support!Row /\ Len(inquiry[c].messages) > 0
  /\ Support!Stored(c) /\ ByReplies(c) =>
       (inquiry[c].status = "NEW" <=> inquiry[c].messages = <<"CUSTOMER">>)
  /\ answer[c] # None => Support!Stored(c) /\ answer[c] = inquiry[c].publicId

(* A reply that read another status than NEW before its transaction writes *)
(* over none that is NEW.                                                  *)
ReplyInv(a) ==
  reply[a].step # "idle" =>
    LET c == reply[a].to
    IN /\ c \in Customers /\ Support!Stored(c)
       /\ ByReplies(c) /\ reply[a].saw # "NEW" => inquiry[c].status # "NEW"

SupportInv ==
  /\ Support!TypeOK
  /\ \A c \in Customers : InquiryInv(c)
  /\ \A a \in Admins : ReplyInv(a)

(* The types of the rows.                                                  *)
LEMMA SupportTypes ==
  ASSUME SupportInv
  PROVE  /\ inquiry \in [Customers -> Support!Row \cup {Support!NoInquiry}]
         /\ opening \in [Customers -> [step : {"new", "insert", "children", "detail", "done"},
                                       publicId : PublicIds \cup {None}, attempt : 0..2]]
         /\ answer \in [Customers -> PublicIds \cup {None}]
         /\ reply \in [Admins -> [step : {"idle", "read", "inserted"},
                                  to : Customers \cup {None}, saw : Support!STATUS_VALUES]]
         /\ order \in [Customers -> Nat]
         /\ byHand \in Seq(Customers)
BY DEF SupportInv, Support!TypeOK

(* The row of c is listed first, the others stay listed or not.            *)
LEMMA TouchedIs ==
  ASSUME SupportInv, NEW c \in Customers, order' = Support!Touched(c)
  PROVE  /\ order' \in [Customers -> Nat] /\ order'[c] = 1
         /\ \A d \in Customers \ {c} : order'[d] > 0 <=> order[d] > 0
BY SupportTypes DEF Support!Touched

(* Steps of an opening that store nothing.                                 *)
LEMMA OpeningMoves ==
  ASSUME SupportInv, NEW c \in Customers,
         UNCHANGED <<inquiry, reply, order, byHand>>,
         NEW o \in [step : {"new", "insert", "children", "detail", "done"},
                    publicId : PublicIds \cup {None}, attempt : 0..2],
         opening' = [opening EXCEPT ![c] = o],
         o.step \in {"insert", "children"} =>
           opening[c].step \in {"new", "insert"} /\ o.publicId \in PublicIds,
         o.step \notin {"new", "detail"}, o.step = "done" => opening[c].step # "new",
         o.step = "done" => o.publicId = opening[c].publicId,
         \/ answer' = answer
         \/ Support!Stored(c) /\ answer' = [answer EXCEPT ![c] = inquiry[c].publicId]
  PROVE  SupportInv'
<1>1. /\ opening' \in [Customers -> [step : {"new", "insert", "children", "detail", "done"},
                                     publicId : PublicIds \cup {None}, attempt : 0..2]]
      /\ opening'[c] = o /\ \A d \in Customers \ {c} : opening'[d] = opening[d]
  BY SupportTypes
<1>2. /\ answer' \in [Customers -> PublicIds \cup {None}]
      /\ \A d \in Customers : answer'[d] # None =>
           Support!Stored(d) /\ answer'[d] = inquiry[d].publicId
  <2>1. CASE answer' = answer
    BY <2>1, SupportTypes DEF SupportInv, InquiryInv
  <2>2. CASE Support!Stored(c) /\ answer' = [answer EXCEPT ![c] = inquiry[c].publicId]
    <3>1. inquiry[c].publicId \in PublicIds
      BY <2>2 DEF SupportInv, InquiryInv, Support!Row
    <3> QED BY <2>2, <3>1, SupportTypes DEF SupportInv, InquiryInv
  <2> QED BY <2>1, <2>2
<1>3. Support!TypeOK'
  BY <1>1, <1>2 DEF SupportInv, Support!TypeOK
<1>4. \A d \in Customers : InquiryInv(d)'
  <2> TAKE d \in Customers
  <2>1. CASE d = c
    BY <1>1, <1>2, <2>1, SupportTypes DEF SupportInv, InquiryInv, Support!Stored, ByReplies
  <2>2. CASE d # c
    BY <1>1, <1>2, <2>2 DEF SupportInv, InquiryInv, Support!Stored, ByReplies
  <2> QED BY <2>1, <2>2
<1>5. \A a \in Admins : ReplyInv(a)'
  BY DEF SupportInv, ReplyInv, Support!Stored, ByReplies
<1> QED BY <1>3, <1>4, <1>5 DEF SupportInv

(* Drawing the id, inserting, giving up, answering.                        *)
LEMMA OpeningStep ==
  ASSUME SupportInv, NEW c \in Customers,
         \/ Support!Create(c) \/ Support!InsertInquiry(c) \/ Support!RollBack(c)
         \/ Support!AnswerCustomer(c) \/ Support!AnswerLost(c)
  PROVE  SupportInv'
<1> DEFINE Opening == [step : {"new", "insert", "children", "detail", "done"},
                       publicId : PublicIds \cup {None}, attempt : 0..2]
           ends == [opening[c] EXCEPT !.step = "done"]
<1>1. opening[c] \in Opening /\ opening \in [Customers -> Opening]
  BY SupportTypes
<1>2. ends \in Opening /\ ends.step = "done" /\ ends.publicId = opening[c].publicId
  BY <1>1
<1>3. CASE /\ opening' = [opening EXCEPT ![c].step = "done"] /\ opening[c].step # "new"
           /\ UNCHANGED <<inquiry, reply, order, byHand>>
           /\ \/ answer' = answer
              \/ Support!Stored(c) /\ answer' = [answer EXCEPT ![c] = inquiry[c].publicId]
  <2>1. opening' = [opening EXCEPT ![c] = ends]
    BY <1>1, <1>3
  <2> HIDE DEF ends
  <2> QED BY <1>2, <1>3, <2>1, OpeningMoves
<1>4. CASE Support!Create(c)
  <2>1. PICK p \in PublicIds :
          opening' = [opening EXCEPT ![c].step = "insert", ![c].publicId = p]
    BY <1>4 DEF Support!Create
  <2> DEFINE o == [opening[c] EXCEPT !.step = "insert", !.publicId = p]
  <2>2. o \in Opening /\ o.step = "insert" /\ o.publicId = p
    BY <1>1
  <2>3. opening' = [opening EXCEPT ![c] = o]
    BY <1>1, <2>1
  <2> HIDE DEF o
  <2> QED BY <1>4, <2>2, <2>3, OpeningMoves DEF Support!Create
<1>5. CASE Support!InsertInquiry(c)
  <2>1. opening[c].step = "insert" /\ opening[c].publicId \in PublicIds
        /\ UNCHANGED <<inquiry, answer, reply, order, byHand>>
    BY <1>5 DEF Support!InsertInquiry, SupportInv, InquiryInv
  <2>2. CASE opening' = [opening EXCEPT ![c].step = "children"]
    <3> DEFINE o == [opening[c] EXCEPT !.step = "children"]
    <3>1. o \in Opening /\ o.step = "children" /\ o.publicId = opening[c].publicId
      BY <1>1
    <3>2. opening' = [opening EXCEPT ![c] = o]
      BY <1>1, <2>2
    <3> HIDE DEF o
    <3> QED BY <2>1, <3>1, <3>2, OpeningMoves
  <2>3. CASE /\ opening[c].attempt < 2
             /\ \E q \in PublicIds :
                  opening' = [opening EXCEPT ![c].publicId = q, ![c].attempt = @ + 1]
    <3>1. PICK q \in PublicIds :
            opening' = [opening EXCEPT ![c].publicId = q, ![c].attempt = @ + 1]
      BY <2>3
    <3> DEFINE o == [opening[c] EXCEPT !.publicId = q, !.attempt = opening[c].attempt + 1]
    <3>2. o \in Opening /\ o.step = opening[c].step /\ o.publicId = q
      BY <1>1, <2>3
    <3>3. opening' = [opening EXCEPT ![c] = o]
      BY <1>1, <3>1
    <3> HIDE DEF o
    <3> QED BY <2>1, <3>2, <3>3, OpeningMoves
  <2>4. CASE opening' = [opening EXCEPT ![c].step = "done"]
    BY <1>3, <2>1, <2>4
  <2> QED BY <1>5, <2>2, <2>3, <2>4 DEF Support!InsertInquiry
<1>6. CASE Support!RollBack(c) \/ Support!AnswerLost(c)
  BY <1>3, <1>6 DEF Support!RollBack, Support!AnswerLost
<1>7. CASE Support!AnswerCustomer(c)
  <2>1. Support!Stored(c)
    BY <1>7 DEF Support!AnswerCustomer, SupportInv, InquiryInv
  <2> QED BY <1>3, <1>7, <2>1 DEF Support!AnswerCustomer
<1> QED BY <1>4, <1>5, <1>6, <1>7

(* The inquiry is stored, with the customer's message.                     *)
LEMMA CommitStep ==
  ASSUME SupportInv, NEW c \in Customers, Support!CommitInquiry(c)
  PROVE  SupportInv'
<1> DEFINE row == [publicId |-> opening[c].publicId, status |-> "NEW",
                   messages |-> <<"CUSTOMER">>]
           o == [opening[c] EXCEPT !.step = "detail"]
<1>1. /\ opening[c].step = "children" /\ ~Support!Stored(c) /\ opening[c].publicId \in PublicIds
      /\ UNCHANGED <<answer, reply, byHand>> /\ answer[c] = None
  BY DEF Support!CommitInquiry, SupportInv, InquiryInv
<1>2. <<"CUSTOMER">> \in Seq({"CUSTOMER", "ADMIN"}) /\ Len(<<"CUSTOMER">>) = 1
  OBVIOUS
<1>3. row \in Support!Row /\ row.status = "NEW" /\ row.messages = <<"CUSTOMER">>
  BY <1>1, <1>2 DEF Support!Row, Support!STATUS_VALUES
<1>4. row # Support!NoInquiry
  <2>1. Support!NoInquiry.messages = <<>>
    BY DEF Support!NoInquiry
  <2>2. Len(<<>>) = 0
    OBVIOUS
  <2> HIDE DEF row
  <2>3. Len(row.messages) = 1 /\ Len(Support!NoInquiry.messages) = 0
    BY <1>2, <1>3, <2>1, <2>2
  <2> QED BY <2>3
<1>5. /\ o \in [step : {"new", "insert", "children", "detail", "done"},
               publicId : PublicIds \cup {None}, attempt : 0..2]
      /\ o.step = "detail" /\ o.publicId \in PublicIds
  BY <1>1, SupportTypes
<1>6. inquiry' = [inquiry EXCEPT ![c] = row] /\ opening' = [opening EXCEPT ![c] = o]
  BY SupportTypes DEF Support!CommitInquiry
<1> HIDE DEF row, o
<1>7. /\ order' \in [Customers -> Nat] /\ order'[c] = 1
      /\ \A d \in Customers \ {c} : order'[d] > 0 <=> order[d] > 0
  BY TouchedIs DEF Support!CommitInquiry
<1>8. /\ inquiry'[c] = row /\ opening'[c] = o
      /\ \A d \in Customers \ {c} : inquiry'[d] = inquiry[d] /\ opening'[d] = opening[d]
  BY <1>6, SupportTypes
<1>9. Support!TypeOK'
  BY <1>1, <1>3, <1>5, <1>6, <1>7, SupportTypes DEF Support!TypeOK
<1>10. \A d \in Customers : InquiryInv(d)'
  <2> TAKE d \in Customers
  <2>1. CASE d = c
    BY <1>1, <1>2, <1>3, <1>4, <1>5, <1>7, <1>8, <2>1
       DEF InquiryInv, Support!Stored, Support!NoInquiry
  <2>2. CASE d # c
    BY <1>1, <1>7, <1>8, <2>2
       DEF SupportInv, InquiryInv, Support!Stored, Support!NoInquiry, ByReplies
  <2> QED BY <2>1, <2>2
<1>11. \A a \in Admins : ReplyInv(a)'
  BY <1>1, <1>4, <1>8 DEF SupportInv, ReplyInv, Support!Stored, Support!NoInquiry, ByReplies
<1> QED BY <1>9, <1>10, <1>11 DEF SupportInv

(* A reply is read, written or rolled back.                                *)
LEMMA ReplyMoves ==
  ASSUME SupportInv, NEW a \in Admins,
         UNCHANGED <<inquiry, opening, answer, order, byHand>>,
         NEW s \in [step : {"idle", "read", "inserted"},
                    to : Customers \cup {None}, saw : Support!STATUS_VALUES],
         reply' = [reply EXCEPT ![a] = s],
         \/ s.step = "idle"
         \/ s.to \in Customers /\ Support!Stored(s.to) /\ s.saw = inquiry[s.to].status
         \/ s.to = reply[a].to /\ s.saw = reply[a].saw /\ reply[a].step # "idle"
  PROVE  SupportInv'
<1>1. /\ reply' \in [Admins -> [step : {"idle", "read", "inserted"},
                                to : Customers \cup {None}, saw : Support!STATUS_VALUES]]
      /\ reply'[a] = s /\ \A b \in Admins \ {a} : reply'[b] = reply[b]
  BY SupportTypes
<1>2. Support!TypeOK'
  BY <1>1 DEF SupportInv, Support!TypeOK
<1>3. \A c \in Customers : InquiryInv(c)'
  BY DEF SupportInv, InquiryInv, Support!Stored, ByReplies
<1>4. ReplyInv(a)'
  BY <1>1 DEF SupportInv, ReplyInv, Support!Stored, ByReplies
<1>5. \A b \in Admins \ {a} : ReplyInv(b)'
  BY <1>1 DEF SupportInv, ReplyInv, Support!Stored, ByReplies
<1> QED BY <1>2, <1>3, <1>4, <1>5 DEF SupportInv

(* An administrator reads, writes the message, or loses a deadlock.        *)
LEMMA ReplyStep ==
  ASSUME SupportInv, NEW a \in Admins,
         \/ \E c \in Customers : Support!ReadInquiry(a, c)
         \/ Support!InsertMessage(a) \/ Support!Deadlock(a)
  PROVE  SupportInv'
<1>1. UNCHANGED <<inquiry, opening, answer, order, byHand>>
  BY DEF Support!ReadInquiry, Support!InsertMessage, Support!Deadlock
<1>2. CASE \E c \in Customers : Support!ReadInquiry(a, c)
  <2>1. PICK c \in Customers : Support!ReadInquiry(a, c)
    BY <1>2
  <2> DEFINE s == [step |-> "read", to |-> c, saw |-> inquiry[c].status]
  <2>2. Support!Stored(c) /\ inquiry[c] \in Support!Row
    BY <2>1 DEF Support!ReadInquiry, SupportInv, InquiryInv
  <2>3. /\ s \in [step : {"idle", "read", "inserted"},
                  to : Customers \cup {None}, saw : Support!STATUS_VALUES]
        /\ s.to = c /\ s.saw = inquiry[c].status
    BY <2>2 DEF Support!Row
  <2>4. reply' = [reply EXCEPT ![a] = s]
    BY <2>1 DEF Support!ReadInquiry
  <2> HIDE DEF s
  <2> QED BY <1>1, <2>2, <2>3, <2>4, ReplyMoves
<1>3. CASE Support!InsertMessage(a)
  <2> DEFINE s == [reply[a] EXCEPT !.step = "inserted"]
  <2>1. /\ s \in [step : {"idle", "read", "inserted"},
                  to : Customers \cup {None}, saw : Support!STATUS_VALUES]
        /\ s.to = reply[a].to /\ s.saw = reply[a].saw
    BY SupportTypes
  <2>2. reply' = [reply EXCEPT ![a] = s] /\ reply[a].step = "read"
    BY <1>3, SupportTypes DEF Support!InsertMessage
  <2> HIDE DEF s
  <2> QED BY <1>1, <2>1, <2>2, ReplyMoves
<1>4. CASE Support!Deadlock(a)
  <2> DEFINE s == [step |-> "idle", to |-> None, saw |-> "NEW"]
  <2>1. /\ s \in [step : {"idle", "read", "inserted"},
                  to : Customers \cup {None}, saw : Support!STATUS_VALUES]
        /\ s.step = "idle"
    BY DEF Support!STATUS_VALUES
  <2>2. reply' = [reply EXCEPT ![a] = s]
    BY <1>4 DEF Support!Deadlock, Support!Idle
  <2> HIDE DEF s
  <2> QED BY <1>1, <2>1, <2>2, ReplyMoves
<1> QED BY <1>2, <1>3, <1>4

(* A stored row is written over: by a reply, or by hand.                   *)
LEMMA RowWritten ==
  ASSUME SupportInv, NEW c \in Customers, Support!Stored(c), order' = Support!Touched(c),
         NEW row \in Support!Row, inquiry' = [inquiry EXCEPT ![c] = row],
         UNCHANGED <<opening, answer>>,
         row.publicId = inquiry[c].publicId, Len(row.messages) > 0,
         reply' \in [Admins -> [step : {"idle", "read", "inserted"},
                                to : Customers \cup {None}, saw : Support!STATUS_VALUES]],
         \A b \in Admins : reply'[b] = reply[b] \/ reply'[b].step = "idle",
         byHand' \in Seq(Customers),
         \A d \in Customers : ByReplies(d)' => ByReplies(d),
         ByReplies(c)' => row.status # "NEW" /\ row.messages # <<"CUSTOMER">>
  PROVE  SupportInv'
<1>1. /\ order' \in [Customers -> Nat] /\ order'[c] = 1
      /\ \A d \in Customers \ {c} : order'[d] > 0 <=> order[d] > 0
  BY TouchedIs
<1>2. inquiry'[c] = row /\ \A d \in Customers \ {c} : inquiry'[d] = inquiry[d]
  BY SupportTypes
<1>3. row # Support!NoInquiry
  <2>1. Support!NoInquiry.messages = <<>> /\ Len(<<>>) = 0
    BY DEF Support!NoInquiry
  <2>2. Len(Support!NoInquiry.messages) = 0
    BY <2>1
  <2> QED BY <2>2
<1>4. Support!TypeOK'
  BY <1>1, SupportTypes DEF Support!TypeOK
<1>5. InquiryInv(c)'
  BY <1>1, <1>2, <1>3 DEF SupportInv, InquiryInv, Support!Stored, Support!NoInquiry
<1>6. \A d \in Customers \ {c} : InquiryInv(d)'
  BY <1>1, <1>2 DEF SupportInv, InquiryInv, Support!Stored, Support!NoInquiry
<1>7. \A b \in Admins : ReplyInv(b)'
  BY <1>2, <1>3 DEF SupportInv, ReplyInv, Support!Stored, Support!NoInquiry
<1> QED BY <1>4, <1>5, <1>6, <1>7 DEF SupportInv

(* The message is committed and the status follows the one read before.    *)
LEMMA UpdateStep ==
  ASSUME SupportInv, NEW a \in Admins, Support!UpdateAndCommit(a)
  PROVE  SupportInv'
<1> DEFINE c == reply[a].to
           next == Support!AfterReply(reply[a].saw, inquiry[c].status)
           more == Append(inquiry[c].messages, "ADMIN")
           row == [inquiry[c] EXCEPT !.messages = more, !.status = next]
<1>1. c \in Customers /\ Support!Stored(c) /\ inquiry[c] \in Support!Row
      /\ Len(inquiry[c].messages) > 0
  BY DEF Support!UpdateAndCommit, SupportInv, ReplyInv, InquiryInv
<1>2. inquiry[c].messages \in Seq({"CUSTOMER", "ADMIN"}) /\ inquiry[c].status \in Support!STATUS_VALUES
  BY <1>1 DEF Support!Row
<1>3. more \in Seq({"CUSTOMER", "ADMIN"}) /\ Len(more) = Len(inquiry[c].messages) + 1
  BY <1>2, AppendProperties
<1>4. more # <<"CUSTOMER">> /\ Len(more) > 0
  <2>1. Len(<<"CUSTOMER">>) = 1 /\ Len(inquiry[c].messages) \in Nat
    BY <1>2, LenProperties
  <2> HIDE DEF more, next, row
  <2>2. Len(more) # 1 /\ Len(more) > 0
    BY <1>1, <1>3, <2>1
  <2>3. more # <<"CUSTOMER">>
    <3>1. ASSUME more = <<"CUSTOMER">> PROVE Len(more) = 1
      BY <2>1, <3>1, Zenon
    <3> QED BY <2>2, <3>1, Zenon
  <2> QED BY <2>2, <2>3
<1>5. next \in Support!STATUS_VALUES
  BY <1>2 DEF Support!AfterReply, Support!STATUS_VALUES
<1>6. ByReplies(c) => next # "NEW"
  BY DEF Support!UpdateAndCommit, SupportInv, ReplyInv, Support!AfterReply
<1> HIDE DEF next, more
<1>7. row \in Support!Row /\ row.publicId = inquiry[c].publicId
      /\ row.status = next /\ row.messages = more
  BY <1>1, <1>3, <1>5 DEF Support!Row
<1>8. /\ inquiry' = [inquiry EXCEPT ![c] = row]
      /\ UNCHANGED <<opening, answer, byHand>> /\ order' = Support!Touched(c)
  BY <1>1, SupportTypes DEF Support!UpdateAndCommit, next, more
<1>9. /\ reply' \in [Admins -> [step : {"idle", "read", "inserted"},
                                to : Customers \cup {None}, saw : Support!STATUS_VALUES]]
      /\ \A b \in Admins : reply'[b] = reply[b] \/ reply'[b].step = "idle"
  BY SupportTypes DEF Support!UpdateAndCommit, Support!Idle, Support!STATUS_VALUES
<1>10. byHand' \in Seq(Customers) /\ \A d \in Customers : ByReplies(d)' <=> ByReplies(d)
  BY <1>8, SupportTypes DEF ByReplies
<1> HIDE DEF row, c
<1> QED BY <1>1, <1>4, <1>6, <1>7, <1>8, <1>9, <1>10, RowWritten

(* A status is set by hand.                                                *)
LEMMA ByHandStep ==
  ASSUME SupportInv, NEW c \in Customers, NEW next \in Support!STATUS_VALUES,
         Support!UpdateStatus(c, next)
  PROVE  SupportInv'
<1> DEFINE row == [inquiry[c] EXCEPT !.status = next]
<1>1. Support!Stored(c) /\ inquiry[c] \in Support!Row /\ Len(inquiry[c].messages) > 0
  BY DEF Support!UpdateStatus, SupportInv, InquiryInv
<1>2. row \in Support!Row /\ row.publicId = inquiry[c].publicId
      /\ row.messages = inquiry[c].messages
  BY <1>1 DEF Support!Row
<1>3. inquiry' = [inquiry EXCEPT ![c] = row] /\ UNCHANGED <<opening, answer, reply>>
      /\ order' = Support!Touched(c) /\ byHand' = Append(byHand, c)
  BY <1>1, SupportTypes DEF Support!UpdateStatus
<1> HIDE DEF row
<1>4. /\ byHand' \in Seq(Customers) /\ Len(byHand') = Len(byHand) + 1
      /\ \A i \in 1..Len(byHand) : byHand'[i] = byHand[i]
      /\ byHand'[Len(byHand) + 1] = c
  BY <1>3, SupportTypes, AppendProperties
<1>5. /\ DOMAIN byHand = 1..Len(byHand) /\ Len(byHand) \in Nat
      /\ DOMAIN byHand' = 1..(Len(byHand) + 1)
  BY <1>4, SupportTypes, LenProperties
<1>6. \A d \in Customers : ByReplies(d)' => ByReplies(d)
  BY <1>4, <1>5 DEF ByReplies
<1>7. ~ByReplies(c)'
  BY <1>4, <1>5 DEF ByReplies
<1>8. reply' \in [Admins -> [step : {"idle", "read", "inserted"},
                             to : Customers \cup {None}, saw : Support!STATUS_VALUES]]
  BY <1>3, SupportTypes
<1> QED BY <1>1, <1>2, <1>3, <1>4, <1>6, <1>7, <1>8, RowWritten

(* Every step keeps the invariant.                                         *)
LEMMA SupportKeeps ==
  ASSUME SupportInv, Support!Next
  PROVE  SupportInv'
BY OpeningStep, CommitStep, ReplyStep, UpdateStep, ByHandStep DEF Support!Next

(* The inductive invariant of the inquiries.                               *)
THEOREM SupportInvariance == AccountsSpec => []SupportInv
<1>1. AccountsInit => SupportInv
  <2> SUFFICES ASSUME Support!Init PROVE SupportInv
    BY DEF AccountsInit
  <2>1. Support!TypeOK
    BY EmptySeq DEF Support!Init, Support!TypeOK, Support!STATUS_VALUES
  <2> QED BY <2>1 DEF Support!Init, SupportInv, InquiryInv, ReplyInv, Support!Stored
<1>2. [AccountsNext]_accountsVars => Support!Next \/ UNCHANGED supportVars
  BY DEF AccountsNext, SessionStep, ApplicationStep, SocialStep, LocationStep, SupportStep,
     accountsVars
<1>3. ASSUME SupportInv, UNCHANGED supportVars PROVE SupportInv'
  BY <1>3 DEF SupportInv, Support!TypeOK, InquiryInv, ReplyInv, ByReplies, Support!Stored,
     supportVars, Support!Row
<1>4. SupportInv /\ [AccountsNext]_accountsVars => SupportInv'
  BY <1>2, <1>3, SupportKeeps
<1> QED BY <1>1, <1>4, PTL DEF AccountsSpec

(* Until a status is set by hand, the list of new inquiries holds exactly  *)
(* those nobody replied to, and what a customer was answered opens his.    *)
THEOREM InquiriesFound == AccountsSpec => []InquiriesAreFound
<1>1. SupportInv => InquiriesAreFound
  <2> SUFFICES ASSUME SupportInv, NEW c \in Customers
               PROVE  /\ Support!Stored(c) /\ ByReplies(c) =>
                           (c \in Support!ListAdmin("NEW")
                              <=> inquiry[c].messages = <<"CUSTOMER">>)
                      /\ answer[c] # None => Support!PublicDetail(answer[c], c) = {c}
    BY DEF InquiriesAreFound, Support!InquiriesAreFound, ByReplies
  <2>1. InquiryInv(c)
    BY DEF SupportInv
  <2> QED BY <2>1 DEF InquiryInv, Support!ListAdmin, Support!PublicDetail
<1> QED BY <1>1, SupportInvariance, PTL
=============================================================================
