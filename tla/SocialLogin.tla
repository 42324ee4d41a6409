----------------------------- MODULE SocialLogin ----------------------------
(***************************************************************************)
(* Signing in with Google, Kakao or LINE: an identity of a provider is     *)
(* linked to an account the first time it signs in, to the customer with   *)
(* its email if there is one, else to a new account; the account and the   *)
(* link are written by two transactions, and another sign-in or a          *)
(* registration may come between any two queries.                          *)
(***************************************************************************)
EXTENDS Integers, Sequences, FiniteSets

CONSTANTS Logins,          \* concurrent sign-ins
          Google, Others,  \* identities at Google, at Kakao or LINE
          Emails, None,
          MaxUsers         \* bound on the accounts

Identities == Google \cup Others

VARIABLES
  users,     \* rows of users
  links,     \* rows of social_accounts: identity -> user
  login,     \* Logins -> where the sign-in is
  sessions,  \* history: which identity was answered a session of which user
  cut        \* history: identities whose sign-in failed before the link

vars == <<users, links, login, sessions, cut>>

(* buildSocialPlaceholderEmail: an account needs an email.                 *)
Placeholder(id) == [placeholder |-> id]
User == [email: Emails \cup {Placeholder(id) : id \in Identities},
         role: {"CUSTOMER", "DRIVER"}]

(* What the providers answer for an identity: Google an email when it is   *)
(* verified (a sign-in without one is refused later), Kakao and LINE the   *)
(* email the customer agreed to share, which may differ from time to time. *)
GoogleProfiles == {[id |-> i, email |-> e] : i \in Google, e \in Emails \cup {None}}
OtherProfiles == {[id |-> i, email |-> e] : i \in Others, e \in Emails \cup {None}}
Profiles == GoogleProfiles \cup OtherProfiles

Login == [pc: {"idle", "link?", "email?", "create", "link", "enter"},
          id: Identities, email: Emails \cup {None}, user: 0..MaxUsers]
AnyIdentity == CHOOSE i \in Identities : TRUE
Idle == [pc |-> "idle", id |-> AnyIdentity, email |-> None, user |-> 0]

TypeOK ==
  /\ users \in Seq(User) /\ Len(users) <= MaxUsers
  /\ DOMAIN links \subseteq Identities
  /\ \A i \in DOMAIN links : links[i] \in DOMAIN users
  /\ login \in [Logins -> Login]
  /\ sessions \subseteq Identities \X DOMAIN users /\ cut \subseteq Identities

Init ==
  /\ users = <<>> /\ links = [i \in {} |-> 0]
  /\ login = [l \in Logins |-> Idle]
  /\ sessions = {} /\ cut = {}

-----------------------------------------------------------------------------
WithEmail(e) == {u \in DOMAIN users : users[u].email = e}
AccountEmail(l) == IF login[l].email = None THEN Placeholder(login[l].id)
                   ELSE login[l].email
Goto(l, pc, u) == login' = [login EXCEPT ![l].pc = pc, ![l].user = u]
Quit(l) == login' = [login EXCEPT ![l] = Idle]

(* loginWithGoogle, loginWithKakao, loginWithLine: the provider answered.  *)
Start(l, profile) ==
  /\ login[l].pc = "idle"
  /\ login' = [login EXCEPT ![l] = [pc |-> "link?", id |-> profile.id,
                                    email |-> profile.email, user |-> 0]]
  /\ UNCHANGED <<users, links, sessions, cut>>

(* findByProviderUserId.                                                   *)
FindLink(l) ==
  LET id == login[l].id
  IN /\ login[l].pc = "link?"
     /\ \/ id \in DOMAIN links /\ Goto(l, "enter", links[id])
        \/ id \notin DOMAIN links /\ id \in Google /\ login[l].email = None /\ Quit(l)
        \/ /\ id \notin DOMAIN links
           /\ id \in Google => login[l].email # None
           /\ Goto(l, IF login[l].email = None THEN "create" ELSE "email?", 0)
     /\ UNCHANGED <<users, links, sessions, cut>>

(* findByEmail: only a customer's account is linked.                       *)
FindEmail(l) ==
  LET found == WithEmail(login[l].email)
  IN /\ login[l].pc = "email?"
     /\ \/ found = {} /\ Goto(l, "create", 0)
        \/ \E u \in found : users[u].role = "CUSTOMER" /\ Goto(l, "link", u)
        \/ \E u \in found : users[u].role # "CUSTOMER" /\ Quit(l)
     /\ UNCHANGED <<users, links, sessions, cut>>

(* createSocialCustomerWithProfile: the email may have been taken since.   *)
CreateUser(l) ==
  /\ login[l].pc = "create"
  /\ \/ WithEmail(AccountEmail(l)) # {} /\ Quit(l) /\ UNCHANGED users
     \/ /\ WithEmail(AccountEmail(l)) = {} /\ Len(users) < MaxUsers
        /\ users' = Append(users, [email |-> AccountEmail(l), role |-> "CUSTOMER"])
        /\ Goto(l, "link", Len(users'))
  /\ UNCHANGED <<links, sessions, cut>>

(* Mutant of CreateLink: INSERT IGNORE, and on to the session.             *)
CreateLinkIgnore(l) ==
  /\ login[l].pc = "link"
  /\ links' = [i \in DOMAIN links \cup {login[l].id} |->
                 IF i \in DOMAIN links THEN links[i] ELSE login[l].user]
  /\ Goto(l, "enter", login[l].user)
  /\ UNCHANGED <<users, sessions, cut>>

(* SocialAccountRepository.create: an identity is linked once; whoever     *)
(* comes second is refused, though the account exists.                     *)
CreateLink(l) ==
  /\ login[l].pc = "link"
  /\ \/ login[l].id \in DOMAIN links /\ Quit(l) /\ UNCHANGED links
     \/ /\ login[l].id \notin DOMAIN links
        /\ links' = [i \in DOMAIN links \cup {login[l].id} |->
                       IF i \in DOMAIN links THEN links[i] ELSE login[l].user]
        /\ Goto(l, "enter", login[l].user)
  /\ UNCHANGED <<users, sessions, cut>>

(* _loginExistingUser, buildAuthResponse.                                  *)
Enter(l) ==
  /\ login[l].pc = "enter"
  /\ sessions' = IF users[login[l].user].role = "CUSTOMER"
                 THEN sessions \cup {<<login[l].id, login[l].user>>} ELSE sessions
  /\ Quit(l)
  /\ UNCHANGED <<users, links, cut>>

(* A query fails or the server stops.                                      *)
Fail(l) ==
  /\ login[l].pc # "idle" /\ Quit(l)
  /\ cut' = IF login[l].pc = "link" THEN cut \cup {login[l].id} ELSE cut
  /\ UNCHANGED <<users, links, sessions>>

(* A registration with a password, or an approved driver.                  *)
Register(e, role) ==
  /\ WithEmail(e) = {} /\ Len(users) < MaxUsers
  /\ users' = Append(users, [email |-> e, role |-> role])
  /\ UNCHANGED <<links, login, sessions, cut>>

Next ==
  \/ \E l \in Logins : \/ \E p \in Profiles : Start(l, p)
                       \/ FindLink(l) \/ FindEmail(l) \/ CreateUser(l)
                       \/ CreateLink(l) \/ Enter(l) \/ Fail(l)
  \/ \E e \in Emails, role \in {"CUSTOMER", "DRIVER"} : Register(e, role)

Spec == Init /\ [][Next]_vars

-----------------------------------------------------------------------------
(* However its sign-ins interleave, and whatever emails its provider gives,*)
(* an identity only ever enters one account; and it is kept out (its       *)
(* placeholder email taken by an account that nothing will ever link) only *)
(* if one of its sign-ins failed between the account and the link.         *)
IdentityIsOneAccount ==
  /\ \A s, t \in sessions : s[1] = t[1] => s[2] = t[2]
  /\ \A i \in Identities \ (DOMAIN links \cup cut) :
       WithEmail(Placeholder(i)) # {} => \E l \in Logins : login[l].pc = "link"
                                                            /\ login[l].id = i
=============================================================================
