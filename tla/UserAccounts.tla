------------------------------ MODULE UserAccounts -----------------------------
(***************************************************************************)
(* Accounts and what they open: a driver's sessions (Sessions), his        *)
(* application (DriverApplications) and his position on a trip             *)
(* (DriverLocation); a customer's social sign-in (SocialLogin) and his     *)
(* inquiries (SupportInquiry).  The five keep rows of their own and take   *)
(* their steps in any order.                                               *)
(***************************************************************************)
EXTENDS Sessions

CONSTANTS
  Tasks, Emails, Phones, Plates, Types, MaxApplications, MaxUsers, MaxVehicles,
  Logins, Google, Others, Mailboxes, MaxCustomers,
  Drivers, Bookings, Riders, Reports,
  Second, Shift, Fresh, MaxAge, MaxAhead, MaxTime,
  Customers, Admins, PublicIds, MaxMessages, MaxByHand

VARIABLES
  applications, users, drivers, vehicles, usersLock, task,
  customers, links, login, sessions, cut,
  clock, driver, trip, pass, checked, room, report, granted, owed, heard,
  inquiry, opening, answer, reply, order, byHand

applicationVars == <<applications, users, drivers, vehicles, usersLock, task>>
socialVars == <<customers, links, login, sessions, cut>>
locationVars == <<clock, driver, trip, pass, checked, room, report, granted, owed, heard>>
supportVars == <<inquiry, opening, answer, reply, order, byHand>>
accountsVars == <<vars, applicationVars, socialVars, locationVars, supportVars>>

Applications == INSTANCE DriverApplications

Social == INSTANCE SocialLogin WITH
  Emails <- Mailboxes, MaxUsers <- MaxCustomers, users <- customers

Location == INSTANCE DriverLocation

Support == INSTANCE SupportInquiry

(* The e-mail made for an identity that has none is nobody's mailbox.      *)
ASSUME SocialAssumption ==
  /\ Google \cup Others # {} /\ MaxCustomers \in Nat
  /\ \A i \in Google \cup Others : Social!Placeholder(i) \notin Mailboxes

(* There is something to apply with; seconds have parts; nobody is None.   *)
ASSUME ApplicationAssumption ==
  /\ None \notin Tasks /\ MaxUsers \in Nat
  /\ Phones # {} /\ Plates # {} /\ Types # {}
ASSUME LocationAssumption == Second \in Nat \ {0} /\ Shift \in Nat /\ MaxTime \in Nat
ASSUME SupportAssumption == None \notin Customers \cup PublicIds

-----------------------------------------------------------------------------
AccountsInit ==
  Init /\ Applications!Init /\ Social!Init /\ Location!Init /\ Support!Init

SessionStep ==
  Next /\ UNCHANGED <<applicationVars, socialVars, locationVars, supportVars>>
ApplicationStep ==
  Applications!Next /\ UNCHANGED <<vars, socialVars, locationVars, supportVars>>
SocialStep ==
  Social!Next /\ UNCHANGED <<vars, applicationVars, locationVars, supportVars>>
LocationStep ==
  Location!Next /\ UNCHANGED <<vars, applicationVars, socialVars, supportVars>>
SupportStep ==
  Support!Next /\ UNCHANGED <<vars, applicationVars, socialVars, locationVars>>
AccountsNext ==
  SessionStep \/ ApplicationStep \/ SocialStep \/ LocationStep \/ SupportStep

AccountsSpec == AccountsInit /\ [][AccountsNext]_accountsVars

-----------------------------------------------------------------------------
(* PROPERTIES of the parts that are instances.                             *)

(* However submissions and approvals overlap, no email, phone or plate     *)
(* waits in two applications, and exactly the approved ones have an        *)
(* account, each its own, with a driver and his one primary vehicle.       *)
ApplicationsAreSettled == Applications!OnePendingEach /\ Applications!ApprovedIsDriver

(* An identity of a social provider only ever enters one account, and is   *)
(* kept out of it only if a sign-in failed between account and link.       *)
IdentityIsOneAccount == Social!IdentityIsOneAccount

(* A rider hears a driver in the room of a booking that was opened to the  *)
(* rider, while the driver is on its trip, but for the reports under way   *)
(* when the trip ended.                                                    *)
HeardOnTrip == Location!HeardOnTrip

(* Until a status is set by hand, the list of new inquiries holds exactly  *)
(* those nobody replied to, and what a customer was answered opens his     *)
(* inquiry.                                                                *)
InquiriesAreFound == Support!InquiriesAreFound
=============================================================================
