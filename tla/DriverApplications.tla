-------------------------- MODULE DriverApplications ------------------------
(***************************************************************************)
(* How a driver comes to exist and to have vehicles: the applications, the *)
(* accounts and drivers that approvals create, the vehicles drivers add,   *)
(* and the profiles that drivers and customers edit.                       *)
(*                                                                         *)
(* A submission and an approval begin with a locking search of users by    *)
(* email, a column without an index: InnoDB locks every row of users, and  *)
(* whoever else locks one of them waits.  That lock is taken before the    *)
(* locks on applications by a submission, after the lock on its own        *)
(* application by an approval or a resubmission.  The handlers that lock a *)
(* row of users first and change something once are one step each.         *)
(***************************************************************************)
EXTENDS Integers, Sequences, FiniteSets

CONSTANTS Tasks,            \* concurrent submissions and approvals
          Emails, Phones, Plates,
          Types,            \* vehicle types drivers may register
          None,
          MaxApplications,  \* bound on the applications
          MaxUsers,         \* bound on the accounts
          MaxVehicles       \* bound on the vehicles

VARIABLES
  applications,  \* rows of driver_applications, oldest first
  users,         \* rows of users
  drivers,       \* rows of drivers, by the user they belong to
  vehicles,      \* rows of driver_vehicles
  usersLock,     \* the transaction that has locked users, or None
  task           \* Tasks -> where the transaction is

tables == <<applications, users, drivers, vehicles>>
vars == <<tables, usersLock, task>>

(* driverLocalEmail: an applicant without an email gets one made from his  *)
(* phone number.                                                           *)
LocalEmail(p) == [local |-> p]
Addresses == Emails \cup {LocalEmail(p) : p \in Phones}

Form == [email: Emails \cup {None}, phone: Phones, plate: Plates, type: Types]
Address(f) == IF f.email = None THEN LocalEmail(f.phone) ELSE f.email

Application == [email: Addresses, phone: Phones, plate: Plates, type: Types,
                status: {"PENDING", "APPROVED", "REJECTED"},
                account: 0..MaxUsers]        \* 0 is NULL
User == [email: Addresses, phone: Phones, role: {"CUSTOMER", "DRIVER"}]
Driver == [phone: Phones, type: Types]
Vehicle == [driver: 1..MaxUsers, plate: Plates, type: Types,
            primary: BOOLEAN, active: BOOLEAN,
            approval: {"PENDING", "APPROVED", "REJECTED"}]
Task == [pc: {"idle", "submit", "approve", "searched", "checked"},
         row: 0..MaxApplications,            \* the application it has locked
         form: Form]

TypeOK ==
  /\ applications \in Seq(Application) /\ Len(applications) <= MaxApplications
  /\ users \in Seq(User) /\ Len(users) <= MaxUsers
  /\ DOMAIN drivers \subseteq DOMAIN users
  /\ \A u \in DOMAIN drivers : drivers[u] \in Driver
  /\ vehicles \in Seq(Vehicle) /\ Len(vehicles) <= MaxVehicles
  /\ usersLock \in Tasks \cup {None}
  /\ task \in [Tasks -> Task]

AnyForm == CHOOSE f \in Form : TRUE
Idle == [pc |-> "idle", row |-> 0, form |-> AnyForm]

Init ==
  /\ applications = <<>> /\ users = <<>> /\ vehicles = <<>>
  /\ drivers = [u \in {} |-> AnyForm]
  /\ usersLock = None
  /\ task = [t \in Tasks |-> Idle]

-----------------------------------------------------------------------------
(* Rows and locks.                                                         *)

WithStatus(s) == {i \in DOMAIN applications : applications[i].status = s}
RowFree(i, t) == \A u \in Tasks \ {t} : task[u].row # i
EmailTaken(e) == \E u \in DOMAIN users : users[u].email = e
PhoneTaken(p) == \E u \in DOMAIN users : users[u].phone = p
PlateTaken(x) == \E v \in DOMAIN vehicles : vehicles[v].plate = x
DriverPhone(p) == \E u \in DOMAIN users :
                    users[u].phone = p /\ users[u].role = "DRIVER"

(* The applications that the three locking searches for pending ones read. *)
Alike(f) == {i \in DOMAIN applications :
               \/ applications[i].email = Address(f)
               \/ applications[i].phone = f.phone
               \/ applications[i].plate = f.plate}

(* The bound on applications counts the ones being submitted.              *)
Room == Len(applications) + Cardinality({t \in Tasks :
                              task[t].pc \in {"submit", "searched", "checked"}}) < MaxApplications

End(t) ==
  /\ task' = [task EXCEPT ![t] = Idle]
  /\ usersLock' = IF usersLock = t THEN None ELSE usersLock

-----------------------------------------------------------------------------
(* Applying.                                                               *)

(* submit: no lock yet.                                                    *)
Submit(t, f) ==
  /\ task[t].pc = "idle" /\ Room
  /\ task' = [task EXCEPT ![t] = [pc |-> "submit", row |-> 0, form |-> f]]
  /\ UNCHANGED <<tables, usersLock>>

(* resubmit: the rejected application is locked first.                     *)
Resubmit(t, f, i) ==
  /\ task[t].pc = "idle" /\ Room
  /\ i \in WithStatus("REJECTED") /\ RowFree(i, t)
  /\ task' = [task EXCEPT ![t] = [pc |-> "submit", row |-> i, form |-> f]]
  /\ UNCHANGED <<tables, usersLock>>

(* Mutant of LockUsers: a plain search, which locks nothing.               *)
LockUsersPlain(t) ==
  /\ task[t].pc = "submit"
  /\ IF EmailTaken(Address(task[t].form)) \/ DriverPhone(task[t].form.phone)
     THEN End(t)
     ELSE task' = [task EXCEPT ![t].pc = "searched"] /\ UNCHANGED usersLock
  /\ UNCHANGED tables

(* ensureCanSubmit, the searches of users.                                 *)
LockUsers(t) ==
  /\ task[t].pc = "submit" /\ usersLock = None
  /\ IF EmailTaken(Address(task[t].form)) \/ DriverPhone(task[t].form.phone)
     THEN End(t)
     ELSE task' = [task EXCEPT ![t].pc = "searched"] /\ usersLock' = t
  /\ UNCHANGED tables

(* ensureCanSubmit, the searches of applications and vehicles, which wait  *)
(* for whoever holds an application like this one.                         *)
CanSubmit(f) ==
  /\ Alike(f) \cap WithStatus("PENDING") = {}
  /\ \A i \in WithStatus("APPROVED") : applications[i].email # Address(f)
  /\ ~PlateTaken(f.plate)

Search(t) ==
  /\ task[t].pc = "searched"
  /\ \A i \in Alike(task[t].form) : RowFree(i, t)
  /\ IF CanSubmit(task[t].form)
     THEN task' = [task EXCEPT ![t].pc = "checked"] /\ UNCHANGED usersLock
     ELSE End(t)
  /\ UNCHANGED tables

(* The new application and the commit.  No unique key is in the way: the   *)
(* application number is random.                                           *)
Insert(t) ==
  LET f == task[t].form
  IN /\ task[t].pc = "checked"
     /\ applications' = Append(applications,
            [email |-> Address(f), phone |-> f.phone, plate |-> f.plate,
             type |-> f.type, status |-> "PENDING", account |-> 0])
     /\ End(t)
     /\ UNCHANGED <<users, drivers, vehicles>>

-----------------------------------------------------------------------------
(* Reviewing.                                                              *)

(* approve: a pending application is locked.                               *)
Approve(t, i) ==
  /\ task[t].pc = "idle"
  /\ i \in WithStatus("PENDING") /\ RowFree(i, t)
  /\ task' = [task EXCEPT ![t] = [Idle EXCEPT !.pc = "approve", !.row = i]]
  /\ UNCHANGED <<tables, usersLock>>

(* The unique keys on users (email, phone of any role) and on vehicles.    *)
MayCreate(a) == ~EmailTaken(a.email) /\ ~PhoneTaken(a.phone) /\ ~PlateTaken(a.plate)

(* approve: the account, the driver and his vehicle, or a conflict, which  *)
(* leaves the application pending.                                         *)
Create(t) ==
  LET a == applications[task[t].row]
      u == Len(users) + 1
  IN /\ task[t].pc = "approve" /\ usersLock = None
     /\ IF MayCreate(a) /\ u <= MaxUsers /\ Len(vehicles) < MaxVehicles
        THEN /\ users' = Append(users, [email |-> a.email, phone |-> a.phone,
                                        role |-> "DRIVER"])
             /\ drivers' = [v \in DOMAIN drivers \cup {u} |->
                              IF v = u THEN [phone |-> a.phone, type |-> a.type]
                              ELSE drivers[v]]
             /\ vehicles' = Append(vehicles,
                              [driver |-> u, plate |-> a.plate, type |-> a.type,
                               primary |-> TRUE, active |-> TRUE,
                               approval |-> "APPROVED"])
             /\ applications' = [applications EXCEPT
                                   ![task[t].row] = [@ EXCEPT !.status = "APPROVED",
                                                              !.account = u]]
        ELSE UNCHANGED tables
     /\ End(t)

(* reject.                                                                 *)
Reject(i) ==
  /\ i \in WithStatus("PENDING") /\ RowFree(i, None)
  /\ applications' = [applications EXCEPT ![i].status = "REJECTED"]
  /\ UNCHANGED <<users, drivers, vehicles, usersLock, task>>

(* A submission waits for an application while its holder waits for users: *)
(* the database rolls either back.                                         *)
Deadlock(t, u) ==
  /\ task[t].pc = "searched" /\ usersLock = t
  /\ task[u].pc \in {"submit", "approve"} /\ task[u].row \in Alike(task[t].form)
  /\ \E victim \in {t, u} : End(victim)
  /\ UNCHANGED tables

-----------------------------------------------------------------------------
(* Accounts and vehicles.  Each handler locks a row of users.              *)

UsersFree == usersLock = None /\ UNCHANGED <<usersLock, task, applications>>

(* register.                                                               *)
Register(e, p) ==
  /\ UsersFree /\ Len(users) < MaxUsers
  /\ ~EmailTaken(e) /\ ~PhoneTaken(p)
  /\ users' = Append(users, [email |-> e, phone |-> p, role |-> "CUSTOMER"])
  /\ UNCHANGED <<drivers, vehicles>>

(* CustomerProfileService.updateProfile.                                   *)
ChangeCustomerPhone(u, p) ==
  /\ UsersFree
  /\ u \in DOMAIN users \ DOMAIN drivers /\ ~PhoneTaken(p)
  /\ users' = [users EXCEPT ![u].phone = p]
  /\ UNCHANGED <<drivers, vehicles>>

(* DriverProfileService.updateProfile: the phone is stored twice.          *)
ChangeDriverPhone(u, p) ==
  /\ UsersFree
  /\ u \in DOMAIN drivers /\ ~PhoneTaken(p)
  /\ drivers' = [drivers EXCEPT ![u].phone = p]
  /\ users' = [users EXCEPT ![u].phone = p]
  /\ UNCHANGED vehicles

Primary(u) == {v \in DOMAIN vehicles : vehicles[v].driver = u
                                       /\ vehicles[v].primary /\ vehicles[v].active}

(* DriverProfileService.updateProfile: the primary vehicle is edited in    *)
(* place, and keeps its approval; the driver's type follows it.            *)
ChangeVehicle(u, x, y) ==
  /\ UsersFree
  /\ u \in DOMAIN drivers
  /\ \E v \in Primary(u) :
       /\ x # vehicles[v].plate => ~PlateTaken(x)
       /\ vehicles' = [vehicles EXCEPT ![v].plate = x, ![v].type = y]
  /\ drivers' = [drivers EXCEPT ![u].type = y]
  /\ UNCHANGED users

(* DriverVehicleService.createVehicle.                                     *)
AddVehicle(u, x, y) ==
  /\ UsersFree
  /\ u \in DOMAIN drivers /\ Len(vehicles) < MaxVehicles /\ ~PlateTaken(x)
  /\ vehicles' = Append(vehicles, [driver |-> u, plate |-> x, type |-> y,
                                   primary |-> FALSE, active |-> FALSE,
                                   approval |-> "PENDING"])
  /\ UNCHANGED <<users, drivers>>

(* DriverVehicleService.approve, reject.                                   *)
ReviewVehicle(v, approval) ==
  /\ v \in DOMAIN vehicles /\ vehicles[v].approval = "PENDING"
  /\ vehicles' = [vehicles EXCEPT ![v].approval = approval,
                                  ![v].active = approval = "APPROVED"]
  /\ UNCHANGED <<applications, users, drivers, usersLock, task>>

Next ==
  \/ \E t \in Tasks :
       \/ \E f \in Form : Submit(t, f) \/ \E i \in DOMAIN applications : Resubmit(t, f, i)
       \/ LockUsers(t) \/ Search(t) \/ Insert(t) \/ Create(t)
       \/ \E i \in DOMAIN applications : Approve(t, i)
       \/ \E u \in Tasks : Deadlock(t, u)
  \/ \E i \in DOMAIN applications : Reject(i)
  \/ \E p \in Phones : \/ \E e \in Emails : Register(e, p)
                       \/ \E u \in DOMAIN users : ChangeCustomerPhone(u, p)
                                                  \/ ChangeDriverPhone(u, p)
  \/ \E u \in DOMAIN users, x \in Plates, y \in Types : ChangeVehicle(u, x, y)
                                                        \/ AddVehicle(u, x, y)
  \/ \E v \in DOMAIN vehicles : \E s \in {"APPROVED", "REJECTED"} : ReviewVehicle(v, s)

Spec == Init /\ [][Next]_vars

-----------------------------------------------------------------------------
(* Nobody is reviewed twice at once: two pending applications share no     *)
(* email, phone or plate, however many are submitted at the same time and  *)
(* although no unique key forbids it.                                      *)
OnePendingEach ==
  \A i, j \in WithStatus("PENDING") :
    i # j => /\ applications[i].email # applications[j].email
             /\ applications[i].phone # applications[j].phone
             /\ applications[i].plate # applications[j].plate

(* Exactly the approved applications have an account, each its own, with   *)
(* the email that was approved; the account is a driver's, who has the     *)
(* same phone in both tables and one primary vehicle in use, approved and  *)
(* of the type that dispatch reads from the driver's row.                  *)
ApprovedIsDriver ==
  /\ \A i \in DOMAIN applications :
       applications[i].account # 0 <=> applications[i].status = "APPROVED"
  /\ \A i, j \in WithStatus("APPROVED") :
       i # j => applications[i].account # applications[j].account
  /\ \A i \in WithStatus("APPROVED") :
       LET u == applications[i].account
       IN /\ u \in DOMAIN drivers
          /\ users[u].role = "DRIVER" /\ users[u].email = applications[i].email
          /\ users[u].phone = drivers[u].phone
          /\ \E v \in Primary(u) : /\ Primary(u) = {v}
                                   /\ vehicles[v].approval = "APPROVED"
                                   /\ vehicles[v].type = drivers[u].type
=============================================================================
