------------------------------ MODULE Accounts ------------------------------
(***************************************************************************)
(* The accounts of the staff: signing in, managing each other, and the     *)
(* links that let somebody choose a new password.                          *)
(*                                                                         *)
(* A session is a signed token that carries the role its owner had when it *)
(* was issued; the server keeps nothing of it and it outlives a restart.   *)
(* A reset link is kept in the memory of the process and does not.  A      *)
(* handler that changes an account reads it, asks whether it is the last   *)
(* super admin, and then writes: three statements, no transaction.         *)
(***************************************************************************)
EXTENDS Naturals, FiniteSets

CONSTANTS
  User,          \* identifiers of rows of users
  Email,
  Given,         \* the roles a super admin gives in this instance
  Link,          \* reset tokens; a token is never issued twice
  Handler,       \* handlers that can be in flight
  Null

Roles == {"super_admin", "admin", "konsultan", "tour_leader"}

ASSUME GivenAssumption == Given \subseteq Roles
ASSUME NoAccountAssumption == Null \notin User \cup Email \cup Roles \cup Handler

VARIABLES
  user,          \* the rows of users
  staff,         \* the sessions that are out, with the role they carry
  link,          \* resetTokens, and what became of each
  job,           \* the handlers in flight
  raced,         \* history: an account was written from an outdated reading
  emptied,       \* history: the seeding command left no active super admin
  resets         \* history: how often each link set a password

accountVars == <<user, staff, link, job, raced, emptied, resets>>

UserRow == [email : Email \cup {Null}, role : Roles \cup {Null}, active : BOOLEAN]

NoUser == [email |-> Null, role |-> Null, active |-> FALSE]

Resting == [pc |-> "idle", on |-> Null, row |-> NoUser, via |-> Null, stale |-> FALSE]

Job == [pc : {"idle", "check", "update", "off", "lookup", "set"},
        on : User \cup {Null}, row : [email : Email \cup {Null},
                                     role : Roles \cup {Null}, active : BOOLEAN],
        via : Link \cup {Null}, stale : BOOLEAN]

LinkRow == [state : {"new", "fresh", "expired", "gone"}, email : Email \cup {Null}]

AccountsTypeOK ==
  /\ user \in [User -> UserRow]
  /\ staff \subseteq [who : User, role : Roles]
  /\ link \in [Link -> LinkRow]
  /\ job \in [Handler -> Job]
  /\ raced \in BOOLEAN
  /\ emptied \in BOOLEAN
  /\ resets \in [Link -> Nat]

AccountsInit ==
  /\ user = [u \in User |-> NoUser]
  /\ staff = {}
  /\ link = [k \in Link |-> [state |-> "new", email |-> Null]]
  /\ job = [r \in Handler |-> Resting]
  /\ raced = FALSE
  /\ emptied = FALSE
  /\ resets = [k \in Link |-> 0]

-----------------------------------------------------------------------------
JobAt(r, s) == job[r].pc = s

Begin(r, j) == JobAt(r, "idle") /\ job' = [job EXCEPT ![r] = j]

End(r) == job' = [job EXCEPT ![r] = Resting]

Has(u) == user[u].email # Null

\* A row read by its id is found whether or not the account is active.
GetByID(u) == Has(u)

GetByEmail(e) == {u \in User : user[u].email = e /\ user[u].active}

ListByRole(role) == {u \in User : user[u].role = role /\ user[u].active}

\* Addresses are unique over all rows, the deactivated ones too.
Taken(e, u) == \E o \in User \ {u} : user[o].email = e

\* Handlers that are past their reading hold an outdated one from now on.
Outdated(r) == [o \in Handler |->
                  IF o # r /\ job[o].pc \in {"check", "update", "off"}
                  THEN [job[o] EXCEPT !.stale = TRUE] ELSE job[o]]

\* A write to users by a handler that then answers.
Write(r, u, row) ==
  /\ user' = [user EXCEPT ![u] = row]
  /\ job' = [Outdated(r) EXCEPT ![r] = Resting]
  /\ raced' = (raced \/ job[r].stale)

-----------------------------------------------------------------------------
(* Sessions.                                                               *)

Authenticate(e) == GetByEmail(e)

Login(e) ==
  /\ \E u \in Authenticate(e) : staff' = staff \cup {[who |-> u, role |-> user[u].role]}
  /\ UNCHANGED <<user, link, job, raced, emptied, resets>>

\* Signing out clears the cookie; otherwise the token expires.
Logout(s) ==
  /\ s \in staff
  /\ staff' = staff \ {s}
  /\ UNCHANGED <<user, link, job, raced, emptied, resets>>

\* The role asked of is the one in the token, not the one in the row.
RequireRole(s, roles) == s \in staff /\ s.role \in roles

Super(s) == RequireRole(s, {"super_admin"})

-----------------------------------------------------------------------------
(* The management of accounts by a super admin.                            *)

IsLastSuperAdmin(u) == ListByRole("super_admin") \subseteq {u}

\* The command that seeds an account: it creates it, or takes one that exists
\* and makes it active, with the role it was told.  Nobody asks whether a super
\* admin is left.
Seed(u, e, role) ==
  /\ user[u].email \in {Null, e}
  /\ ~Taken(e, u)
  /\ user' = [user EXCEPT ![u] = [email |-> e, role |-> role, active |-> TRUE]]
  /\ job' = Outdated(Null)
  /\ emptied' = (emptied \/ (role # "super_admin" /\ IsLastSuperAdmin(u)))
  /\ UNCHANGED <<staff, link, raced, resets>>

CreateUser(s, u, e, role) ==
  /\ Super(s)
  /\ ~Has(u)
  /\ ~Taken(e, u)
  /\ user' = [user EXCEPT ![u] = [email |-> e, role |-> role, active |-> TRUE]]
  /\ job' = Outdated(Null)
  /\ UNCHANGED <<staff, link, raced, emptied, resets>>

\* The row is read; the fields of the request are put into it.  Taking the
\* role from a super admin is checked first.
UpdateUser(s, r, u, e, role) ==
  /\ Super(s)
  /\ GetByID(u)
  /\ Begin(r, [Resting EXCEPT !.on = u,
                 !.pc = IF user[u].role = "super_admin" /\ role # "super_admin"
                        THEN "check" ELSE "update",
                 !.row = [user[u] EXCEPT !.email = e, !.role = role]])
  /\ UNCHANGED <<user, staff, link, raced, emptied, resets>>

DeactivateUser_Unchecked(s, r, u) ==
  /\ Super(s)
  /\ GetByID(u)
  /\ Begin(r, [Resting EXCEPT !.on = u, !.pc = "off"])
  /\ UNCHANGED <<user, staff, link, raced, emptied, resets>>

\* The role is read; only a super admin is checked.
DeactivateUser(s, r, u) ==
  /\ Super(s)
  /\ GetByID(u)
  /\ Begin(r, [Resting EXCEPT !.on = u,
                 !.pc = IF user[u].role = "super_admin" THEN "check" ELSE "off"])
  /\ UNCHANGED <<user, staff, link, raced, emptied, resets>>

\* The last one is refused; the others go on to what was asked.
CheckLast(r) ==
  /\ JobAt(r, "check")
  /\ IF IsLastSuperAdmin(job[r].on)
     THEN End(r)
     ELSE job' = [job EXCEPT ![r].pc = IF job[r].row = NoUser THEN "off" ELSE "update"]
  /\ UNCHANGED <<user, staff, link, raced, emptied, resets>>

\* The whole row is written back, save whether the account is active.
Update(r) ==
  /\ JobAt(r, "update")
  /\ LET u == job[r].on IN
     IF Taken(job[r].row.email, u)
     THEN End(r) /\ UNCHANGED <<user, raced>>
     ELSE Write(r, u, [job[r].row EXCEPT !.active = user[u].active])
  /\ UNCHANGED <<staff, link, emptied, resets>>

Deactivate(r) ==
  /\ JobAt(r, "off")
  /\ Write(r, job[r].on, [user[job[r].on] EXCEPT !.active = FALSE])
  /\ UNCHANGED <<staff, link, emptied, resets>>

-----------------------------------------------------------------------------
(* Links that reset a password.                                            *)

\* Nothing tells the one who asks whether the address is known.
ForgotPassword(k, e) ==
  /\ link[k].state = "new"
  /\ GetByEmail(e) # {}
  /\ link' = [link EXCEPT ![k] = [state |-> "fresh", email |-> e]]
  /\ UNCHANGED <<user, staff, job, raced, emptied, resets>>

Expire(k) ==
  /\ link[k].state = "fresh"
  /\ link' = [link EXCEPT ![k].state = "expired"]
  /\ UNCHANGED <<user, staff, job, raced, emptied, resets>>

\* The sweeper drops what has expired.
Sweep ==
  /\ \E k \in Link : link[k].state = "expired"
  /\ link' = [k \in Link |-> IF link[k].state = "expired"
                             THEN [link[k] EXCEPT !.state = "gone"] ELSE link[k]]
  /\ UNCHANGED <<user, staff, job, raced, emptied, resets>>

Consume_Keeps(k) == link[k].state \in {"fresh", "expired"} /\ UNCHANGED link

\* The entry goes whether or not it is still good.
Consume(k) ==
  /\ link[k].state \in {"fresh", "expired"}
  /\ link' = [link EXCEPT ![k].state = "gone"]

ResetPassword(r, k) ==
  /\ Consume(k)
  /\ IF link[k].state = "fresh"
     THEN Begin(r, [Resting EXCEPT !.pc = "lookup", !.via = k])
     ELSE UNCHANGED job
  /\ UNCHANGED <<user, staff, raced, emptied, resets>>

\* The account is found by the address the link was sent to.
LookupReset(r) ==
  /\ JobAt(r, "lookup")
  /\ LET found == GetByEmail(link[job[r].via].email) IN
     IF found = {} THEN End(r)
     ELSE \E u \in found : job' = [job EXCEPT ![r].pc = "set", ![r].on = u]
  /\ UNCHANGED <<user, staff, link, raced, emptied, resets>>

UpdatePassword(r) ==
  /\ JobAt(r, "set")
  /\ resets' = [resets EXCEPT ![job[r].via] = @ + 1]
  /\ End(r)
  /\ UNCHANGED <<user, staff, link, raced, emptied>>

\* The process goes, and its memory with it.
LoseMemory ==
  /\ job' = [r \in Handler |-> Resting]
  /\ link' = [k \in Link |-> IF link[k].state \in {"fresh", "expired"}
                             THEN [link[k] EXCEPT !.state = "gone"] ELSE link[k]]
  /\ UNCHANGED <<user, staff, raced, emptied, resets>>

\* What handlers and the sweeper do once they have been asked.
AccountSteps ==
  \/ \E r \in Handler : \/ CheckLast(r) \/ Update(r) \/ Deactivate(r)
                        \/ LookupReset(r) \/ UpdatePassword(r)
  \/ Sweep

-----------------------------------------------------------------------------
\* There is always an active super admin once there is an account at all,
\* unless two changes of accounts overlapped (each can find the other's still
\* there, and a row written back whole undoes what was changed meanwhile), or
\* the seeding command itself took the last one's role.
SomeSuperAdmin ==
  (\E u \in User : Has(u)) /\ ~raced /\ ~emptied =>
    \E u \in User : user[u].role = "super_admin" /\ user[u].active

\* A link sets at most one password, however many requests redeem it at once
\* and whenever the process goes down between redeeming and writing.
LinkWorksOnce == \A k \in Link : resets[k] <= 1
=============================================================================
