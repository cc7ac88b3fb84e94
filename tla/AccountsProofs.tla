--------------------------- MODULE AccountsProofs ---------------------------
(***************************************************************************)
(* Theorems about the accounts of Server, for any number of accounts,      *)
(* addresses, handlers and reset links.                                    *)
(*                                                                         *)
(* AccountsInv says what a handler relies on; SuperInv what a handler that *)
(* is not outdated knows of the other super admins; LinkInv that a link is *)
(* redeemed by one handler, and only while it has set no password.         *)
(* SerialInv is SuperInv where nobody can be outdated and the seeding      *)
(* command gives the default role.                                         *)
(***************************************************************************)
EXTENDS Server, TLAPS

-----------------------------------------------------------------------------
(* The invariants.                                                         *)

\* A row with an address and a role in it.
Entered(row) == row.email \in Email /\ row.role \in Roles

\* What a handler relies on at the step it has come to.
GoodJob(j) ==
  /\ j.pc \in {"check", "update", "off"} => j.on \in User /\ Has(j.on)
  /\ j.pc = "check" => j.row = NoUser \/ Entered(j.row)
  /\ j.pc = "update" => Entered(j.row)
  /\ j.pc \in {"lookup", "set"} => j.via \in Link

AccountsInv ==
  /\ AccountsTypeOK
  /\ \A r \in Handler : GoodJob(job[r])
  /\ \A u \in User : user[u] = NoUser \/ Entered(user[u])
  /\ \A s \in staff : Has(s.who)

SuperAdmin(u) == user[u].role = "super_admin" /\ user[u].active

\* Whatever becomes of this account, no other super admin is needed, or there
\* is one.
Spared(u) == user[u].role # "super_admin" \/ \E o \in User \ {u} : SuperAdmin(o)

\* A handler about to write leaves a super admin behind.
Safe(j) ==
  /\ j.pc = "update" => j.row.role = "super_admin" \/ Spared(j.on)
  /\ j.pc = "off" => Spared(j.on)

SuperInv ==
  /\ SomeSuperAdmin
  /\ \A r \in Handler : job[r].stale \/ Safe(job[r])

\* What a handler writes leaves a super admin behind, or it is outdated.
Harmless(r, u, row) ==
  \/ job[r].stale
  \/ Spared(u)
  \/ row.role = "super_admin" /\ row.active = user[u].active

\* A handler that is going to set a password by link k.
Redeems(j, k) == j.pc \in {"lookup", "set"} /\ j.via = k

LinkInv ==
  /\ LinkWorksOnce
  /\ \A k \in Link :
       link[k].state # "gone" => resets[k] = 0 /\ \A r \in Handler : ~Redeems(job[r], k)
  /\ \A k \in Link, r \in Handler : Redeems(job[r], k) => resets[k] = 0
  /\ \A k \in Link, r, s \in Handler :
       Redeems(job[r], k) /\ Redeems(job[s], k) => r = s

-----------------------------------------------------------------------------
(* What a step can be to the accounts.                                     *)

\* The steps that write no account: they concern sessions, links and the place
\* of a handler.
Reading ==
  \/ \E e \in Email : Login(e)
  \/ \E s \in staff : Logout(s)
  \/ \E k \in Link, e \in Email : ForgotPassword(k, e)
  \/ \E k \in Link : Expire(k)
  \/ Sweep
  \/ LoseMemory
  \/ \E r \in Handler :
       \/ \E k \in Link : ResetPassword(r, k)
       \/ LookupReset(r)
       \/ UpdatePassword(r)
       \/ CheckLast(r)
       \/ \E s \in staff, u \in User, e \in Email, role \in Given : UpdateUser(s, r, u, e, role)
       \/ \E s \in staff, u \in User : DeactivateUser(s, r, u)

\* Four actions write an account; the rest read, or pass the accounts by.
LEMMA AccountMoves ==
  ASSUME [Next]_vars
  PROVE  \/ Reading
         \/ \E u \in User, e \in Email, role \in Given : Seed(u, e, role)
         \/ \E s \in staff, u \in User, e \in Email, role \in Given : CreateUser(s, u, e, role)
         \/ \E r \in Handler : Update(r) \/ Deactivate(r)
         \/ UNCHANGED accountVars
<1>1. CASE Migrating \/ PortalCalls \/ PortalSteps \/ UNCHANGED vars
  BY <1>1 DEF Migrating, PortalCalls, PortalSteps, vars
<1>2. CASE Seeding
  BY <1>2 DEF Seeding
<1>3. CASE StaffCalls
  BY <1>3 DEF StaffCalls, Reading
<1>4. CASE StaffSteps
  BY <1>4 DEF StaffSteps, AccountSteps, Reading
<1>5. ASSUME NEW p \in Process, Die(p)
      PROVE  LoseMemory \/ UNCHANGED accountVars
  BY <1>5 DEF Die
<1> QED
  BY <1>1, <1>2, <1>3, <1>4, <1>5 DEF Next, Reading

-----------------------------------------------------------------------------
(* What a step does to the handler that takes it.                          *)

\* The step leaves every handler but r where it was.
JobOnly(r) ==
  /\ job' \in [Handler -> Job]
  /\ \A o \in Handler : o # r => job'[o] = job[o]

\* A slot without a handler owes nothing.
LEMMA RestingType ==
  /\ Resting \in Job
  /\ Resting.pc = "idle"
  /\ ~Resting.stale
BY DEF Resting, Job, NoUser

\* A handler that begins takes a slot that was free.
LEMMA BeginStep ==
  ASSUME AccountsTypeOK, NEW r \in Handler, NEW j \in Job, Begin(r, j)
  PROVE  JobOnly(r) /\ job[r].pc = "idle" /\ job'[r] = j
BY DEF AccountsTypeOK, JobOnly, Begin, JobAt

\* A handler that ends leaves a slot without one.
LEMMA EndStep ==
  ASSUME AccountsTypeOK, NEW r \in Handler, End(r)
  PROVE  JobOnly(r) /\ job'[r] = Resting
BY RestingType DEF AccountsTypeOK, JobOnly, End

\* A write makes every other reading outdated, and changes nothing else of a
\* handler.
LEMMA OutdatedJobs ==
  ASSUME AccountsTypeOK, NEW r
  PROVE  /\ Outdated(r) \in [Handler -> Job]
         /\ \A o \in Handler : /\ Outdated(r)[o].pc = job[o].pc
                               /\ Outdated(r)[o].on = job[o].on
                               /\ Outdated(r)[o].row = job[o].row
                               /\ Outdated(r)[o].via = job[o].via
         /\ \A o \in Handler : o # r /\ job[o].pc \in {"check", "update", "off"}
                                 => Outdated(r)[o].stale
BY DEF AccountsTypeOK, Outdated, Job

\* A write by a handler: the row, the end of the handler, and what the others
\* hold from now on.
LEMMA WriteStep ==
  ASSUME AccountsTypeOK, NEW r \in Handler, NEW u \in User, NEW row \in UserRow,
         Write(r, u, row)
  PROVE  /\ user' \in [User -> UserRow]
         /\ user'[u] = row
         /\ \A o \in User : o # u => user'[o] = user[o]
         /\ job' \in [Handler -> Job]
         /\ job'[r] = Resting
         /\ \A o \in Handler : o # r => /\ job'[o].pc = job[o].pc
                                        /\ job'[o].on = job[o].on
                                        /\ job'[o].row = job[o].row
                                        /\ job'[o].via = job[o].via
         /\ \A o \in Handler : o # r /\ job[o].pc \in {"check", "update", "off"}
                                 => job'[o].stale
         /\ raced' = (raced \/ job[r].stale)
<1>1. /\ user' \in [User -> UserRow]
      /\ user'[u] = row
      /\ \A o \in User : o # u => user'[o] = user[o]
      /\ raced' = (raced \/ job[r].stale)
  BY DEF AccountsTypeOK, Write
<1>2. /\ job' = [Outdated(r) EXCEPT ![r] = Resting]
      /\ Outdated(r) \in [Handler -> Job]
  BY OutdatedJobs DEF Write
<1>3. /\ job' \in [Handler -> Job]
      /\ job'[r] = Resting
      /\ \A o \in Handler : o # r => job'[o] = Outdated(r)[o]
  BY <1>2, RestingType
<1> QED
  BY <1>1, <1>3, OutdatedJobs

\* A write by somebody who is no handler makes every reading outdated.
LEMMA NewRowStep ==
  ASSUME AccountsTypeOK, NEW u \in User, NEW row \in UserRow,
         user' = [user EXCEPT ![u] = row], job' = Outdated(Null)
  PROVE  /\ user' \in [User -> UserRow]
         /\ user'[u] = row
         /\ \A o \in User : o # u => user'[o] = user[o]
         /\ job' \in [Handler -> Job]
         /\ \A o \in Handler : /\ job'[o].pc = job[o].pc
                               /\ job'[o].on = job[o].on
                               /\ job'[o].row = job[o].row
                               /\ job'[o].via = job[o].via
         /\ \A o \in Handler : job[o].pc \in {"check", "update", "off"} => job'[o].stale
BY OutdatedJobs, NoAccountAssumption DEF AccountsTypeOK

\* The row is read and the request put into it; taking the role from a super
\* admin is checked first.
LEMMA UpdateUserStep ==
  ASSUME AccountsInv, NEW s \in staff, NEW r \in Handler, NEW u \in User, NEW e \in Email,
         NEW role \in Given, UpdateUser(s, r, u, e, role)
  PROVE  /\ JobOnly(r)
         /\ job'[r].pc \in {"check", "update"}
         /\ job'[r].pc = "update" => role = "super_admin" \/ user[u].role # "super_admin"
         /\ job'[r].on = u
         /\ Has(u)
         /\ job'[r].row.role = role
         /\ Entered(job'[r].row)
<1> DEFINE row == [user[u] EXCEPT !.email = e, !.role = role]
           l == IF user[u].role = "super_admin" /\ role # "super_admin"
                THEN "check" ELSE "update"
<1>1. row \in UserRow /\ row.role = role /\ row.email = e /\ role \in Roles
  BY GivenAssumption DEF AccountsInv, AccountsTypeOK, UserRow
<1>2. l \in {"check", "update"}
  OBVIOUS
<1>3. Begin(r, [Resting EXCEPT !.on = u, !.pc = l, !.row = row]) /\ Has(u)
  BY DEF UpdateUser, GetByID
<1> HIDE DEF row
<1>4. l = "update" => role = "super_admin" \/ user[u].role # "super_admin"
  OBVIOUS
<1> HIDE DEF l
<1> DEFINE j == [Resting EXCEPT !.on = u, !.pc = l, !.row = row]
<1>5. j \in Job /\ j.pc = l /\ j.on = u /\ j.row = row
  BY <1>1, <1>2 DEF Resting, Job, UserRow
<1> HIDE DEF j
<1>6. JobOnly(r) /\ job'[r] = j
  BY <1>3, <1>5, BeginStep DEF j, AccountsInv
<1> QED
  BY <1>1, <1>2, <1>3, <1>4, <1>5, <1>6 DEF Entered

\* Deactivating a super admin is checked first.
LEMMA DeactivateUserStep ==
  ASSUME AccountsInv, NEW s \in staff, NEW r \in Handler, NEW u \in User,
         DeactivateUser(s, r, u)
  PROVE  /\ JobOnly(r)
         /\ job'[r].pc \in {"check", "off"}
         /\ job'[r].pc = "off" => user[u].role # "super_admin"
         /\ job'[r].on = u
         /\ Has(u)
         /\ job'[r].row = NoUser
<1> DEFINE l == IF user[u].role = "super_admin" THEN "check" ELSE "off"
<1>1. l \in {"check", "off"} /\ (l = "off" => user[u].role # "super_admin")
  OBVIOUS
<1>2. Begin(r, [Resting EXCEPT !.on = u, !.pc = l]) /\ Has(u)
  BY DEF DeactivateUser, GetByID
<1> HIDE DEF l
<1> DEFINE j == [Resting EXCEPT !.on = u, !.pc = l]
<1>3. j \in Job /\ j.pc = l /\ j.on = u /\ j.row = NoUser
  BY <1>1 DEF Resting, Job, UserRow, NoUser
<1> HIDE DEF j
<1>4. JobOnly(r) /\ job'[r] = j
  BY <1>2, <1>3, BeginStep DEF j, AccountsInv
<1> QED
  BY <1>1, <1>2, <1>3, <1>4

\* The last super admin is refused; whoever goes on has seen another one.
LEMMA CheckLastStep ==
  ASSUME AccountsInv, NEW r \in Handler, CheckLast(r)
  PROVE  /\ JobOnly(r)
         /\ job[r].pc = "check"
         /\ \/ job'[r] = Resting
            \/ /\ \E o \in User \ {job[r].on} : SuperAdmin(o)
               /\ job'[r].pc = IF job[r].row = NoUser THEN "off" ELSE "update"
               /\ job'[r].on = job[r].on
               /\ job'[r].row = job[r].row
<1>1. job[r].pc = "check"
  BY DEF CheckLast, JobAt
<1>2. CASE IsLastSuperAdmin(job[r].on)
  BY <1>1, <1>2, EndStep DEF CheckLast, AccountsInv
<1>3. CASE ~IsLastSuperAdmin(job[r].on)
  <2> DEFINE l == IF job[r].row = NoUser THEN "off" ELSE "update"
             j == [job[r] EXCEPT !.pc = l]
  <2>1. \E o \in User \ {job[r].on} : SuperAdmin(o)
    BY <1>3 DEF IsLastSuperAdmin, ListByRole, SuperAdmin
  <2>2. job' = [job EXCEPT ![r] = j] /\ l \in {"off", "update"}
    BY <1>3 DEF CheckLast, AccountsInv, AccountsTypeOK
  <2>3. /\ j \in Job
        /\ j.pc = l
        /\ j.on = job[r].on
        /\ j.row = job[r].row
    BY <2>2 DEF AccountsInv, AccountsTypeOK, Job
  <2> HIDE DEF l, j
  <2>4. JobOnly(r) /\ job'[r] = j
    BY <2>2, <2>3 DEF JobOnly, AccountsInv, AccountsTypeOK
  <2> QED
    BY <1>1, <2>1, <2>3, <2>4 DEF l
<1> QED
  BY <1>2, <1>3

\* A link that is redeemed is gone; a handler goes on when it was still good.
LEMMA ResetPasswordStep ==
  ASSUME AccountsTypeOK, NEW r \in Handler, NEW k \in Link, ResetPassword(r, k)
  PROVE  /\ link[k].state \in {"fresh", "expired"}
         /\ link' \in [Link -> LinkRow]
         /\ link'[k].state = "gone"
         /\ \A o \in Link : o # k => link'[o] = link[o]
         /\ JobOnly(r)
         /\ \/ job'[r] = job[r]
            \/ job'[r].pc = "lookup" /\ job'[r].via = k
         /\ UNCHANGED <<user, staff, raced, emptied, resets>>
<1>1. /\ link[k].state \in {"fresh", "expired"}
      /\ link' \in [Link -> LinkRow]
      /\ link'[k].state = "gone"
      /\ \A o \in Link : o # k => link'[o] = link[o]
  BY DEF ResetPassword, Consume, AccountsTypeOK, LinkRow
<1>2. CASE link[k].state = "fresh"
  <2> DEFINE j == [Resting EXCEPT !.pc = "lookup", !.via = k]
  <2>1. j \in Job /\ j.pc = "lookup" /\ j.via = k
    BY DEF Resting, Job, NoUser
  <2>2. Begin(r, j)
    BY <1>2 DEF ResetPassword
  <2> HIDE DEF j
  <2>3. JobOnly(r) /\ job'[r] = j
    BY <2>1, <2>2, BeginStep
  <2> QED
    BY <1>1, <2>1, <2>3 DEF ResetPassword
<1>3. CASE link[k].state # "fresh"
  BY <1>1, <1>3 DEF ResetPassword, JobOnly, AccountsTypeOK
<1> QED
  BY <1>2, <1>3

\* The account is found by the address, or the handler ends.
LEMMA LookupResetStep ==
  ASSUME AccountsTypeOK, NEW r \in Handler, LookupReset(r)
  PROVE  /\ JobOnly(r)
         /\ job[r].pc = "lookup"
         /\ \/ job'[r] = Resting
            \/ job'[r].pc = "set" /\ job'[r].via = job[r].via
<1> DEFINE found == GetByEmail(link[job[r].via].email)
<1>1. CASE found = {}
  BY <1>1, EndStep DEF LookupReset, JobAt
<1>2. CASE found # {}
  <2>1. PICK u \in User : job' = [job EXCEPT ![r].pc = "set", ![r].on = u]
    BY <1>2 DEF LookupReset, GetByEmail
  <2> DEFINE j == [job[r] EXCEPT !.pc = "set", !.on = u]
  <2>2. j \in Job /\ j.pc = "set" /\ j.via = job[r].via
    BY DEF AccountsTypeOK, Job
  <2>3. job' = [job EXCEPT ![r] = j]
    BY <2>1 DEF AccountsTypeOK
  <2> HIDE DEF j
  <2>4. JobOnly(r) /\ job'[r] = j
    BY <2>2, <2>3 DEF JobOnly, AccountsTypeOK
  <2> QED
    BY <2>2, <2>4 DEF LookupReset, JobAt
<1> QED
  BY <1>1, <1>2

-----------------------------------------------------------------------------
(* Type correctness.                                                       *)

\* At first there are no accounts and nobody is at work.
LEMMA AccountsTypeInit == AccountsInit => AccountsInv
<1> SUFFICES ASSUME AccountsInit PROVE AccountsInv
  OBVIOUS
<1>1. user \in [User -> UserRow] /\ link \in [Link -> LinkRow]
  BY DEF AccountsInit, NoUser, UserRow, LinkRow
<1>2. job \in [Handler -> Job] /\ \A r \in Handler : job[r] = Resting
  BY RestingType DEF AccountsInit
<1>3. \A r \in Handler : GoodJob(job[r])
  BY <1>2, RestingType DEF GoodJob
<1> QED
  BY <1>1, <1>2, <1>3 DEF AccountsInit, AccountsInv, AccountsTypeOK

\* A step of one handler that writes no account keeps what everybody relies on.
LEMMA ReaderKeeps ==
  ASSUME AccountsInv, NEW r \in Handler, JobOnly(r), GoodJob(job'[r]),
         link' \in [Link -> LinkRow], resets' \in [Link -> Nat],
         UNCHANGED <<user, staff, raced, emptied>>
  PROVE  AccountsInv'
BY DEF AccountsInv, AccountsTypeOK, JobOnly, GoodJob, Has

\* A new row with an address in it keeps what everybody relies on.
LEMMA WriterKeeps ==
  ASSUME AccountsInv, NEW u \in User,
         user' \in [User -> UserRow],
         Entered(user'[u]),
         \A o \in User : o # u => user'[o] = user[o],
         job' \in [Handler -> Job],
         \A r \in Handler : \/ job'[r] = Resting
                            \/ /\ job'[r].pc = job[r].pc
                               /\ job'[r].on = job[r].on
                               /\ job'[r].row = job[r].row
                               /\ job'[r].via = job[r].via,
         raced' \in BOOLEAN, emptied' \in BOOLEAN,
         UNCHANGED <<staff, link, resets>>
  PROVE  AccountsInv'
<1>1. \A o \in User : Has(o) => Has(o)'
  BY NoAccountAssumption DEF Has, Entered
<1>2. \A r \in Handler : GoodJob(job[r])'
  BY <1>1, RestingType DEF AccountsInv, GoodJob
<1>3. \A o \in User : user'[o] = NoUser \/ Entered(user'[o])
  BY DEF AccountsInv
<1>4. \A s \in staff' : Has(s.who)'
  BY <1>1 DEF AccountsInv, AccountsTypeOK
<1>5. AccountsTypeOK'
  BY DEF AccountsInv, AccountsTypeOK
<1> QED
  BY <1>2, <1>3, <1>4, <1>5 DEF AccountsInv

\* The steps that write no account keep what everybody relies on.
LEMMA ReadingKeeps ==
  ASSUME AccountsInv, Reading
  PROVE  AccountsInv'
<1>t. /\ AccountsTypeOK
      /\ \A r \in Handler : GoodJob(job[r])
  BY DEF AccountsInv
<1>1. ASSUME NEW e \in Email, Login(e)
      PROVE  AccountsInv'
  <2>1. PICK u \in GetByEmail(e) :
          staff' = staff \cup {[who |-> u, role |-> user[u].role]}
    BY <1>1 DEF Login, Authenticate
  <2>2. u \in User /\ user[u].email = e
    BY <2>1 DEF GetByEmail
  <2>3. Has(u) /\ user[u].role \in Roles
    BY <2>2, NoAccountAssumption DEF Has, AccountsInv, Entered, NoUser
  <2>4. UNCHANGED <<user, link, job, raced, emptied, resets>>
    BY <1>1 DEF Login
  <2> QED
    BY <2>1, <2>2, <2>3, <2>4 DEF AccountsInv, AccountsTypeOK, GoodJob, Has
<1>2. ASSUME NEW s \in staff, Logout(s)
      PROVE  AccountsInv'
  BY <1>2 DEF Logout, AccountsInv, AccountsTypeOK, GoodJob, Has
<1>3. ASSUME link' \in [Link -> LinkRow], UNCHANGED <<user, staff, job, raced, emptied, resets>>
      PROVE  AccountsInv'
  BY <1>3 DEF AccountsInv, AccountsTypeOK, GoodJob, Has
<1>4. ASSUME NEW k \in Link, NEW e \in Email, ForgotPassword(k, e)
      PROVE  AccountsInv'
  BY <1>3, <1>4, <1>t DEF ForgotPassword, AccountsTypeOK, LinkRow
<1>5. ASSUME NEW k \in Link, Expire(k)
      PROVE  AccountsInv'
  BY <1>3, <1>5, <1>t DEF Expire, AccountsTypeOK, LinkRow
<1>6. CASE Sweep
  BY <1>3, <1>6, <1>t DEF Sweep, AccountsTypeOK, LinkRow
<1>7. CASE LoseMemory
  <2>1. link' \in [Link -> LinkRow]
    BY <1>7, <1>t DEF LoseMemory, AccountsTypeOK, LinkRow
  <2>2. job' \in [Handler -> Job] /\ \A r \in Handler : job'[r] = Resting
    BY <1>7, RestingType DEF LoseMemory
  <2>3. UNCHANGED <<user, staff, raced, emptied, resets>>
    BY <1>7 DEF LoseMemory
  <2> QED
    BY <2>1, <2>2, <2>3, RestingType DEF AccountsInv, AccountsTypeOK, GoodJob, Has
<1>8. ASSUME NEW r \in Handler, NEW k \in Link, ResetPassword(r, k)
      PROVE  AccountsInv'
  <2>1. /\ JobOnly(r)
        /\ GoodJob(job'[r])
        /\ link' \in [Link -> LinkRow]
        /\ UNCHANGED <<user, staff, raced, emptied, resets>>
    BY <1>8, <1>t, ResetPasswordStep DEF GoodJob
  <2> QED
    BY <1>t, <2>1, ReaderKeeps DEF AccountsTypeOK
<1>9. ASSUME NEW r \in Handler, LookupReset(r)
      PROVE  AccountsInv'
  <2>1. JobOnly(r) /\ GoodJob(job'[r])
    BY <1>9, <1>t, LookupResetStep, RestingType DEF GoodJob
  <2>2. UNCHANGED <<user, staff, link, raced, emptied, resets>>
    BY <1>9 DEF LookupReset
  <2> QED
    BY <1>t, <2>1, <2>2, ReaderKeeps DEF AccountsTypeOK
<1>10. ASSUME NEW r \in Handler, UpdatePassword(r)
       PROVE  AccountsInv'
  <2>1. JobOnly(r) /\ GoodJob(job'[r])
    BY <1>10, <1>t, EndStep, RestingType DEF UpdatePassword, GoodJob
  <2>2. resets' \in [Link -> Nat]
    BY <1>10, <1>t DEF UpdatePassword, AccountsTypeOK, GoodJob, JobAt
  <2>3. UNCHANGED <<user, staff, link, raced, emptied>>
    BY <1>10 DEF UpdatePassword
  <2> QED
    BY <1>t, <2>1, <2>2, <2>3, ReaderKeeps DEF AccountsTypeOK
<1>11. ASSUME NEW r \in Handler, CheckLast(r)
       PROVE  AccountsInv'
  <2>1. JobOnly(r) /\ GoodJob(job'[r])
    BY <1>11, <1>t, CheckLastStep, RestingType DEF GoodJob
  <2>2. UNCHANGED <<user, staff, link, raced, emptied, resets>>
    BY <1>11 DEF CheckLast
  <2> QED
    BY <1>t, <2>1, <2>2, ReaderKeeps DEF AccountsTypeOK
<1>12. ASSUME NEW r \in Handler, NEW s \in staff, NEW u \in User, NEW e \in Email,
              NEW role \in Given, UpdateUser(s, r, u, e, role)
       PROVE  AccountsInv'
  <2>1. JobOnly(r) /\ GoodJob(job'[r])
    BY <1>12, UpdateUserStep DEF GoodJob
  <2>2. UNCHANGED <<user, staff, link, raced, emptied, resets>>
    BY <1>12 DEF UpdateUser
  <2> QED
    BY <1>t, <2>1, <2>2, ReaderKeeps DEF AccountsTypeOK
<1>13. ASSUME NEW r \in Handler, NEW s \in staff, NEW u \in User, DeactivateUser(s, r, u)
       PROVE  AccountsInv'
  <2>1. JobOnly(r) /\ GoodJob(job'[r])
    BY <1>13, DeactivateUserStep DEF GoodJob
  <2>2. UNCHANGED <<user, staff, link, raced, emptied, resets>>
    BY <1>13 DEF DeactivateUser
  <2> QED
    BY <1>t, <2>1, <2>2, ReaderKeeps DEF AccountsTypeOK
<1> QED
  BY <1>1, <1>2, <1>4, <1>5, <1>6, <1>7, <1>8, <1>9, <1>10, <1>11, <1>12, <1>13
  DEF Reading

\* An update that finds its address taken ends; otherwise the row it read goes
\* back with what was asked, and the account stays as active as it is.
LEMMA UpdateStep ==
  ASSUME AccountsInv, NEW r \in Handler, Update(r)
  PROVE  /\ job[r].pc = "update"
         /\ job[r].on \in User
         /\ UNCHANGED <<staff, link, emptied, resets>>
         /\ \/ JobOnly(r) /\ job'[r] = Resting /\ UNCHANGED <<user, raced, emptied>>
            \/ \E row \in UserRow :
                 /\ row.email = job[r].row.email
                 /\ row.role = job[r].row.role
                 /\ row.active = user[job[r].on].active
                 /\ Entered(row)
                 /\ Write(r, job[r].on, row)
<1> DEFINE u == job[r].on
           row == [job[r].row EXCEPT !.active = user[u].active]
<1>1. /\ job[r].pc = "update"
      /\ u \in User
      /\ job[r] \in Job
      /\ Entered(job[r].row)
      /\ user[u] \in UserRow
      /\ UNCHANGED <<staff, link, emptied, resets>>
  BY DEF Update, JobAt, AccountsInv, AccountsTypeOK, GoodJob
<1>2. /\ row \in UserRow
      /\ row.email = job[r].row.email
      /\ row.role = job[r].row.role
      /\ row.active = user[u].active
  BY <1>1 DEF Job, UserRow
<1>3. Entered(row)
  BY <1>1, <1>2 DEF Entered
<1>4. \/ End(r) /\ UNCHANGED <<user, raced, emptied>>
      \/ Write(r, u, row)
  BY DEF Update
<1> HIDE DEF row
<1> QED
  BY <1>1, <1>2, <1>3, <1>4, EndStep DEF AccountsInv

\* A deactivation writes the row it finds, inactive.
LEMMA DeactivateStep ==
  ASSUME AccountsInv, NEW r \in Handler, Deactivate(r)
  PROVE  /\ job[r].pc = "off"
         /\ job[r].on \in User
         /\ UNCHANGED <<staff, link, emptied, resets>>
         /\ \E row \in UserRow :
              /\ row.email = user[job[r].on].email
              /\ row.role = user[job[r].on].role
              /\ ~row.active
              /\ Entered(row)
              /\ Write(r, job[r].on, row)
<1> DEFINE u == job[r].on
           row == [user[u] EXCEPT !.active = FALSE]
<1>1. /\ job[r].pc = "off"
      /\ u \in User
      /\ Has(u)
      /\ user[u] \in UserRow
      /\ UNCHANGED <<staff, link, emptied, resets>>
  BY DEF Deactivate, JobAt, AccountsInv, AccountsTypeOK, GoodJob
<1>2. Entered(user[u])
  BY <1>1 DEF AccountsInv, Has, NoUser
<1>3. /\ row \in UserRow
      /\ row.email = user[u].email
      /\ row.role = user[u].role
      /\ ~row.active
  BY <1>1 DEF UserRow
<1>4. Entered(row) /\ Write(r, u, row)
  BY <1>2, <1>3 DEF Entered, Deactivate
<1> HIDE DEF row
<1> QED
  BY <1>1, <1>3, <1>4

\* Every step keeps the types of the accounts, and what the handlers rely on.
LEMMA AccountsStep == AccountsInv /\ [Next]_vars => AccountsInv'
<1> SUFFICES ASSUME AccountsInv, [Next]_vars PROVE AccountsInv'
  OBVIOUS
<1>1. CASE Reading
  BY <1>1, ReadingKeeps
<1>2. ASSUME NEW u \in User, NEW row \in UserRow, Entered(row),
             user' = [user EXCEPT ![u] = row], job' = Outdated(Null),
             emptied' \in BOOLEAN, UNCHANGED <<staff, link, raced, resets>>
      PROVE  AccountsInv'
  BY <1>2, NewRowStep, WriterKeeps DEF AccountsInv, AccountsTypeOK
<1>3. ASSUME NEW u \in User, NEW e \in Email, NEW role \in Given, Seed(u, e, role)
      PROVE  AccountsInv'
  <2> DEFINE row == [email |-> e, role |-> role, active |-> TRUE]
  <2>1. row \in UserRow /\ Entered(row)
    BY GivenAssumption DEF UserRow, Entered
  <2>2. emptied' \in BOOLEAN
    BY <1>3 DEF Seed, AccountsInv, AccountsTypeOK
  <2> QED
    BY <1>2, <1>3, <2>1, <2>2 DEF Seed
<1>4. ASSUME NEW s \in staff, NEW u \in User, NEW e \in Email, NEW role \in Given,
             CreateUser(s, u, e, role)
      PROVE  AccountsInv'
  <2> DEFINE row == [email |-> e, role |-> role, active |-> TRUE]
  <2>1. row \in UserRow /\ Entered(row)
    BY GivenAssumption DEF UserRow, Entered
  <2> QED
    BY <1>2, <1>4, <2>1 DEF CreateUser, AccountsInv, AccountsTypeOK
<1>5. ASSUME NEW r \in Handler, NEW u \in User, NEW row \in UserRow, Entered(row),
             Write(r, u, row), UNCHANGED <<staff, link, emptied, resets>>
      PROVE  AccountsInv'
  <2>1. AccountsTypeOK /\ raced \in BOOLEAN /\ job[r].stale \in BOOLEAN
    BY DEF AccountsInv, AccountsTypeOK, Job
  <2>2. raced' \in BOOLEAN /\ emptied' \in BOOLEAN
    BY <1>5, <2>1 DEF Write, AccountsTypeOK
  <2> QED
    BY <1>5, <2>1, <2>2, WriteStep, WriterKeeps
<1>6. ASSUME NEW r \in Handler, Update(r)
      PROVE  AccountsInv'
  <2>1. CASE JobOnly(r) /\ job'[r] = Resting /\ UNCHANGED <<user, raced, emptied>>
    <3>1. GoodJob(job'[r])
      BY <2>1, RestingType DEF GoodJob
    <3> QED
      BY <1>6, <2>1, <3>1, UpdateStep, ReaderKeeps DEF AccountsInv, AccountsTypeOK
  <2>2. CASE ~(JobOnly(r) /\ job'[r] = Resting /\ UNCHANGED <<user, raced, emptied>>)
    BY <1>5, <1>6, <2>2, UpdateStep
  <2> QED
    BY <2>1, <2>2
<1>7. ASSUME NEW r \in Handler, Deactivate(r)
      PROVE  AccountsInv'
  BY <1>5, <1>7, DeactivateStep
<1>8. CASE UNCHANGED accountVars
  BY <1>8 DEF accountVars, AccountsInv, AccountsTypeOK, GoodJob, Has
<1> QED
  BY <1>1, <1>3, <1>4, <1>6, <1>7, <1>8, AccountMoves

-----------------------------------------------------------------------------
(* There is always a super admin.                                          *)

\* Without a write to the accounts a handler's knowledge of them stays.
LEMMA SafeStays ==
  ASSUME SuperInv, UNCHANGED <<user, raced, emptied>>,
         \A r \in Handler : \/ job'[r] = job[r]
                            \/ job'[r].stale
                            \/ Safe(job'[r])
  PROVE  SuperInv'
BY DEF SuperInv, Safe, Spared, SuperAdmin, SomeSuperAdmin, Has

\* Steps that write no account: a handler comes to a write only when the check
\* has shown it another super admin, or none was needed.
LEMMA ReadingSuper ==
  ASSUME AccountsInv, SuperInv, Reading
  PROVE  SuperInv'
<1>t. AccountsTypeOK
  BY DEF AccountsInv
<1>1. ASSUME UNCHANGED <<user, raced, emptied, job>>
      PROVE  SuperInv'
  BY <1>1, SafeStays
<1>2. ASSUME NEW r \in Handler, JobOnly(r), Safe(job'[r]), UNCHANGED <<user, raced, emptied>>
      PROVE  SuperInv'
  BY <1>2, SafeStays DEF JobOnly
<1>3. CASE \/ \E e \in Email : Login(e)
           \/ \E s \in staff : Logout(s)
           \/ \E k \in Link, e \in Email : ForgotPassword(k, e)
           \/ \E k \in Link : Expire(k)
           \/ Sweep
  BY <1>1, <1>3 DEF Login, Logout, ForgotPassword, Expire, Sweep
<1>4. CASE LoseMemory
  <2>1. \A r \in Handler : Safe(job'[r])
    BY <1>4, RestingType DEF LoseMemory, Safe
  <2> QED
    BY <1>4, <2>1, SafeStays DEF LoseMemory
<1>5. ASSUME NEW r \in Handler, NEW k \in Link, ResetPassword(r, k)
      PROVE  SuperInv'
  <2>1. /\ JobOnly(r)
        /\ job'[r] = job[r] \/ job'[r].pc = "lookup"
        /\ UNCHANGED <<user, raced, emptied>>
    BY <1>5, <1>t, ResetPasswordStep
  <2> QED
    BY <2>1, SafeStays DEF JobOnly, Safe
<1>6. ASSUME NEW r \in Handler, LookupReset(r) \/ UpdatePassword(r)
      PROVE  SuperInv'
  <2>1. /\ JobOnly(r)
        /\ job'[r].pc \in {"idle", "set"}
        /\ UNCHANGED <<user, raced, emptied>>
    BY <1>6, <1>t, LookupResetStep, EndStep, RestingType DEF LookupReset, UpdatePassword
  <2> QED
    BY <1>2, <2>1 DEF Safe
<1>7. ASSUME NEW r \in Handler, CheckLast(r)
      PROVE  SuperInv'
  <2>1. JobOnly(r) /\ Safe(job'[r])
    BY <1>7, CheckLastStep, RestingType DEF Safe, Spared
  <2> QED
    BY <1>2, <1>7, <2>1 DEF CheckLast
<1>8. ASSUME NEW r \in Handler, NEW s \in staff, NEW u \in User, NEW e \in Email,
             NEW role \in Given, UpdateUser(s, r, u, e, role)
      PROVE  SuperInv'
  <2>1. JobOnly(r) /\ Safe(job'[r])
    BY <1>8, UpdateUserStep DEF Safe, Spared
  <2> QED
    BY <1>2, <1>8, <2>1 DEF UpdateUser
<1>9. ASSUME NEW r \in Handler, NEW s \in staff, NEW u \in User, DeactivateUser(s, r, u)
      PROVE  SuperInv'
  <2>1. JobOnly(r) /\ Safe(job'[r])
    BY <1>9, DeactivateUserStep DEF Safe, Spared
  <2> QED
    BY <1>2, <1>9, <2>1 DEF DeactivateUser
<1> QED
  BY <1>3, <1>4, <1>5, <1>6, <1>7, <1>8, <1>9 DEF Reading

\* After a write every other handler is outdated; so the writer's own knowledge
\* is all that matters.
LEMMA WriterSuper ==
  ASSUME AccountsInv, NEW r \in Handler, NEW u \in User, NEW row \in UserRow,
         Write(r, u, row),
         SomeSuperAdmin'
  PROVE  SuperInv'
<1>1. \A o \in Handler : job'[o].stale \/ job'[o].pc \notin {"update", "off"}
  <2> SUFFICES ASSUME NEW o \in Handler
               PROVE  job'[o].stale \/ job'[o].pc \notin {"update", "off"}
    OBVIOUS
  <2>1. CASE o = r
    BY <2>1, WriteStep, RestingType DEF AccountsInv
  <2>2. CASE o # r
    BY <2>2, WriteStep DEF AccountsInv
  <2> QED
    BY <2>1, <2>2
<1> QED
  BY <1>1 DEF SuperInv, Safe

\* A new row, or a seeded one, makes every handler outdated.
LEMMA NewRowSuper ==
  ASSUME AccountsInv, NEW u \in User, NEW row \in UserRow,
         user' = [user EXCEPT ![u] = row], job' = Outdated(Null),
         SomeSuperAdmin'
  PROVE  SuperInv'
<1>1. \A o \in Handler : job'[o].stale \/ job'[o].pc \notin {"update", "off"}
  BY NewRowStep DEF AccountsInv
<1> QED
  BY <1>1 DEF SuperInv, Safe

\* A handler that knows what it writes leaves a super admin behind; what an
\* outdated one writes is a race.
LEMMA WrittenSuper ==
  ASSUME AccountsInv, SuperInv,
         NEW r \in Handler, NEW u \in User, NEW row \in UserRow,
         Write(r, u, row),
         Has(u),
         Harmless(r, u, row),
         UNCHANGED emptied
  PROVE  SuperInv'
<1>1. /\ user'[u] = row
      /\ \A o \in User : o # u => user'[o] = user[o]
      /\ raced' = (raced \/ job[r].stale)
  BY WriteStep DEF AccountsInv
<1>2. ASSUME ~raced, ~emptied, ~job[r].stale
      PROVE  \E o \in User : user'[o].role = "super_admin" /\ user'[o].active
  <2>1. PICK o \in User : user[o].role = "super_admin" /\ user[o].active
    BY <1>2 DEF SuperInv, SomeSuperAdmin
  <2>2. CASE o # u
    BY <1>1, <2>1, <2>2
  <2>3. CASE o = u /\ Spared(u)
    <3>1. PICK x \in User \ {u} : SuperAdmin(x)
      BY <2>1, <2>3 DEF Spared
    <3> QED
      BY <1>1, <3>1 DEF SuperAdmin
  <2>4. CASE o = u /\ row.role = "super_admin" /\ row.active = user[u].active
    BY <1>1, <2>1, <2>4
  <2> QED
    BY <2>1, <1>2, <2>2, <2>3, <2>4 DEF Harmless
<1>3. SomeSuperAdmin'
  BY <1>1, <1>2 DEF SomeSuperAdmin
<1> QED
  BY <1>3, WriterSuper

\* Every step leaves a super admin behind, unless an outdated handler wrote.
LEMMA SuperStep == AccountsInv /\ SuperInv /\ [Next]_vars => SuperInv'
<1> SUFFICES ASSUME AccountsInv, SuperInv, [Next]_vars PROVE SuperInv'
  OBVIOUS
<1>1. CASE Reading
  BY <1>1, ReadingSuper
<1>2. ASSUME NEW u \in User, NEW e \in Email, NEW role \in Given, Seed(u, e, role)
      PROVE  SuperInv'
  <2> DEFINE row == [email |-> e, role |-> role, active |-> TRUE]
  <2>1. row \in UserRow /\ row.role = role /\ row.active
    BY GivenAssumption DEF UserRow
  <2>2. user' = [user EXCEPT ![u] = row] /\ job' = Outdated(Null)
    BY <1>2 DEF Seed
  <2> HIDE DEF row
  <2>3. user'[u] = row /\ \A o \in User : o # u => user'[o] = user[o]
    BY <2>1, <2>2, NewRowStep DEF AccountsInv
  <2>4. CASE role = "super_admin"
    <3>1. SomeSuperAdmin'
      BY <2>1, <2>3, <2>4 DEF SomeSuperAdmin
    <3> QED
      BY <2>1, <2>2, <3>1, NewRowSuper
  <2>5. CASE role # "super_admin"
    <3>1. emptied' \/ \E o \in User \ {u} : user[o].role = "super_admin" /\ user[o].active
      BY <1>2, <2>5 DEF Seed, IsLastSuperAdmin, ListByRole
    <3>2. SomeSuperAdmin'
      BY <2>3, <3>1 DEF SomeSuperAdmin
    <3> QED
      BY <2>1, <2>2, <3>2, NewRowSuper
  <2> QED
    BY <2>4, <2>5
<1>3. ASSUME NEW s \in staff, NEW u \in User, NEW e \in Email, NEW role \in Given,
             CreateUser(s, u, e, role)
      PROVE  SuperInv'
  <2> DEFINE row == [email |-> e, role |-> role, active |-> TRUE]
  <2>1. row \in UserRow
    BY GivenAssumption DEF UserRow
  <2>2. /\ user' = [user EXCEPT ![u] = row]
        /\ job' = Outdated(Null)
        /\ ~Has(u)
        /\ UNCHANGED <<raced, emptied>>
    BY <1>3 DEF CreateUser
  <2> HIDE DEF row
  <2>3. Has(s.who) /\ s.who \in User
    BY DEF AccountsInv, AccountsTypeOK
  <2>4. ASSUME ~raced, ~emptied
        PROVE  \E o \in User : user'[o].role = "super_admin" /\ user'[o].active
    <3>1. PICK o \in User : user[o].role = "super_admin" /\ user[o].active
      BY <2>3, <2>4 DEF SuperInv, SomeSuperAdmin
    <3>2. o # u
      BY <2>2, <3>1, NoAccountAssumption DEF AccountsInv, Has, NoUser, Entered
    <3>3. user'[o] = user[o]
      BY <2>2, <3>2
    <3> QED
      BY <3>1, <3>3
  <2>5. SomeSuperAdmin'
    BY <2>2, <2>4 DEF SomeSuperAdmin
  <2> QED
    BY <2>1, <2>2, <2>5, NewRowSuper
<1>5. ASSUME NEW r \in Handler, Update(r)
      PROVE  SuperInv'
  <2>1. CASE JobOnly(r) /\ job'[r] = Resting /\ UNCHANGED <<user, raced, emptied>>
    <3>1. Safe(job'[r])
      BY <2>1, RestingType DEF Safe
    <3> QED
      BY <2>1, <3>1, SafeStays DEF JobOnly
  <2>2. ASSUME NEW row \in UserRow,
               row.role = job[r].row.role,
               row.active = user[job[r].on].active,
               Write(r, job[r].on, row)
        PROVE  SuperInv'
    <3>1. job[r].pc = "update" /\ job[r].on \in User /\ Has(job[r].on)
      BY <1>5, UpdateStep DEF AccountsInv, GoodJob
    <3>2. job[r].stale \/ Spared(job[r].on) \/ row.role = "super_admin"
      BY <2>2, <3>1 DEF SuperInv, Safe
    <3>3. Harmless(r, job[r].on, row)
      BY <2>2, <3>2 DEF Harmless
    <3> QED
      BY <1>5, <2>2, <3>1, <3>3, UpdateStep, WrittenSuper
  <2> QED
    BY <1>5, <2>1, <2>2, UpdateStep
<1>6. ASSUME NEW r \in Handler, Deactivate(r)
      PROVE  SuperInv'
  <2>1. PICK u \in User : u = job[r].on
    BY <1>6, DeactivateStep
  <2>2. job[r].pc = "off" /\ Has(u) /\ (job[r].stale \/ Spared(u))
    BY <1>6, <2>1, DeactivateStep DEF AccountsInv, GoodJob, SuperInv, Safe
  <2>3. PICK row \in UserRow : Write(r, u, row)
    BY <1>6, <2>1, DeactivateStep
  <2>4. Harmless(r, u, row)
    BY <2>2 DEF Harmless
  <2> QED
    BY <1>6, <2>2, <2>3, <2>4, DeactivateStep, WrittenSuper
<1>7. CASE UNCHANGED accountVars
  BY <1>7, SafeStays DEF accountVars
<1> QED
  BY <1>1, <1>2, <1>3, <1>5, <1>6, <1>7, AccountMoves

\* There is an active super admin once there is an account, as long as no
\* handler wrote from an outdated reading and the command that seeds an account
\* did not itself give the last one, or the first, another role: asking for the
\* last one and writing are enough by themselves only when nobody else writes in
\* between.
THEOREM SuperAdminStays == Spec => []SomeSuperAdmin
<1>1. Init => AccountsInv /\ SuperInv
  <2>1. Init => AccountsInv
    BY AccountsTypeInit DEF Init
  <2>2. Init => SuperInv
    BY RestingType DEF Init, AccountsInit, SuperInv, SomeSuperAdmin, Has, NoUser, Safe
  <2> QED
    BY <2>1, <2>2
<1>2. AccountsInv /\ SuperInv /\ [Next]_vars => (AccountsInv /\ SuperInv)'
  BY AccountsStep, SuperStep
<1>3. SuperInv => SomeSuperAdmin
  BY DEF SuperInv
<1> QED
  BY <1>1, <1>2, <1>3, PTL DEF Spec

\* Some other account is an active super admin.
Others(u) == \E o \in User \ {u} : SuperAdmin(o)

\* A handler about to write has seen another super admin, who is still there.
Guarded(j) ==
  /\ j.pc = "update" => j.row.role = "super_admin" \/ Others(j.on)
  /\ j.pc = "off" => Others(j.on)

\* There is an active super admin once there is an account at all, whatever was
\* written meanwhile.
AlwaysSuperAdmin == (\E u \in User : Has(u)) => \E u \in User : SuperAdmin(u)

SerialInv == AlwaysSuperAdmin /\ \A r \in Handler : Guarded(job[r])

\* Without a write to the accounts what a handler has seen is still so.
LEMMA GuardedStays ==
  ASSUME SerialInv, UNCHANGED user,
         \A r \in Handler : job'[r] = job[r] \/ Guarded(job'[r])
  PROVE  SerialInv'
BY DEF SerialInv, Guarded, Others, SuperAdmin, AlwaysSuperAdmin, Has

\* Steps that write no account: a handler comes to a write past the check, or
\* because the account it read is no super admin while another one is.
LEMMA ReadingGuarded ==
  ASSUME AccountsInv, SerialInv, Reading
  PROVE  SerialInv'
<1>t. AccountsTypeOK
  BY DEF AccountsInv
<1>1. ASSUME NEW r \in Handler, JobOnly(r), Guarded(job'[r]), UNCHANGED user
      PROVE  SerialInv'
  BY <1>1, GuardedStays DEF JobOnly
<1>2. CASE \/ \E e \in Email : Login(e)
           \/ \E s \in staff : Logout(s)
           \/ \E k \in Link, e \in Email : ForgotPassword(k, e)
           \/ \E k \in Link : Expire(k)
           \/ Sweep
  BY <1>2, GuardedStays DEF Login, Logout, ForgotPassword, Expire, Sweep
<1>3. CASE LoseMemory
  <2>1. \A r \in Handler : Guarded(job'[r])
    BY <1>3, RestingType DEF LoseMemory, Guarded
  <2> QED
    BY <1>3, <2>1, GuardedStays DEF LoseMemory
<1>4. ASSUME NEW r \in Handler, NEW k \in Link, ResetPassword(r, k)
      PROVE  SerialInv'
  <2>1. /\ JobOnly(r)
        /\ job'[r] = job[r] \/ job'[r].pc = "lookup"
        /\ UNCHANGED user
    BY <1>4, <1>t, ResetPasswordStep
  <2> QED
    BY <2>1, GuardedStays DEF JobOnly, Guarded
<1>5. ASSUME NEW r \in Handler, LookupReset(r) \/ UpdatePassword(r)
      PROVE  SerialInv'
  <2>1. /\ JobOnly(r)
        /\ job'[r].pc \in {"idle", "set"}
        /\ UNCHANGED user
    BY <1>5, <1>t, LookupResetStep, EndStep, RestingType DEF LookupReset, UpdatePassword
  <2> QED
    BY <1>1, <2>1 DEF Guarded
<1>6. ASSUME NEW r \in Handler, CheckLast(r)
      PROVE  SerialInv'
  <2>1. JobOnly(r) /\ Guarded(job'[r])
    BY <1>6, CheckLastStep, RestingType DEF Guarded, Others
  <2> QED
    BY <1>1, <1>6, <2>1 DEF CheckLast
<1>7. ASSUME NEW u \in User, Has(u), user[u].role # "super_admin"
      PROVE  Others(u)
  BY <1>7 DEF SerialInv, AlwaysSuperAdmin, Others, SuperAdmin
<1>8. ASSUME NEW r \in Handler, NEW s \in staff, NEW u \in User, NEW e \in Email,
             NEW role \in Given, UpdateUser(s, r, u, e, role)
      PROVE  SerialInv'
  <2>1. JobOnly(r) /\ Guarded(job'[r])
    BY <1>7, <1>8, UpdateUserStep DEF Guarded
  <2> QED
    BY <1>1, <1>8, <2>1 DEF UpdateUser
<1>9. ASSUME NEW r \in Handler, NEW s \in staff, NEW u \in User, DeactivateUser(s, r, u)
      PROVE  SerialInv'
  <2>1. JobOnly(r) /\ Guarded(job'[r])
    BY <1>7, <1>9, DeactivateUserStep DEF Guarded
  <2> QED
    BY <1>1, <1>9, <2>1 DEF DeactivateUser
<1> QED
  BY <1>2, <1>3, <1>4, <1>5, <1>6, <1>8, <1>9 DEF Reading

\* A row that is new, or seeded, takes no super admin away.
LEMMA NewRowGuarded ==
  ASSUME AccountsInv, SerialInv, NEW u \in User, NEW row \in UserRow,
         user' = [user EXCEPT ![u] = row], job' = Outdated(Null),
         SuperAdmin(u) => row.role = "super_admin" /\ row.active,
         \/ row.role = "super_admin" /\ row.active
         \/ \E o \in User : Has(o)
  PROVE  SerialInv'
<1>1. /\ user'[u] = row
      /\ \A o \in User : o # u => user'[o] = user[o]
      /\ \A r \in Handler : /\ job'[r].pc = job[r].pc
                            /\ job'[r].on = job[r].on
                            /\ job'[r].row = job[r].row
  BY NewRowStep DEF AccountsInv
<1>2. \A o \in User : SuperAdmin(o) => SuperAdmin(o)'
  BY <1>1 DEF SuperAdmin
<1>3. AlwaysSuperAdmin'
  <2>1. CASE row.role = "super_admin" /\ row.active
    BY <1>1, <2>1 DEF AlwaysSuperAdmin, SuperAdmin
  <2>2. CASE \E o \in User : Has(o)
    BY <1>2, <2>2 DEF SerialInv, AlwaysSuperAdmin
  <2> QED
    BY <2>1, <2>2
<1>4. ASSUME NEW r \in Handler
      PROVE  Guarded(job[r])'
  <2>1. \A x : Others(x) => \E o \in User \ {x} : SuperAdmin(o)'
    BY <1>2 DEF Others
  <2>2. Guarded(job[r])
    BY DEF SerialInv
  <2> QED
    BY <1>1, <2>1, <2>2 DEF Guarded, Others
<1> QED
  BY <1>3, <1>4 DEF SerialInv

\* The only handler writes what leaves a super admin behind, and is done.
LEMMA WrittenGuarded ==
  ASSUME \A q, r \in Handler : q = r,
         AccountsInv, SerialInv,
         NEW r \in Handler, NEW u \in User, NEW row \in UserRow,
         Write(r, u, row), Has(u),
         \/ Others(u)
         \/ row.role = "super_admin" /\ row.active = user[u].active
  PROVE  SerialInv'
<1>1. /\ user'[u] = row
      /\ \A o \in User : o # u => user'[o] = user[o]
      /\ job'[r] = Resting
  BY WriteStep DEF AccountsInv
<1>2. \A q \in Handler : Guarded(job[q])'
  BY <1>1, RestingType DEF Guarded
<1>3. PICK o \in User : SuperAdmin(o)
  BY DEF SerialInv, AlwaysSuperAdmin
<1>4. \E x \in User : SuperAdmin(x)'
  <2>1. CASE Others(u)
    BY <1>1, <2>1 DEF Others, SuperAdmin
  <2>2. CASE row.role = "super_admin" /\ row.active = user[u].active
    BY <1>1, <1>3, <2>2 DEF SuperAdmin
  <2> QED
    BY <2>1, <2>2
<1> QED
  BY <1>2, <1>4 DEF SerialInv, AlwaysSuperAdmin

\* The command seeds an account with another role than the one it gives when it
\* is told none.
SeedsOtherRole ==
  \E u \in User, e \in Email, role \in Given \ {"super_admin"} : Seed(u, e, role)

\* Every step of one handler at a time leaves a super admin behind, and so does a
\* command that is told no other role.
LEMMA SerialStep ==
  ASSUME \A q, r \in Handler : q = r
  PROVE  AccountsInv /\ SerialInv /\ [Next]_vars /\ [~SeedsOtherRole]_vars => SerialInv'
<1> SUFFICES ASSUME AccountsInv, SerialInv, [Next]_vars, [~SeedsOtherRole]_vars
             PROVE  SerialInv'
  OBVIOUS
<1>1. CASE Reading
  BY <1>1, ReadingGuarded
<1>2. ASSUME NEW u \in User, NEW e \in Email, NEW role \in Given, Seed(u, e, role),
             ~SeedsOtherRole
      PROVE  SerialInv'
  <2> DEFINE row == [email |-> e, role |-> role, active |-> TRUE]
  <2>0. role = "super_admin"
    BY <1>2 DEF SeedsOtherRole
  <2>1. row \in UserRow /\ row.role = "super_admin" /\ row.active
    BY <2>0, GivenAssumption DEF UserRow
  <2>2. user' = [user EXCEPT ![u] = row] /\ job' = Outdated(Null)
    BY <1>2 DEF Seed
  <2> HIDE DEF row
  <2> QED
    BY <2>1, <2>2, NewRowGuarded
<1>3. ASSUME NEW s \in staff, NEW u \in User, NEW e \in Email, NEW role \in Given,
             CreateUser(s, u, e, role)
      PROVE  SerialInv'
  <2> DEFINE row == [email |-> e, role |-> role, active |-> TRUE]
  <2>1. row \in UserRow
    BY GivenAssumption DEF UserRow
  <2>2. /\ user' = [user EXCEPT ![u] = row]
        /\ job' = Outdated(Null)
        /\ ~Has(u)
    BY <1>3 DEF CreateUser
  <2> HIDE DEF row
  <2>3. Has(s.who) /\ s.who \in User
    BY DEF AccountsInv, AccountsTypeOK
  <2>4. ~SuperAdmin(u)
    BY <2>2, NoAccountAssumption DEF AccountsInv, Has, NoUser, Entered, SuperAdmin
  <2> QED
    BY <2>1, <2>2, <2>3, <2>4, NewRowGuarded
<1>4. ASSUME NEW r \in Handler, Update(r)
      PROVE  SerialInv'
  <2>1. CASE JobOnly(r) /\ job'[r] = Resting /\ UNCHANGED <<user, raced, emptied>>
    <3>1. Guarded(job'[r])
      BY <2>1, RestingType DEF Guarded
    <3> QED
      BY <2>1, <3>1, GuardedStays DEF JobOnly
  <2>2. ASSUME NEW row \in UserRow,
               row.role = job[r].row.role,
               row.active = user[job[r].on].active,
               Write(r, job[r].on, row)
        PROVE  SerialInv'
    <3>1. job[r].pc = "update" /\ job[r].on \in User /\ Has(job[r].on)
      BY <1>4, UpdateStep DEF AccountsInv, GoodJob
    <3>2. Others(job[r].on) \/ row.role = "super_admin"
      BY <2>2, <3>1 DEF SerialInv, Guarded
    <3> QED
      BY <2>2, <3>1, <3>2, WrittenGuarded
  <2> QED
    BY <1>4, <2>1, <2>2, UpdateStep
<1>5. ASSUME NEW r \in Handler, Deactivate(r)
      PROVE  SerialInv'
  <2>1. PICK u \in User : u = job[r].on
    BY <1>5, DeactivateStep
  <2>2. Has(u) /\ Others(u)
    BY <1>5, <2>1, DeactivateStep DEF AccountsInv, GoodJob, SerialInv, Guarded
  <2>3. PICK row \in UserRow : Write(r, u, row)
    BY <1>5, <2>1, DeactivateStep
  <2> QED
    BY <2>2, <2>3, WrittenGuarded
<1>6. CASE UNCHANGED accountVars
  BY <1>6, GuardedStays DEF accountVars
<1>7. CASE UNCHANGED vars
  BY <1>6, <1>7 DEF vars
<1> QED
  BY <1>1, <1>2, <1>3, <1>4, <1>5, <1>6, <1>7, AccountMoves

\* With one handler at a time there is always an active super admin once there
\* is an account, as long as the command that seeds an account is told no other
\* role than the super admin's it gives by itself.  It may run between the check
\* and the write; told another role, it takes the super admin away that the check
\* has found, and the write takes the last.
THEOREM SerialKeepsSuperAdmin ==
  ASSUME \A q, r \in Handler : q = r
  PROVE  Spec /\ [][~SeedsOtherRole]_vars => []AlwaysSuperAdmin
<1>1. Init => AccountsInv /\ SerialInv
  <2>1. Init => AccountsInv
    BY AccountsTypeInit DEF Init
  <2>2. Init => SerialInv
    BY RestingType DEF Init, AccountsInit, SerialInv, AlwaysSuperAdmin, Has, NoUser, Guarded
  <2> QED
    BY <2>1, <2>2
<1>2. AccountsInv /\ SerialInv /\ [Next]_vars /\ [~SeedsOtherRole]_vars
        => (AccountsInv /\ SerialInv)'
  BY AccountsStep, SerialStep
<1>3. SerialInv => AlwaysSuperAdmin
  BY DEF SerialInv
<1> QED
  BY <1>1, <1>2, <1>3, PTL DEF Spec

-----------------------------------------------------------------------------
(* A link works once.                                                      *)

\* A step that redeems no link, and writes no password, keeps every link's
\* redeemer; a link that is gone never comes back.
LEMMA LinkStays ==
  ASSUME LinkInv, UNCHANGED resets,
         \A k \in Link : link'[k].state # "gone" => link[k].state # "gone",
         \A r \in Handler : \/ job'[r].pc \in {"lookup", "set"} =>
                                 /\ job[r].pc \in {"lookup", "set"}
                                 /\ job'[r].via = job[r].via
  PROVE  LinkInv'
<1>1. \A r \in Handler, k \in Link : Redeems(job'[r], k) => Redeems(job[r], k)
  BY DEF Redeems
<1> QED
  BY <1>1 DEF LinkInv, LinkWorksOnce, Redeems

\* A link that is redeemed is gone before its handler goes on, so that nobody
\* redeems it again.
LEMMA LinkStep == AccountsInv /\ LinkInv /\ [Next]_vars => LinkInv'
<1> SUFFICES ASSUME AccountsInv, LinkInv, [Next]_vars PROVE LinkInv'
  OBVIOUS
<1>t. /\ AccountsTypeOK
      /\ \A r \in Handler : GoodJob(job[r])
  BY DEF AccountsInv
<1>1. ASSUME UNCHANGED <<job, resets>>,
             \A k \in Link : link'[k].state # "gone" => link[k].state # "gone"
      PROVE  LinkInv'
  BY <1>1, LinkStays
<1>2. ASSUME NEW r \in Handler, JobOnly(r), UNCHANGED <<link, resets>>,
             \/ job'[r].pc \notin {"lookup", "set"}
             \/ job[r].pc \in {"lookup", "set"} /\ job'[r].via = job[r].via
      PROVE  LinkInv'
  BY <1>2, LinkStays DEF JobOnly
<1>3. CASE \/ \E e \in Email : Login(e)
           \/ \E s \in staff : Logout(s)
           \/ \E k \in Link, e \in Email : ForgotPassword(k, e)
           \/ \E k \in Link : Expire(k)
           \/ Sweep
  <2>1. UNCHANGED <<job, resets>>
    BY <1>3 DEF Login, Logout, ForgotPassword, Expire, Sweep
  <2>2. ASSUME NEW k \in Link, NEW o \in Link,
               (\E e \in Email : ForgotPassword(o, e)) \/ Expire(o),
               link'[k].state # "gone"
        PROVE  link[k].state # "gone"
    BY <1>t, <2>2 DEF ForgotPassword, Expire, AccountsTypeOK, LinkRow
  <2>3. ASSUME NEW k \in Link, Sweep, link'[k].state # "gone"
        PROVE  link[k].state # "gone"
    BY <2>3 DEF Sweep
  <2>4. ASSUME NEW k \in Link, (\E e \in Email : Login(e)) \/ (\E s \in staff : Logout(s)),
               link'[k].state # "gone"
        PROVE  link[k].state # "gone"
    BY <2>4 DEF Login, Logout
  <2> QED
    BY <1>1, <1>3, <2>1, <2>2, <2>3, <2>4
<1>4. CASE LoseMemory
  <2>1. \A r \in Handler : job'[r].pc = "idle"
    BY <1>4, RestingType DEF LoseMemory
  <2>2. \A k \in Link : link'[k].state # "gone" => link[k].state # "gone"
    BY <1>4 DEF LoseMemory
  <2> QED
    BY <1>4, <2>1, <2>2, LinkStays DEF LoseMemory
<1>5. ASSUME NEW r \in Handler, NEW k \in Link, ResetPassword(r, k)
      PROVE  LinkInv'
  <2>1. /\ link[k].state # "gone"
        /\ link'[k].state = "gone"
        /\ \A o \in Link : o # k => link'[o] = link[o]
        /\ JobOnly(r)
        /\ \/ job'[r] = job[r]
           \/ job'[r].pc = "lookup" /\ job'[r].via = k
        /\ UNCHANGED resets
    BY <1>5, <1>t, ResetPasswordStep
  <2>2. /\ resets[k] = 0
        /\ \A o \in Handler : ~Redeems(job[o], k)
    BY <2>1 DEF LinkInv
  <2>3. \A o \in Handler, x \in Link :
          Redeems(job'[o], x) => Redeems(job[o], x) \/ (o = r /\ x = k)
    BY <2>1 DEF Redeems, JobOnly
  <2>4. ASSUME NEW x \in Link, link'[x].state # "gone"
        PROVE  resets'[x] = 0 /\ \A o \in Handler : ~Redeems(job'[o], x)
    BY <2>1, <2>3, <2>4 DEF LinkInv
  <2>5. \A x \in Link, o \in Handler : Redeems(job'[o], x) => resets'[x] = 0
    BY <2>1, <2>2, <2>3 DEF LinkInv
  <2>6. \A x \in Link, o, s \in Handler :
          Redeems(job'[o], x) /\ Redeems(job'[s], x) => o = s
    BY <2>2, <2>3 DEF LinkInv
  <2> QED
    BY <2>1, <2>4, <2>5, <2>6 DEF LinkInv, LinkWorksOnce, Redeems
<1>6. ASSUME NEW r \in Handler, LookupReset(r)
      PROVE  LinkInv'
  BY <1>2, <1>6, <1>t, LookupResetStep, RestingType DEF LookupReset
<1>7. ASSUME NEW r \in Handler, UpdatePassword(r)
      PROVE  LinkInv'
  <2> DEFINE k == job[r].via
  <2>1. /\ k \in Link
        /\ Redeems(job[r], k)
        /\ JobOnly(r)
        /\ job'[r].pc = "idle"
        /\ resets' = [resets EXCEPT ![k] = @ + 1]
        /\ UNCHANGED link
    BY <1>7, <1>t, EndStep, RestingType DEF UpdatePassword, JobAt, GoodJob, Redeems
  <2>2. resets[k] = 0 /\ link[k].state = "gone"
    BY <2>1 DEF LinkInv
  <2>3. \A x \in Link : x # k => resets'[x] = resets[x]
    BY <1>t, <2>1 DEF AccountsTypeOK
  <2>4. resets'[k] = 1
    BY <1>t, <2>1, <2>2 DEF AccountsTypeOK
  <2>5. \A o \in Handler, x \in Link : Redeems(job'[o], x) => Redeems(job[o], x) /\ x # k
    BY <2>1 DEF Redeems, JobOnly, LinkInv
  <2>6. LinkWorksOnce'
    BY <2>3, <2>4 DEF LinkInv, LinkWorksOnce
  <2>7. ASSUME NEW x \in Link, link'[x].state # "gone"
        PROVE  resets'[x] = 0 /\ \A o \in Handler : ~Redeems(job'[o], x)
    BY <2>1, <2>2, <2>3, <2>5, <2>7 DEF LinkInv
  <2>8. \A x \in Link, o \in Handler : Redeems(job'[o], x) => resets'[x] = 0
    BY <2>3, <2>5 DEF LinkInv
  <2>9. \A x \in Link, o, s \in Handler :
          Redeems(job'[o], x) /\ Redeems(job'[s], x) => o = s
    BY <2>5 DEF LinkInv
  <2> QED
    BY <2>6, <2>7, <2>8, <2>9 DEF LinkInv, Redeems
<1>8. ASSUME NEW r \in Handler, CheckLast(r)
      PROVE  LinkInv'
  <2>1. JobOnly(r) /\ job'[r].pc \notin {"lookup", "set"}
    BY <1>8, CheckLastStep, RestingType
  <2> QED
    BY <1>2, <1>8, <2>1 DEF CheckLast
<1>9. ASSUME NEW r \in Handler, NEW s \in staff, NEW u \in User, NEW e \in Email,
             NEW role \in Given, UpdateUser(s, r, u, e, role)
      PROVE  LinkInv'
  <2>1. JobOnly(r) /\ job'[r].pc \notin {"lookup", "set"}
    BY <1>9, UpdateUserStep
  <2> QED
    BY <1>2, <1>9, <2>1 DEF UpdateUser
<1>10. ASSUME NEW r \in Handler, NEW s \in staff, NEW u \in User, DeactivateUser(s, r, u)
       PROVE  LinkInv'
  <2>1. JobOnly(r) /\ job'[r].pc \notin {"lookup", "set"}
    BY <1>10, DeactivateUserStep
  <2> QED
    BY <1>2, <1>10, <2>1 DEF DeactivateUser
<1>11. ASSUME UNCHANGED <<link, resets>>,
              \A r \in Handler : \/ job'[r].pc = "idle"
                                 \/ job'[r].pc = job[r].pc /\ job'[r].via = job[r].via
       PROVE  LinkInv'
  BY <1>11, LinkStays
<1>12. ASSUME NEW u \in User, NEW e \in Email, NEW role \in Given, Seed(u, e, role)
       PROVE  LinkInv'
  BY <1>11, <1>12, <1>t, OutdatedJobs DEF Seed
<1>13. ASSUME NEW s \in staff, NEW u \in User, NEW e \in Email, NEW role \in Given,
              CreateUser(s, u, e, role)
       PROVE  LinkInv'
  BY <1>11, <1>13, <1>t, OutdatedJobs DEF CreateUser
<1>14. ASSUME NEW r \in Handler, NEW u \in User, NEW row \in UserRow, Write(r, u, row),
              UNCHANGED <<link, resets>>
       PROVE  LinkInv'
  <2>1. \A o \in Handler : \/ job'[o].pc = "idle"
                           \/ job'[o].pc = job[o].pc /\ job'[o].via = job[o].via
    BY <1>14, <1>t, WriteStep, RestingType
  <2> QED
    BY <1>11, <1>14, <2>1
<1>15. ASSUME NEW r \in Handler, Update(r)
       PROVE  LinkInv'
  <2>1. CASE JobOnly(r) /\ job'[r] = Resting
    BY <1>2, <1>15, <2>1, UpdateStep, RestingType
  <2>2. CASE ~(JobOnly(r) /\ job'[r] = Resting)
    BY <1>14, <1>15, <2>2, UpdateStep
  <2> QED
    BY <2>1, <2>2
<1>16. ASSUME NEW r \in Handler, Deactivate(r)
       PROVE  LinkInv'
  BY <1>14, <1>16, DeactivateStep
<1>17. CASE UNCHANGED accountVars
  BY <1>1, <1>17 DEF accountVars
<1> QED
  BY <1>3, <1>4, <1>5, <1>6, <1>7, <1>8, <1>9, <1>10, <1>12, <1>13, <1>15, <1>16, <1>17,
     AccountMoves
  DEF Reading

\* A reset link sets at most one password, however many requests redeem it and
\* whenever the process goes down between redeeming and writing.
THEOREM LinksWorkOnce == Spec => []LinkWorksOnce
<1>1. Init => AccountsInv /\ LinkInv
  <2>1. Init => AccountsInv
    BY AccountsTypeInit DEF Init
  <2>2. Init => LinkInv
    BY RestingType DEF Init, AccountsInit, LinkInv, LinkWorksOnce, Redeems
  <2> QED
    BY <2>1, <2>2
<1>2. AccountsInv /\ LinkInv /\ [Next]_vars => (AccountsInv /\ LinkInv)'
  BY AccountsStep, LinkStep
<1>3. LinkInv => LinkWorksOnce
  BY DEF LinkInv
<1> QED
  BY <1>1, <1>2, <1>3, PTL DEF Spec
=============================================================================
