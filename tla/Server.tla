------------------------------- MODULE Server -------------------------------
(***************************************************************************)
(* The process that serves: it brings the schema up before it answers      *)
(* anything, its staff and participants then work through their sessions,  *)
(* and when it goes down the handlers in flight and the reset links go     *)
(* with it while sessions, files and rows stay.                            *)
(***************************************************************************)
EXTENDS Migrations, Accounts, Portal

CONSTANT
  Budgets        \* bounds on what happens, one of which a behaviour keeps to

\* What the operator, the staff and the participants ask of the system, and the
\* processes that die.
Events == {"operator", "staff", "portal", "faults"}

ASSUME BudgetAssumption == Budgets \subseteq [Events -> Nat]

VARIABLE budget  \* what may still happen

vars == <<migrationVars, accountVars, portalVars, budget>>

TypeOK ==
  /\ MigrationsTypeOK
  /\ AccountsTypeOK
  /\ PortalTypeOK
  /\ budget \in [Events -> Nat]

Init ==
  /\ MigrationsInit
  /\ AccountsInit
  /\ PortalInit
  /\ budget \in Budgets

-----------------------------------------------------------------------------
Spend(what) ==
  /\ budget[what] > 0
  /\ budget' = [budget EXCEPT ![what] = @ - 1]

\* The roles of the groups of routes the model goes through.
Ops == {"super_admin", "admin"}

\* The server starts by itself, as often as it went down; the command is run by
\* somebody.
Migrating ==
  /\ \/ ReadLedger(Api) /\ UNCHANGED budget
     \/ (ReadLedger(Operator) \/ Down) /\ Spend("operator")
     \/ Migrate /\ UNCHANGED budget
  /\ UNCHANGED <<accountVars, portalVars>>

\* A command of its own, with or without a server.  The first account is not
\* counted: nothing happens without it.
Seeding ==
  /\ 1 \in schema
  /\ \E u \in User, e \in Email, role \in Given : Seed(u, e, role)
  /\ IF \E u \in User : Has(u) THEN Spend("staff") ELSE UNCHANGED budget
  /\ UNCHANGED <<migrationVars, portalVars>>

StaffCalls ==
  /\ Serving
  /\ Spend("staff")
  /\ \/ \E e \in Email : Login(e) \/ \E k \in Link : ForgotPassword(k, e)
     \/ \E r \in Handler, k \in Link : ResetPassword(r, k)
     \/ \E s \in staff, u \in User, e \in Email, role \in Given :
          CreateUser(s, u, e, role) \/ \E r \in Handler : UpdateUser(s, r, u, e, role)
     \/ \E s \in staff, u \in User, r \in Handler : DeactivateUser(s, r, u)
     \/ \E s \in staff : Logout(s)
  /\ UNCHANGED <<migrationVars, portalVars>>

\* Links expire, and days pass, when somebody can tell: before the server serves
\* nobody can.
StaffSteps ==
  /\ Serving
  /\ \/ AccountSteps
     \/ \E k \in Link : Expire(k)
  /\ UNCHANGED <<migrationVars, portalVars, budget>>

PortalCalls ==
  /\ Serving
  /\ Spend("portal")
  /\ \/ \E t \in Tour : Book(t) \/ ConfirmPaid(t) \/ Erase(t)
     \/ \E p \in Phone : PortalLogin(p)
     \/ \E s \in portal :
          \/ PortalItinerary(s) \/ PortalBatchLeader(s) \/ PortalBriefingPDF(s)
          \/ \E t \in Tour : PortalTripItinerary(s, t)
          \/ UploadScan(s) \/ UploadPaymentProof(s)
          \/ \E f \in File, path \in Paths :
               RecordDocument(s, f, path) \/ PortalUploadProof(s, f, path)
          \/ \E f \in File : SignedURLForPortal(s, f)
     \/ \E s \in staff, f \in File : RequireRole(s, Ops) /\ SignedURLForStaff(f)
  /\ UNCHANGED <<migrationVars, accountVars>>

PortalSteps ==
  /\ Serving
  /\ NextDay
  /\ UNCHANGED <<migrationVars, accountVars, budget>>

\* A process dies: the server's memory goes with it.
Die(p) ==
  /\ Spend("faults")
  /\ Crash(p)
  /\ IF p = Api THEN LoseMemory ELSE UNCHANGED accountVars
  /\ UNCHANGED portalVars

Next ==
  \/ Migrating
  \/ Seeding
  \/ StaffCalls
  \/ StaffSteps
  \/ PortalCalls
  \/ PortalSteps
  \/ \E p \in Process : Die(p)

Spec == Init /\ [][Next]_vars
=============================================================================
