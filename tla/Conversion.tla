----------------------------- MODULE Conversion -----------------------------
(***************************************************************************)
(* How a lead of the CRM becomes a participant with a portal account and   *)
(* an invoice: the public form, the consultants who move a lead along, the *)
(* nightly job that expires stale leads, the conversion by an admin, and   *)
(* the numbering of the invoice that follows it.                           *)
(*                                                                         *)
(* The conversion is one READ COMMITTED transaction: each of its           *)
(* statements sees what was committed when that statement began, what it   *)
(* writes appears at the commit, and a row or a unique key that an open    *)
(* transaction wrote makes other writers of it wait.  A change of status   *)
(* is one statement with two moments: it reads the status it leaves in its *)
(* snapshot, and it writes, perhaps later, the row as it is by then.       *)
(***************************************************************************)
EXTENDS Naturals, FiniteSets

CONSTANTS
  Lead,
  Phone,
  PhoneOf,       \* the phone number a lead left
  Known,         \* phones that have a portal account already
  Participant,   \* identifiers of participant rows
  Password,
  OldPassword,   \* the password of the accounts that exist already
  Request,       \* handlers and jobs that can be in flight at the same time
  Targets,       \* the statuses people move leads to in this instance
  MaxMoves,      \* bound on those moves
  MaxInvoices,   \* bound on invoices, for the ones written by hand
  Fallible,      \* the points at which a handler may die
  MaxFaults,     \* bound on the handlers that die
  Null

Statuses == {"baru", "dihubungi", "konsultasi", "deal", "tidak_deal", "peserta"}

Labels == {"idle", "write", "lookup", "create", "snapshot", "mark", "commit",
           "announce", "number", "issue"}

ASSUME PhoneAssumption == PhoneOf \in [Lead -> Phone] /\ Known \subseteq Phone
ASSUME PasswordAssumption == OldPassword \in Password
ASSUME InstanceAssumption ==
  /\ Targets \subseteq Statuses
  /\ Fallible \subseteq Labels
  /\ MaxMoves \in Nat /\ MaxInvoices \in Nat /\ MaxFaults \in Nat
ASSUME NullAssumption ==
  Null \notin Lead \cup Participant \cup Password \cup Statuses

VARIABLES
  leadStatus,    \* leads.status, Null before the form is sent
  trail,         \* lead_status_history: lead, status left, status reached
  accounts,      \* portal_users: the password of a phone's account
  participants,  \* participants
  invoices,      \* invoices: whom they bill and their number in the month
  task,          \* the handlers in flight
  told,          \* history: temporary passwords that reached somebody
  reopened,      \* history: leads moved by hand after they were "peserta"
  excused,       \* history: participants whose invoice a failure or a rival took
  moves,         \* moves people made
  faults         \* handlers that died

rows == <<leadStatus, trail, accounts, participants, invoices>>
history == <<told, reopened, excused>>
counters == <<moves, faults>>
vars == <<rows, task, history, counters>>

Task ==
  [pc : Labels, lead : Lead \cup {Null}, row : Participant \cup {Null},
   seen : SUBSET (Lead \X Statuses), to : Statuses \cup {Null},
   password : Password \cup {Null}, fresh : BOOLEAN, number : Nat]

Idle == [pc |-> "idle", lead |-> Null, row |-> Null, seen |-> {}, to |-> Null,
         password |-> Null, fresh |-> FALSE, number |-> 0]

\* "fresh" is the opposite of ReusedAccount: the conversion issued the account.
Row == [lead : Lead \cup {Null}, password : Password \cup {Null}, fresh : BOOLEAN]

NoRow == [lead |-> Null, password |-> Null, fresh |-> FALSE]

TypeOK ==
  /\ leadStatus \in [Lead -> Statuses \cup {Null}]
  /\ trail \subseteq Lead \X Statuses \X Statuses
  /\ accounts \in [Phone -> Password \cup {Null}]
  /\ participants \in [Participant -> Row]
  /\ invoices \subseteq Participant \X Nat
  /\ task \in [Request -> Task]
  /\ told \subseteq Phone \X Password
  /\ reopened \subseteq Lead
  /\ excused \subseteq Participant
  /\ moves \in 0..MaxMoves
  /\ faults \in 0..MaxFaults

Init ==
  /\ leadStatus = [l \in Lead |-> Null]
  /\ trail = {}
  /\ accounts = [n \in Phone |-> IF n \in Known THEN OldPassword ELSE Null]
  /\ participants = [p \in Participant |-> NoRow]
  /\ invoices = {}
  /\ task = [r \in Request |-> Idle]
  /\ told = {}
  /\ reopened = {}
  /\ excused = {}
  /\ moves = 0
  /\ faults = 0

-----------------------------------------------------------------------------
At(r, s) == task[r].pc = s
Start(r, t) == At(r, "idle") /\ task' = [task EXCEPT ![r] = t]
Goto(r, s) == task' = [task EXCEPT ![r].pc = s]
Finish(r) == task' = [task EXCEPT ![r] = Idle]

Exists(p) == participants[p].lead # Null

PhoneOfTask(r) == PhoneOf[task[r].lead]

\* An open conversion holds the lead it has marked, until it commits.
Locked(l) == \E q \in Request : At(q, "commit") /\ task[q].lead = l

\* An open conversion holds the phone of the account it inserted.
Holds(q, n) ==
  /\ task[q].pc \in {"snapshot", "mark", "commit"}
  /\ task[q].fresh
  /\ PhoneOfTask(q) = n

-----------------------------------------------------------------------------
(* The pipeline.                                                           *)

\* The public form; whose lead it is and whether the customer is a returning
\* one are left out.
CreateLead(l) ==
  /\ leadStatus[l] = Null
  /\ leadStatus' = [leadStatus EXCEPT ![l] = "baru"]
  /\ UNCHANGED <<trail, accounts, participants, invoices, task, history, counters>>

\* Any status may follow any other.
StartMove(r, l, s) ==
  /\ leadStatus[l] # Null
  /\ s \in Targets
  /\ moves < MaxMoves
  /\ moves' = moves + 1
  /\ Start(r, [Idle EXCEPT !.pc = "write", !.seen = {<<l, leadStatus[l]>>}, !.to = s])
  /\ UNCHANGED <<rows, history, faults>>

\* The statuses the nightly job gives up on after 30 days without a change.
Stale == {l \in Lead : leadStatus[l] \in {"baru", "dihubungi", "konsultasi"}}

\* Mutant: expired leads get a status of their own.
StartExpire_Expired(r, S) ==
  /\ S \subseteq Stale
  /\ S # {}
  /\ Start(r, [Idle EXCEPT !.pc = "write", !.to = "expired",
                           !.seen = {<<l, leadStatus[l]>> : l \in S}])
  /\ UNCHANGED <<rows, history, counters>>

\* S is the stale leads whose 30 days are over.
StartExpire(r, S) ==
  /\ S \subseteq Stale
  /\ S # {}
  /\ Start(r, [Idle EXCEPT !.pc = "write", !.to = "tidak_deal",
                           !.seen = {<<l, leadStatus[l]>> : l \in S}])
  /\ UNCHANGED <<rows, history, counters>>

SeenLeads(r) == {l \in Lead : \E s \in Statuses : <<l, s>> \in task[r].seen}

\* The statement reaches its rows: it writes them whatever their status is by
\* now, and records the status its snapshot saw.  An abstraction: it takes all
\* its rows at once, where an expiry of many leads locks them one by one.
WriteStatus(r) ==
  /\ At(r, "write")
  /\ \A l \in SeenLeads(r) : ~Locked(l)
  /\ leadStatus' = [l \in Lead |-> IF l \in SeenLeads(r) THEN task[r].to ELSE leadStatus[l]]
  /\ trail' = trail \cup {<<x[1], x[2], task[r].to>> : x \in task[r].seen}
  /\ reopened' = reopened \cup {l \in SeenLeads(r) : leadStatus[l] = "peserta"}
  /\ Finish(r)
  /\ UNCHANGED <<accounts, participants, invoices, told, excused, counters>>

-----------------------------------------------------------------------------
(* The conversion.                                                         *)

\* The lead is read, and refused unless it is a deal, before the unit begins.
StartConvert(r, l) ==
  /\ leadStatus[l] = "deal"
  /\ Start(r, [Idle EXCEPT !.pc = "lookup", !.lead = l])
  /\ UNCHANGED <<rows, history, counters>>

\* Mutant: a returning customer is given another password.
LookupAccount_NewPassword(r) ==
  /\ At(r, "lookup")
  /\ \E w \in Password \ {OldPassword} :
        /\ \A q \in Request : task[q].password # w
        /\ \A n \in Phone : accounts[n] # w
        /\ task' = [task EXCEPT ![r].pc = IF accounts[PhoneOfTask(r)] = Null
                                          THEN "create" ELSE "snapshot",
                                ![r].password = w]
  /\ UNCHANGED <<rows, history, counters>>

\* resolvePortalIdentity: reuse the account of the phone, or generate a password.
LookupAccount(r) ==
  LET old == accounts[PhoneOfTask(r)] IN
  /\ At(r, "lookup")
  /\ IF old # Null
     THEN task' = [task EXCEPT ![r] = [@ EXCEPT !.pc = "snapshot", !.password = old]]
     ELSE \E w \in Password \ {OldPassword} :
            /\ \A q \in Request : task[q].password # w
            /\ \A n \in Phone : accounts[n] # w
            /\ task' = [task EXCEPT ![r] = [@ EXCEPT !.pc = "create", !.password = w]]
  /\ UNCHANGED <<rows, history, counters>>

\* Mutant: an account that appeared meanwhile is overwritten, not refused.
CreateAccount_Upsert(r) ==
  /\ At(r, "create")
  /\ task' = [task EXCEPT ![r] = [@ EXCEPT !.pc = "snapshot", !.fresh = TRUE]]
  /\ UNCHANGED <<rows, history, counters>>

\* Mutant: the account is committed at once, outside the unit.
CreateAccount_Autocommit(r) ==
  /\ At(r, "create")
  /\ accounts[PhoneOfTask(r)] = Null
  /\ accounts' = [accounts EXCEPT ![PhoneOfTask(r)] = task[r].password]
  /\ task' = [task EXCEPT ![r] = [@ EXCEPT !.pc = "snapshot", !.fresh = TRUE]]
  /\ UNCHANGED <<leadStatus, trail, participants, invoices, history, counters>>

\* The phone is unique: the insert waits for an open one, and a phone that has
\* an account by now ends the unit.
CreateAccount(r) ==
  /\ At(r, "create")
  /\ \A q \in Request : ~Holds(q, PhoneOfTask(r))
  /\ IF accounts[PhoneOfTask(r)] = Null
     THEN task' = [task EXCEPT ![r] = [@ EXCEPT !.pc = "snapshot", !.fresh = TRUE]]
     ELSE Finish(r)
  /\ UNCHANGED <<rows, history, counters>>

\* Mutant: the lead is marked whatever its status is.
SnapshotLead_AnyStatus(r) ==
  LET l == task[r].lead IN
  /\ At(r, "snapshot")
  /\ task' = [task EXCEPT ![r] =
                [@ EXCEPT !.pc = "mark", !.seen = {<<l, leadStatus[l]>>}]]
  /\ UNCHANGED <<rows, history, counters>>

\* The participant is inserted, and MarkConverted begins: unless its snapshot
\* says "deal", the unit is rolled back with ErrNotConvertible.
SnapshotLead(r) ==
  LET l == task[r].lead IN
  /\ At(r, "snapshot")
  /\ IF leadStatus[l] = "deal"
     THEN task' = [task EXCEPT ![r] =
                     [@ EXCEPT !.pc = "mark", !.seen = {<<l, "deal">>}]]
     ELSE Finish(r)
  /\ UNCHANGED <<rows, history, counters>>

\* Mutant: waits for every conversion that has read the lead.
MarkConverted_SharedLock(r) ==
  /\ At(r, "mark")
  /\ \A q \in Request \ {r} :
        task[q].pc \in {"mark", "commit"} => task[q].lead # task[r].lead
  /\ Goto(r, "commit")
  /\ UNCHANGED <<rows, history, counters>>

\* The update waits for the row.  What it tests is the snapshot and the id, so
\* the version it finds afterwards is written whatever its status is.
MarkConverted(r) ==
  /\ At(r, "mark")
  /\ ~Locked(task[r].lead)
  /\ Goto(r, "commit")
  /\ UNCHANGED <<rows, history, counters>>

CommitConversion(r) ==
  LET l == task[r].lead
      w == task[r].password
  IN
  /\ At(r, "commit")
  /\ accounts' = IF task[r].fresh THEN [accounts EXCEPT ![PhoneOf[l]] = w] ELSE accounts
  /\ leadStatus' = [leadStatus EXCEPT ![l] = "peserta"]
  /\ trail' = trail \cup {<<x[1], x[2], "peserta">> : x \in task[r].seen}
  /\ \E p \in Participant :
       /\ ~Exists(p)
       /\ participants' = [participants EXCEPT ![p] =
                             [lead |-> l, password |-> w, fresh |-> task[r].fresh]]
       /\ task' = [task EXCEPT ![r] =
                     [@ EXCEPT !.row = p, !.pc = IF task[r].fresh THEN "announce" ELSE "number"]]
  /\ UNCHANGED <<invoices, history, counters>>

\* The temporary password goes out over WhatsApp, and may not arrive.
Announce(r) ==
  /\ At(r, "announce")
  /\ \/ told' = told \cup {<<PhoneOfTask(r), task[r].password>>}
     \/ UNCHANGED told
  /\ Goto(r, "number")
  /\ UNCHANGED <<rows, reopened, excused, counters>>

-----------------------------------------------------------------------------
(* The invoice: after a conversion, or by the hand of an admin.            *)

StartInvoice(r, p) ==
  /\ Exists(p)
  /\ Cardinality(invoices) < MaxInvoices
  /\ Start(r, [Idle EXCEPT !.pc = "number", !.row = p])
  /\ UNCHANGED <<rows, history, counters>>

Numbers == {v[2] : v \in invoices}

\* Mutant: draws the highest number itself, not the one after it.
TakeNumber_Last(r) ==
  /\ At(r, "number")
  /\ \E m \in Numbers \cup {0} :
       /\ \A n \in Numbers : n <= m
       /\ task' = [task EXCEPT ![r] = [@ EXCEPT !.number = m, !.pc = "issue"]]
  /\ UNCHANGED <<rows, history, counters>>

\* NextSequence: the highest number of the month and one.
TakeNumber(r) ==
  /\ At(r, "number")
  /\ \E m \in Numbers \cup {0} :
       /\ \A n \in Numbers : n <= m
       /\ task' = [task EXCEPT ![r] = [@ EXCEPT !.number = m + 1, !.pc = "issue"]]
  /\ UNCHANGED <<rows, history, counters>>

\* What the handler answers in the end: the password it issued, if any.
Respond(r) ==
  told' = IF task[r].fresh
          THEN told \cup {<<PhoneOfTask(r), task[r].password>>} ELSE told

\* The participants whose handlers hold the number that this insert takes.
Rivals(r) ==
  {task[q].row : q \in {q \in Request \ {r} :
                          At(q, "issue") /\ task[q].number = task[r].number}}

\* Mutant: the response leaves the password to WhatsApp.
IssueInvoice_Silent(r) ==
  /\ At(r, "issue")
  /\ \/ /\ task[r].number \notin Numbers
        /\ invoices' = invoices \cup {<<task[r].row, task[r].number>>}
        /\ excused' = excused \cup Rivals(r)
     \/ task[r].number \in Numbers /\ UNCHANGED <<invoices, excused>>
  /\ Finish(r)
  /\ UNCHANGED <<leadStatus, trail, accounts, participants, told, reopened, counters>>

\* The number is unique: the insert fails when it is taken by now.  A conversion
\* logs that and answers all the same.
IssueInvoice(r) ==
  /\ At(r, "issue")
  /\ \/ /\ task[r].number \notin Numbers
        /\ invoices' = invoices \cup {<<task[r].row, task[r].number>>}
        /\ excused' = excused \cup Rivals(r)
     \/ task[r].number \in Numbers /\ UNCHANGED <<invoices, excused>>
  /\ Respond(r)
  /\ Finish(r)
  /\ UNCHANGED <<leadStatus, trail, accounts, participants, reopened, counters>>

\* The departure, the number or the insert fails for another reason: logged, and
\* answered all the same.
FailInvoice(r) ==
  /\ task[r].pc \in {"number", "issue"}
  /\ excused' = excused \cup {task[r].row}
  /\ Respond(r)
  /\ Finish(r)
  /\ UNCHANGED <<rows, reopened, counters>>

-----------------------------------------------------------------------------
\* A handler dies or a statement of it fails: an open unit is rolled back, what
\* was committed stays.
Die(r) ==
  /\ task[r].pc \in Fallible \ {"idle"}
  /\ faults < MaxFaults
  /\ faults' = faults + 1
  /\ excused' = excused \cup ({task[r].row} \ {Null})
  /\ Finish(r)
  /\ UNCHANGED <<rows, told, reopened, moves>>

Handle(r) ==
  \/ WriteStatus(r)
  \/ LookupAccount(r)
  \/ CreateAccount(r)
  \/ SnapshotLead(r)
  \/ MarkConverted(r)
  \/ CommitConversion(r)
  \/ Announce(r)
  \/ TakeNumber(r)
  \/ IssueInvoice(r)
  \/ FailInvoice(r)

Next ==
  \/ \E l \in Lead : CreateLead(l)
  \/ \E r \in Request :
        \/ \E l \in Lead, s \in Statuses : StartMove(r, l, s)
        \/ \E S \in SUBSET Lead : StartExpire(r, S)
        \/ \E l \in Lead : StartConvert(r, l)
        \/ \E p \in Participant : StartInvoice(r, p)
        \/ Handle(r)
        \/ Die(r)

Spec == Init /\ [][Next]_vars

-----------------------------------------------------------------------------
(* Properties.                                                             *)

\* A conversion that issued an account is the only one of its lead, unless the
\* lead was moved again afterwards: two conversions of a new customer that race
\* past the first check meet at the unique phone.
NewCustomerOnce ==
  \A p, q \in Participant :
    /\ Exists(p) /\ participants[p].fresh
    /\ participants[q].lead = participants[p].lead
    /\ participants[p].lead \notin reopened
    => p = q

\* "One lead becomes at most one participant": the second conversion "is stopped
\* by the database, and the participant it had already written goes back with it".
OneParticipantPerLead ==
  \A p, q \in Participant :
    /\ Exists(p)
    /\ participants[q].lead = participants[p].lead
    /\ participants[p].lead \notin reopened
    => p = q

\* No account is left behind by a conversion that did not happen: a retry would
\* take it for a returning customer's and issue no password.
AccountHasOwner ==
  \A n \in Phone \ Known : accounts[n] # Null =>
    \E p \in Participant : Exists(p) /\ PhoneOf[participants[p].lead] = n

\* Whoever was told a temporary password can log in with it, and every
\* participant carries the password of the account of their phone.
PasswordsAgree ==
  /\ \A x \in told : accounts[x[1]] = x[2]
  /\ \A p \in Participant : Exists(p) =>
       participants[p].password = accounts[PhoneOf[participants[p].lead]]

\* The password of a new account reaches somebody, unless the process that
\* converted the lead died: the portal has no way to reset it.
AccountIsReachable ==
  faults = 0 /\ (\A r \in Request : At(r, "idle")) =>
    \A n \in Phone \ Known : accounts[n] # Null => <<n, accounts[n]>> \in told

\* Every participant's lead has the row that says it went from deal to peserta.
ConversionIsRecorded ==
  \A p \in Participant : Exists(p) =>
    <<participants[p].lead, "deal", "peserta">> \in trail

\* A conversion is followed by its invoice.  It ends without one only when its
\* handler died, the database failed it, or another invoice took its number between
\* the statement that drew it and the one that used it.
ConvertedIsBilled ==
  \A p \in Participant :
    Exists(p) /\ (\A r \in Request : task[r].row # p) =>
      p \in excused \/ \E n \in Numbers : <<p, n>> \in invoices

\* Handlers that wait for each other's phone and lead never wait in a circle: as
\* long as one is in flight, one of them can go on.
SomebodyProceeds ==
  (\E r \in Request : ~At(r, "idle")) => \E r \in Request : ENABLED Handle(r)
=============================================================================
