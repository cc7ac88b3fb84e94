# Pintour Travel: a specification of its back office

TLA+ modules, TLC instances and machine-checked proofs for the Go backend of
Pintour Travel (`src/internal`, `src/cmd`): a CRM, an invoicing system and a
customer portal over one PostgreSQL database, with a payment gateway (Midtrans),
a WhatsApp gateway (Fonnte), a scheduler and a web frontend around it.

## 1. Inventory

| Component | State | Operations | What makes it correct |
|---|---|---|---|
| Invoice settlement (`application/invoice`, `domain/invoice`, `postgres/invoice_repo.go`) | `invoices`, `payment_proofs` | create, upload proof, review, confirm by hand, draw PDF, open a payment session, settle | lunas only when covered or confirmed; covered means lunas; the portal opens with it |
| Gateway webhook (`webhook_handler.go`, `gateway_repo.go`, `uow.go`) | `invoice_gateway_orders`, `gateway_notifications` | claim, write proof, settle, commit, answer | money credited once, only when received, and in the end |
| Leads (`application/lead`, `lead_repo.go`) | `leads`, `lead_status_history` | form, move, assign, note, expire | every move recorded; converted at most once |
| Participants and portal accounts (`application/participant`) | `participants`, `portal_users` | convert, activate, NIK, profile | no account without its participant; nobody locked out |
| Packages and batches | `packages`, `package_batches` | create, edit, delete, count seats | an edit undoes no deletion and moves no departure; a full departure is warned about once a day |
| Documents and OCR | `documents`, `ocr_results` | upload, review, scan | a batch is ready when all documents of its active participants are approved |
| Airport departure | `airport_checklists` | generate, three steps, confirm departure | who was handled stays handled; a ready batch has its rows |
| Privacy | `data_deletion_requests` | request, anonymise, reject | a decision is final and goes with its erasure; what was erased stays away |
| Staff users | `users`, tokens in memory | login, reset, promote, deactivate | an active super admin remains; a link works once |
| Notifications | `wa_notifications` | send with retries, record | the status of a row is what happened to its message |
| Portal | sessions in signed tokens, file paths in `documents` and `payment_proofs`, private buckets | log in, show a trip, sign a file address | content after payment; only one's own files |
| Scheduler | `wa_notifications` is its memory | expire, remind, warn | once per period, also when run by hand |
| Chatbot | `chatbot_logs`, counters in memory | answer, hand over | no answer to its own echo; an answer to everyone else |
| Migrations | `schema_migrations` | apply, adopt, undo | the schema that is served is whole, across crashes |
| Frontend, reports, PDF, storage, configuration | none shared | read and render | out of scope (see 7) |

The components meet in the database. Handlers, goroutines started by them and
cron jobs run concurrently; only the conversion of a lead, the webhook and the
privacy operations use a transaction, at PostgreSQL's default isolation, READ
COMMITTED. Everything else is a sequence of statements that commit on their own,
often a read, a decision in Go and a write of the whole row. That is where the
hard behaviours are: interleaved handlers, stale rows written back, units rolled
back half way, redelivered and reordered notifications, a best-effort step that
follows a commit, goroutines that outlive their request, jobs that remember what
they did by the rows their messages leave. `PROJECT.json` lists them, each at its line.

## 2. The modules

| Module | Models | Kind |
|---|---|---|
| `GatewayLedger` | what the gateway integration promises: received money is posted to one entry of the books, after it arrived | abstract specification |
| `Settlement` | proofs, reviews, confirmations, PDFs, payment sessions, the gateway and the webhook's unit | detailed specification; implements `GatewayLedger` |
| `MCSettlement`, `settle_*.cfg` | its instances | TLC |
| `SettlementProofs` | types, the portal, activation | TLAPS |
| `LedgerProofs` | the webhook: the credit theorems, the refinement; sums of proofs, what settles an invoice, where it stays settled, and that no payment is forgotten | TLAPS |
| `Conversion` | the lead pipeline, the nightly expiry, the conversion with its account, the invoice numbers | detailed specification |
| `MCConversion`, `convert_*.cfg` | its instances | TLC |
| `ConversionProofs` | types, accounts, passwords, conversions and their invoices, no circle of waiting handlers | TLAPS |
| `Documents` | uploads, machine readings, the NIK, reviews, the readiness of a batch | component of `Departure` |
| `ErasureQueue` | what the privacy queue promises: one open request per person, decided once, granting and forgetting in one step | abstract specification |
| `Departure` | checklists, the handling desk, the confirmation, erasure requests, the profile | composes `Documents`; implements `ErasureQueue` |
| `MCDeparture`, `departure*.cfg` | its instances | TLC |
| `DepartureProofs` | types, readings, readiness, checklists, erasures, the refinement | TLAPS |
| `Migrations` | the ledger, adoption, roll-back, start-up | component of `Server` |
| `Accounts` | staff, sessions and roles, the last super admin, reset links | component of `Server` |
| `Portal` | sessions of participants, the payment gate, files and their paths | component of `Server` |
| `Server` | the three behind one process that may die | composes them |
| `MCServer`, `server.cfg` | its instance | TLC |
| `MigrationsProofs` | the schema served, blocked databases | TLAPS |
| `AccountsProofs` | the last super admin, reset links | TLAPS |
| `ServerProofs` | sessions, files and their paths; types of the whole, with the two before | TLAPS |
| `Notifications` | a message: row, attempts, answer, status | component of `Chatbot` |
| `Chatbot` | the webhook of the gateway, echoes, flood guard, replies | extends `Notifications` |
| `Catalogue` | packages, departures, edits, seats | component of `Outreach` |
| `Outreach` | the jobs of the scheduler, also by hand, over all three | composes them |
| `MCOutreach`, `outreach.cfg` | its instance | TLC |
| `OutreachProofs` | the log, reminders, warnings, echoes, answers, edits | TLAPS |

`Settlement` starts from invoices that exist and participants whose accounts
exist; `Conversion` ends with them. They share only the invoice rows that
`Conversion` adds and `Settlement` never removes, so they are checked apart. The
three compositions after them meet the first two only in `is_active`: `Departure`
and `Portal` have an action of their own (`Activate`, `ConfirmPaid`) for the
statement by which a settlement sets it, at any time.

### How handlers are modelled

`task[r]` is what handler `r` holds between two statements: its place `pc`, the
rows it has read (`seen`, `seenPdf`, `password`, ...) and what it has decided to
write. A `Start...` action is the handler's reads and early returns; each later
action is one statement, with its guard from the code's conditions. `Finish`
empties the slot, and `Die` is a crash or a failing statement at any point of
`Fallible`: what was committed stays, the rest is gone. A statement that fails has
no effect; one whose effect is committed and whose answer is lost is outside the
model. Where the code goes on after a failing statement, that is an action of its own
(`FailInvoice`, `CheckFails`, `MarkFails`, `SendFails`, `GiveUp`, `Fails`, `EchoUnread`).

* **Settlement.** An upload marks the invoice `menunggu_bayar` from the row it
  read (`MarkAwaiting`) and inserts the proof; an approval reviews, lists the
  approved proofs, and then confirms or writes `dibayar` (`ApproveProof`,
  `ListProofs`, `ConfirmInvoice`, `MarkPartial`); a confirmation by hand writes
  the invoice and then activates the participant (`ConfirmInvoice`, `Activate`);
  drawing a PDF writes the whole row it read before rendering (`RecordPdf`).
* **The webhook's unit.** `ClaimNotification` inserts the idempotency key and
  reads the invoice; `DecideSettlement` lists the proofs and chooses the status;
  `CommitUnit` publishes claim, proof, status and activation together. While a
  unit is open its key is locked, so a second delivery of the key waits. The
  claim and the reads that follow it are one action: nothing else reads or
  writes an uncommitted key, so the insertion commutes with the steps of other
  handlers up to the next read.
* **The gateway.** `Advance` moves a transaction through the stages Midtrans
  documents to merchants as far as the webhook distinguishes them, and puts a
  notification in `sent`. Notifications are never removed: each can be
  delivered at any time, any number of times, in any order. It is external code,
  modelled from how the webhook uses it.
* **Conversion.** A change of a lead's status is one SQL statement with two
  moments: `StartMove`, `StartExpire` and `SnapshotLead` read its snapshot,
  `WriteStatus` and `MarkConverted`/`CommitConversion` write the row. The unit's
  writes appear in `CommitConversion`; before it, the phone of an inserted account
  and the row of a marked lead are held (`Holds`, `Locked`) and make others wait.
* **The invoice of a conversion.** `TakeNumber` is the statement that draws a number,
  `IssueInvoice` the one that uses it, and fails where another invoice has it by then;
  `FailInvoice` is either of them failing. Nothing tries again.
* **The locks of an expiry.** `WriteStatus` waits until no row it writes is locked and
  writes all of them at once, where PostgreSQL locks them one by one.
* **The status condition of MarkConverted.** `status='deal'` is tested in the CTE
  `prev`, and the `UPDATE` itself tests `id=$1 AND EXISTS (SELECT 1 FROM prev)`.
  When the row has been changed by a transaction that committed while the
  statement waited, PostgreSQL rechecks the UPDATE's own condition on the new
  version of the row; `prev` keeps being read in the statement's snapshot, where
  the lead is still a deal. So `MarkConverted` waits, and then proceeds whatever
  the status has become. That is the one place where the specification depends
  on how READ COMMITTED works beyond "each statement sees what is committed".

* **Departure.** A goroutine that an upload or an approval starts outlives its
  request and is a `task` like a handler: `ExtractDocumentData`, `ProcessDocument`
  (which stores the result and then the NIK, by two statements), and
  `OnDocumentApproved`, `ListBatch`, one `CheckPerson` per participant and
  `GenerateChecklist`. What a scan can give is a set of recognised fields with
  the weights of the parser, so the confidence and the verdict are computed
  as in the code. An erasure is one transaction: `ClaimRequest` takes the row of
  the request, `CloseRequest` is the commit, `Locked` keeps a second decision
  waiting in between. A profile change is a read (`PortalUpdateProfile`) and a
  write of the row (`UpdateProfile`).
* **Migrations.** `runner[p]` is the server or the operator's command: it reads the
  ledger, asks whether the database is older than it (`Probe`), and takes one
  file at a time (`NextFile`). A file and its ledger row are one transaction. A
  file of `Strict` fails where its objects exist; while adopting, that counts as
  done (`Record`), otherwise the process ends (`Refuse`).
* **Accounts and Portal.** A session is what its token says: a role, or a tour and
  an account. Neither is kept by the server, so both survive its death
  (`LoseMemory` takes only the reset links). Changing an account is a read, the
  test for the last super admin and a write. The seeding command (`Seed`) gives an
  account, a new one or one that is there, the role of its `-role` flag, and makes no
  such test; it may run at any time. A path is the directory it starts
  with and the one it leads to, which differ when it contains `..`; an address of
  the web leads nowhere in the buckets.
* **Outreach.** `run[t]` is a goroutine: two of the server, and a command that runs
  a job by hand. `ListDue` is the query of the job, minus what
  `wa_notifications` remembers; then one thing at a time is taken, sent
  (`Send`, `Answered`/`Unanswered`/`Garbled`/`Retry`, `UpdateStatus`) and mailed.
  Nothing keeps two runs of one job apart: the scheduler registers its jobs without
  singleton mode, the payment reminders have no time limit, a second instance may
  run beside the first, and a command beside both. `overlap` records the jobs to which
  that happened. `TimesOut` is the end of a job's context, after which each statement
  fails but the loop goes on. A single statement may fail before that too, and the
  code drops most of these errors: a row that is not written keeps its message back
  (`SendFails`), a status that is not written leaves it pending (`GiveUp`), a marker
  that is not found is taken for absent (`CheckFails`), one that is not written is
  missing the next time (`MarkFails`). The seven jobs are records that say what differs between them: what
  they are about, what they remember, whether their time is limited, whether a
  command can run them and whether an e-mail goes with the message.
* **Echoes.** The gateway forwards all traffic of its number, so each copy of a
  message that reached the customer may come back once through the webhook
  (`EchoArrives`) and is a customer's message unless it equals the last reply in
  the log. When the log cannot be read it is one too (`EchoUnread`).
* **Replies.** A question is logged, the number looked up, the history read, a reply
  generated, logged and sent. `Fails` is each of these statements failing: a question
  or a reply that is not logged is answered, or sent, all the same; without the history
  there is no reply.
* **Catalogue.** An edit is a read of the row with the request's fields over it
  (`UpdatePackage`, `UpdateBatch`) and a write of the row (`WritePackage`,
  `WriteBatch`) that leaves out the columns the statement leaves out. A new departure
  is a read of its package and an insertion (`CreateBatch`, `InsertBatch`).

Some variables are histories, which no action reads: `due`, `cleared`,
`overlapped` (Departure), `excused` (Conversion), `interrupted`, `undone`
(Migrations), `raced`, `emptied`, `resets` (Accounts), `shown`, `opened` (Portal),
`excused`, `misheard` (Chatbot), `overlap`, `unmarked`, the flags `blurred` and `cut` of a row (Outreach). They let a property
say of what it speaks, or excuse the case in which the code makes no promise.

Identifiers (`gen_random_uuid`), passwords and rows are model values, drawn from
those not in use. Amounts are whole numbers. `PROJECT.json` maps every
definition to its lines.

## 3. What the runs check

| Run | Question | Result |
|---|---|---|
| `settle_gateway` | Two transactions on every path of the gateway, two concurrent webhook handlers, one of which may die | money credited once (`CreditedOnce`), only when received (`CreditIsPaid`), together with its claim (`ClaimedIsCredited`); `GatewayLedger` implemented |
| `settle_desk` | All desk operations and a gateway payment, two handlers | lunas is always justified (`SettledIsJustified`); the portal opens after it (`PortalAfterSettlement`) |
| `settle_serial` | One handler at a time, with retries and a crash of a delivery | a covered invoice is lunas, a settled one has the portal open, acknowledged money is credited, and received money is credited in the end (`ReceivedIsCredited`) |
| `convert_leads` | Two leads of one new phone, two handlers, moves, expiry, invoices by hand, one death | one conversion per new customer, no orphan account, known passwords that agree, a recorded conversion, an invoice for it unless something fails or another one takes its number (`ConvertedIsBilled`), no circle of waiting handlers (`SomebodyProceeds`) |
| `settle_lost_payment` | The same webhook, with a pending report first | **violated** `AcknowledgedIsCredited` |
| `settle_terminal` | Two sessions of one invoice | **violated** `SettledIsTerminal` |
| `settle_activation` | A manual confirmation that stops half way | **violated** `SettledIsActive` |
| `convert_twice` | Two conversions of one lead of a returning customer | **violated** `OneParticipantPerLead` |
| `departure` | A batch of two with an identity card and a passport, two handlers of which one may die | a batch made ready by an approval gets its rows (`ReadyIsGenerated`); an erasure and its request go together (`ErasureMatchesRequest`); `ErasureQueue` implemented (`ImplementsQueue`), so that a decision is taken once and stands; who was handled stays so (`ClearedStaysHandled`); a NIK filled in was read from an own identity card whose reading is stored (`FilledIsVerified`); a name returns after an erasure only from a change under way at its commit (`RestoredByOverlap`) |
| `departure_erasure` | The same, asked for what the comment on `Anonymise` says | **violated** `ErasedIsForgotten` |
| `server` | The ten migrations over a fresh or an older database, server and command at once, one death; then two staff accounts, the seeding command beside them, and two people with three tours | the schema served is whole (`SchemaIsServed`); only an interrupted adoption blocks a database (`BlockedOnlyAfterInterruption`); a super admin remains unless two changes overlap or the seeding command takes the last one (`SomeSuperAdmin`); a link works once (`LinkWorksOnce`); content is paid for (`PaidContent`); nobody opens a file stored for somebody else (`SignedIsOwn`) |
| `outreach` | Seven jobs, scheduled and by hand, lost and garbled answers, failing statements, echoes, deaths, times that end, and edits of the catalogue | runs that follow each other remind nobody twice (`RemindedOnce`) and warn of nothing twice (`WarnedOnce`); the log is true (`StatusIsTrue`); an echo passes only behind a newer reply (`EchoNeedsNewerReply`); everyone is answered (`EveryoneIsAnswered`); no edit brings anything back (`EditsBringNothingBack`) |

Each violated property states a sentence of the repository; `findings` quotes it
and tells the trace:

1. A report that credits nothing (`pending`, a `capture` under fraud review) uses
   up the claim of its transaction, so the settlement that follows is answered
   200 and dropped. `settle_serial` shows that without such reports nothing is
   lost, and needs `DirectMoves` for that reason.
2. A late report of another session takes a settled invoice out of lunas: a
   `pending` one, as in the trace, to `menunggu_konfirmasi_gateway`, which neither
   the reminders nor the overdue job look for; `deny`, `expire` and `cancel` to
   `menunggu_bayar`.
3. Confirming by hand is two commits, and the second cannot be repeated.
4. A lead can be converted twice at once, unless the unique phone of a new
   account stops the second conversion.
5. A profile change, or a machine reading, that is under way while its
   participant is anonymised puts the name, phone and e-mail, or the NIK, back.

Met while modelling, without a run of their own. The first two are promises the code
does not keep when two of its goroutines meet; a property of a run excuses exactly
that case, and without the excuse TLC finds the trace:

* Two super admins who deactivate or demote each other at once leave none. The check
  (`user_handler.go:265`, `:420`) finds the other one still active, and the write is a
  later statement (`:397`, `:428`), while `user_handler.go:282` says
  "Sistem harus selalu punya minimal satu super admin aktif". `SomeSuperAdmin` excuses
  it (`raced`).
* A job run by hand beside the scheduler, or two runs of the scheduler, list what the
  other has listed and not yet sent, and both send it, while `automation.go:18-19`
  promises "idempotency via wa_notifications so re-runs do not duplicate sends".
  `RemindedOnce` and `WarnedOnce` excuse it (`overlap`).

In the others the model would only repeat one line, or no sentence of the repository
says otherwise:

* `UpdateStatus` writes with the context of the job, and its error is dropped, so a
  message whose time ended, or whose status could not be written, stays `pending` also
  where `fonnte.go` means to mark it failed (`GiveUp`).
* `seed -role` on the address of the only super admin takes the role away without any
  check (`cmd/seed/main.go:29`, `:58-62`). `SomeSuperAdmin` excepts it (`emptied`).
* An overdue invoice whose participant has no number gets an e-mail every day: its
  marker has the status `skipped`, which the CHECK at `003_prd_schema.sql:249`
  refuses, while `automation.go:161-165` says the marker ends that.
* The overdue job runs once a day and remembers 24 hours, so a run that is a moment
  early skips a day. The H-14 reminder and the briefing are logged as one type.
* The echo test knows the bot's replies only. Without the gateway's signature the
  text of a job's message comes back as a customer's and is answered. Two replies
  that cross make echoes that pass the test, and the flood guard ends it.
* `CreateLeadFromChat` inserts a source that the CHECK at `003_prd_schema.sql:109`
  refuses: no lead comes from a chat.
* A deleted package keeps its slug from everybody, as the column is unique over all
  rows (`003`), although `004` adds an index over the rows that are left.
* The quota warning counts leads in `deal` only, so a conversion makes room.

### Bounds, and why they are enough

Two handlers: every hazard found is between two, and a third only adds a second
instance of the same pair. Two transactions, in two sessions of one invoice of
amount 2, give redelivery, reordering, partial and full payment and overpayment.
Proof identifiers suffice for all proofs the other bounds can produce.
`MaxFaults = 1`: after a crash a handler's slot is as new, so one shows each
partial failure; `MaxMoves = 2` moves of a lead by hand (into deal, and once
more), `MaxInvoices = 2` because the conflict is between two invoices. The leads
of `convert_leads` share a phone, since leads of different phones meet only in
the invoice numbers. `Known` is empty there and holds the phone in
`convert_twice`. Symmetry is used over handlers, participant rows, passwords and
proof identifiers, in runs without liveness only; `settle_desk` keeps the
receipts and the webhook's proofs apart.

`departure`: seven calls of people, over two participants, one of whom has paid; an
identity card and a passport, whose weights differ; two handlers, which is what
a stale write, a double decision and a lost checklist take; one fault, because each
point of `Fallible` (and the failing progress read) shows its partial failure
once. `departure_erasure` takes four calls and no fault. `server`: the ten files of
`db/migrations` with their own strictness (1, 3, 4 fail where they exist) and their
own roll-backs (8, 9, 10); `Legacy` starts from nothing or from what an init
directory left. A behaviour keeps to one of five `Budgets` of operator's, staff's and
participants' calls and deaths: 4, 1, 1 and 1; 1, 3, 0 and 1; 0, 5, 0 and 1; 0, 2, 5
and 0; 0, 1, 5 and 1; the first account is not counted. One person has two tours, one of them booked before there were
accounts, which is what a session for the wrong tour takes. Days and links move only while the server
serves, since nobody can tell otherwise.

`outreach` counts time in half days: two points less than two ticks apart may be
within 24 hours and are the same day or not. A full product of its parts is too
large, so a behaviour keeps to one of ten `Budgets`, each of which gives one
part room and keeps some of another: two runs over two ticks, which take them into the
next day; two runs with a fault; one run with three faults (three attempts lost); a run
beside two chats; a run beside three edits; five chat messages with a flood limit of 2
instead of 8; three chat messages with the minute, or with a fault; two with both, or
with two faults. Two runs with a fault and a new day are left to the proofs. Both calls of the gateway's echo and of customers count as chats. A fault is
an answer lost or garbled, a statement or an e-mail that fails, a death or a time that
ends.

`CHECK_DEADLOCK FALSE`: each instance ends when its bounded requests are done.
`SomebodyProceeds` is the absence of deadlock that matters: as long as a handler
is in flight, some handler can go on. It does not cover two statements that lock the
same leads in different orders, since `WriteStatus` takes its locks at once; PostgreSQL
would end one of the two.

`settle_serial` has one handler because `CoveredIsSettled` does not hold with
two: an upload or a PDF download that read the invoice before it was settled
writes the old status back over lunas. No text of the repository promises
otherwise, so it is recorded as a hazard and not as a finding. Two concurrent
approvals are harmless in this respect: each writes its review before it lists
the proofs, so one of them sees both. The write skew between an approval and the
webhook is nearly closed too, as a session asks for the whole remaining balance.

### Fairness

`FairSpec` assumes weak fairness of each handler (a goroutine that is not killed
runs to its end) and strong fairness of the redelivery of each transaction's
unacknowledged notifications: Midtrans repeats a notification until it is
answered 200, and the server starts a handler for each request, so a free slot
of `Request`, which is a bound of the instance and not of the program, comes
back again and again. Nothing is assumed about people, the gateway's stages or
failures.

## 4. What is proved

TLAPS checks every property of a passing run but two for every value of the
constants that satisfies the named assumptions: any number of handlers, invoices,
participants, files, goroutines, messages. The runs show them on instances first,
and the invariants below were checked as such before they were proved.

### Assumptions

* Functions on the right sets: `InvoiceAssumption`, `GatewayAssumption`,
  `PhoneAssumption`, `DocAssumption`, `TourAssumption`, `StartAssumption`; subsets
  of what they are drawn from: `ProofAssumption`, `PeopleAssumption`,
  `StepAssumption`, `GivenAssumption`, `SubsetsAssumption`, `ThreadAssumption`, and
  bounds that are numbers.
* An absent value is none of those it stands beside: the `NullAssumption`s,
  `RowAssumption` (a missing row of a checklist is no set of steps), `NoAccountAssumption`,
  `NobodyAssumption`, `NumberAssumption`, `NoPackageAssumption`. In the database
  these are NULL or a missing row.
* Identifiers of different tables differ: packages and departures
  (`NoPackageAssumption`), departures and what else a message is about
  (`RefAssumption`). They are UUIDs.
* `FilesAssumption` and `LegacyAssumption`: the migrations are finitely many and
  have numbers, and an older database stopped at a number.
* `AnonymousAssumption`: a transaction without an id reports its money once.

Some theorems have hypotheses of their own, each of which is needed: without it the
property is false, by a trace TLC finds or by the short one the table tells.
`settle_serial` is an instance of the first three. The
hypotheses are about what happens, not about the code: `Desk` are the desk's
operations that are in use, `Fallible` the points at which a handler dies.

| Theorem | Hypothesis | Without it |
|---|---|---|
| `SettledInvoicesActive` | nothing dies at `activate` | `settle_activation` |
| `AcknowledgedAreCredited` | `DirectPayments`: nothing is reported before the money | `settle_lost_payment` |
| `CoveredInvoicesSettled` | one handler at a time | an upload or a PDF writes an old status over lunas |
| | `DirectPayments` | a late report takes a covered invoice out of lunas, as in `settle_terminal` |
| | nothing dies at `list` or `confirm` | a proof stays approved and nobody settles its invoice |
| `CoveredWereSettled` | no proof is rejected | a session asks for what an approved part left open; the part is rejected, the webhook's unit finds its credit short, and before it commits the part is approved again and found alone |
| | nothing dies at `list` or `confirm` | as above |
| `GatewayKeepsLunas` | `DirectPayments` | `settle_terminal` |
| | no desk operation but payment sessions and confirmations | an upload or a PDF writes an old status over lunas |
| `SerialKeepsLunas` | one handler at a time, `DirectPayments` | as above |
| | nobody confirms by hand or rejects | an invoice that is lunas but not covered becomes `dibayar` when a part of it is approved |
| `PaymentsNotForgotten` | `DirectPayments` | `settle_lost_payment` |
| `SerialConvertsOnce` | one handler at a time | `convert_twice` |
| `SerialErasureTakesNames` | one handler at a time | `departure_erasure` |
| `SerialKeepsSuperAdmin` | one handler at a time | two super admins demote each other: the exception of `SomeSuperAdmin` |
| | the seeding command gives no other role | `seed -role` takes the role of the only super admin, or of the one another handler's check relies on |

### The arguments

Hardly one of the properties is inductive as it stands. Each theorem is by an
invariant that implies it, shown to hold initially and to be kept by every action.

**Settlement.** `TypeInv` adds what a handler needs at each step (`GoodTask`): a
stale status that is written back must be one. `PortalInv`: whoever is about to
activate has seen a settlement. `ActivationInv`: a settled invoice has an active
participant or a handler at `activate`.

**The webhook.** `LedgerInv`: what was sent is true at the gateway (`SentInv`),
identifiers in hand are not rows yet and are nobody else's (`RowInv`), an open
unit's key is claimed by nobody and held by it alone (`UnitInv`), and each proof
of the webhook goes with a claim that credits its transaction (`ClaimInv`). Two
credits of one transaction have one key (`KeyAgree`), so the second meets a
claim. The three credit theorems follow, and `LedgerRefined`: every step posts one
entry or none.

**Sums of proofs.** What covers an invoice is a sum over a set, defined by
recursion on the set; the facts about it (taking out an element, a larger set, the
same amounts in two tables) need induction. The library's induction rules cannot be
used by the installed provers, so the sum lemmas of `LedgerProofs` argue by a
smallest counterexample: the finite subsets of a set are well-founded under
inclusion (`FS_StrictSubsetOrderingWellFounded`), a nonempty collection of them
has a minimal member (`SmallestSet`), and the equation of the sum fails on none.
With them, `CoverInv`: the rows of proofs are finitely many, an approved one is
recorded as ever approved, a settled invoice is confirmed by hand or covered by what
was ever approved, and so is what a handler at `confirm` or `commit` is about to
settle. Amounts never change and approvals are only added to the record, which
keeps it true while other handlers interleave.

**One handler.** `AckInv`: everything sent credits, each order has one live
transaction, what was answered 200 has its claim. `SerialInv`: an invoice that is
covered now is lunas or its handler is at `list` or `confirm`; what a handler has
read is still so. That is what an interleaved upload breaks.

**Any number of handlers.** What interleaving leaves of it is `CoveredWereSettled`:
a covered invoice was lunas, or its handler is at `list` or `confirm`. `BalanceInv`
carries it: as long as nothing approved is taken away, a session's amount covers
what was open when it was asked for and is still enough (`Covers`), so that no
credit of the webhook falls short; and of two approvals the later one lists both.
Two theorems say when `SettledIsTerminal` does hold. `GatewayKeepsLunas`: the
webhook never writes `dibayar` over lunas, because its credits cover, however many
units race. `SerialKeepsLunas`: with one handler at a time `TerminalInv` holds, in
which a lunas invoice is a covered one, so that no later approval finds it short.
`PaymentsNotForgotten` is the safety half of `ReceivedIsCredited`: money that is
not credited was reported (`Reported`), the report is unanswered, and nobody has
claimed its key (`SharedKey`). What is left to TLC is that it is delivered.

**Conversion.** `ConversionInv`: a unit that inserts an account has the phone to
itself and every other one knows the password of the account (`AccountInv`), and
no unit is about to write the lead of a new customer (`LeadInv`). Both are needed
at the commit: a second unit with the lead marked would either insert for the same
phone or know a password of an account that does not exist. `AccountsHaveOwners`
and `ConversionsAreRecorded` follow from `FreshOwner`, the types and `CommitOrKeep`.
`FirstCustomersConvertOnce` is about a lead whose phone is its own and had no
account: its account is that of its one participant, so that a second unit meets
the phone, however the lead is moved about before. `SerialConvertsOnce` is what
`convert_twice` refutes for two handlers: with one, a lead at `mark` or `commit` is
still a deal (`MarkInv`). `ReachInv`:
while nothing died, the handler that made an account still has its password to
tell, or has told it. `BillInv`, for `ConversionsAreBilled`: a participant without an
invoice has a handler that still has it to make, and a number that was drawn is free
until another invoice takes it, which excuses whoever else had drawn it. That it is
free when drawn is `NumberFree`, as there always is a highest one (`HighestNumber`).
`SomebodyIsAlwaysReady` orders the waits (`WaitsFor`): a unit that has marked its
lead waits for nobody, one about to mark it only for those, and everybody else for
the holder of a phone, which is one of them. So in any set of handlers one waits for
none of the others (`NoCircularWait`), and its guard holds.

**Departure.** `TypeInv` types the rows and what each handler holds. `ErasureInv`:
a decision at its commit holds an open request, alone; so the request and the
erasure go together and a decided request is never written again. `ProfileInv`: a
profile write of somebody erased has been overtaken. `ReadingInv`: a document is
read by one goroutine, once, so its verdict is written once; a number is filled in
behind a stored verdict that passed, on an identity card. `ReadyInv`: when an
approval has completed the batch, everybody who has paid has a row, or a goroutine
is on its way that will find the batch ready (`Decisive`). `QueueRefined` maps the
commits: `CloseRequest` is `Grant` or `Refuse` by `ErasureInv`, asking is `Ask`, and
everything else, crashes included, is a stutter; a decided request is final in the
queue, hence here (`DecisionsAreFinal`). `SerialErasureTakesNames` says that the
overlap of `RestoredByOverlap` takes two handlers. There is no such theorem about the
NIK: a scan may be uploaded, or a number typed in, after the erasure.

**Server.** `ServedInv`: the ledger names only what is in the schema, and a server
that is migrating has in the ledger what it has left behind. `AdoptionInv`: the
objects no ledger row accounts for are among the files an adoption still has to
pass, unless it was interrupted or nobody has run yet. `SuperInv`: the write of a
handler that is not outdated leaves a super admin (`Safe`), unless the seeding command
took the last one (`emptied`); with one handler at a time and no seeding of another
role both exceptions go (`SerialKeepsSuperAdmin`). `LinkInv`: a link that
is being redeemed is held by one handler and has set no password, and one that is
not is held by none. `PortalInv`: what a row leads to is its owner's directory or
outside the buckets, and a session with an account names a tour of that account.

**Outreach.** `BaseInv` (`PlacesInv`, `LogsInv`, `FlightsInv`, `TimeInv`) says
where a goroutine is and what the row it sends looks like; `LogIsTrue` follows.
`MemoryInv`: what a run of a job still owes has nothing recent in the log, and no
second run is beside it, or two runs have overlapped (`overlap`), or, for a departure,
its marker could not be looked for (`unmarked`). `LogStaysFinal`: only the goroutine that sends a
message writes to its row, and only while that is pending. `WarnInv`: an e-mail of a
warning has its marker in the log, or the goroutine that writes it, or is recorded
as unmarked. `ReplyInv`: a reply is logged before it is sent, or not at all, so the
echo of one that is in the log finds it or a newer one. `AnswerInv` counts, for numbers
that nothing excuses: the questions are the replies and the goroutines at work on one;
the replies are the messages and the goroutines about to send. `CatalogueInv`: what an edit holds is a row of what it edits; the columns its
write names do the rest.

### Only model-checked

* `ReceivedIsCredited` is liveness under fairness, which this prover does not reach.
* `SomebodyProceeds` is about ENABLED, likewise. `SomebodyIsAlwaysReady` states it with
  the guards of the handlers' next statements spelled out (`Ready`), and TLC agrees
  on `convert_leads` that these are the states where a handler is enabled.
* The violated properties of section 3, which are traces.

## 5. Left out of the modelled parts

Formatting of invoice numbers and money, texts of messages, PDF drawing, the
bytes of files, signatures and hashes, soft deletion of leads, assignment of leads
and consultants' notes, the document checklist logged by a conversion. Amounts are
whole. The steps of the handling desk have no time stamps. A document is of a kind
the machine reads or not; a reading is the set of fields it found. Package images,
country requirements (each a single-row edit) and the retention clean-up of rows
over a year old. What a language model answers is one text or the
fallback, and what a customer writes is never word for word a reply. The history a
reply is written from changes only its text; that it cannot be read, which leaves the
message without a reply, is in the model (`Fails`). A password
an admin sets for a colleague changes nothing the model tells apart.

Notifications to people from the modelled handlers of `Settlement`, `Conversion` and
`Departure` are best-effort and change none of their rows, except the password that
`Announce` may fail to deliver; how one is sent is `Notifications`.

## 6. Plan

The components are modelled as far as section 7 says, and what TLAPS can state of
the properties is proved. What may follow:

1. Abstract specifications for the components that have none: a link as a one-shot
   register, the schema as what its files made, with the step lemmas of the proofs
   as refinement steps.
2. `CoveredIsSettled` itself, which speaks of the present status, for handlers that
   interleave. `CoveredWereSettled` says that the invoice was lunas once; that it
   still is takes the hypothesis that no upload or PDF download which read the
   invoice earlier is under way at its settlement.

## 7. Not modelled

The frontend repeats no decision the server does not take again. Reports,
dashboards, lists, PDF and e-mail templates read and render. Tour leaders are
single-row edits nothing waits for. The recognition of text and the language model
are external services. JWT and bcrypt are cryptography. The demo data of
`cmd/seed-demo` is written once, into an empty database, by one program. The
generated API description (`docs/docs.go`) is not code of the system.

## 8. Running

    tlc -workers 2 -config settle_gateway.cfg MCSettlement
    tlc -workers 2 -config convert_leads.cfg MCConversion
    tlc -workers 2 -config departure.cfg MCDeparture
    tlc -workers 2 -config server.cfg MCServer
    tlc -workers 2 -config outreach.cfg MCOutreach
    tlapm SettlementProofs.tla
    tlapm LedgerProofs.tla
    tlapm ConversionProofs.tla
    tlapm DepartureProofs.tla
    tlapm MigrationsProofs.tla
    tlapm AccountsProofs.tla
    tlapm ServerProofs.tla
    tlapm OutreachProofs.tla
