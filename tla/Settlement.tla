----------------------------- MODULE Settlement -----------------------------
(***************************************************************************)
(* How an invoice of Pintour Travel comes to be paid: the payment proofs   *)
(* participants and admins upload and admins review, the manual "confirm   *)
(* payment" of the back office, the invoice PDF that records its own path, *)
(* the payment sessions opened at the gateway, and the gateway's webhook.  *)
(*                                                                         *)
(* The rows of PostgreSQL are the shared state.  Outside the webhook every *)
(* statement commits on its own, so a handler is a sequence of actions     *)
(* that other handlers interleave with; what it read earlier is kept in    *)
(* its task.  The webhook runs in one READ COMMITTED transaction: what it  *)
(* writes waits in its task and appears at the commit, the idempotency key *)
(* it inserts is a lock other deliveries wait for.  Midtrans itself is     *)
(* outside the repository and is modelled from what the webhook accepts.   *)
(***************************************************************************)
EXTENDS Naturals, FiniteSets, FiniteSetsExt

CONSTANTS
  Invoice,       \* invoices, already issued
  Participant,
  Owner,         \* the participant an invoice bills
  Amount,        \* what an invoice asks for, in whole rupiah
  Request,       \* handlers that can be in flight at the same time
  Proof,         \* identifiers of payment proof rows
  Receipt,       \* the ones uploads draw from; the webhook draws from the rest
  Claim,         \* the amounts an uploaded proof may claim
  Order,         \* payment sessions (order ids) at the gateway
  Txn,           \* transactions at the gateway
  OrderOf,       \* the session a transaction pays
  Anonymous,     \* transactions reported without a transaction id
  Moves,         \* the steps a transaction may take at the gateway
  Desk,          \* the operations people perform in this instance
  Fallible,      \* the points at which a handler may die
  MaxFaults,     \* bound on the handlers that die
  Null

Statuses == {"diterbitkan", "menunggu_bayar", "dibayar", "lunas",
             "menunggu_konfirmasi_gateway"}

Labels == {"idle", "mark", "insert", "approve", "list", "partial", "confirm",
           "activate", "pdf", "session", "decide", "commit"}

Stages == {"new", "pending", "challenged", "captured", "settled", "failed"}

AllMoves ==
  {<<"new", "pending">>, <<"new", "challenged">>, <<"new", "captured">>,
   <<"new", "settled">>, <<"pending", "settled">>, <<"pending", "failed">>,
   <<"challenged", "captured">>, <<"challenged", "failed">>,
   <<"captured", "settled">>}

ASSUME InvoiceAssumption ==
  /\ Owner \in [Invoice -> Participant]
  /\ Amount \in [Invoice -> Nat \ {0}]
ASSUME ProofAssumption == Receipt \subseteq Proof /\ Claim \subseteq Nat \ {0}
ASSUME GatewayAssumption ==
  /\ OrderOf \in [Txn -> Order]
  /\ Anonymous \subseteq Txn
  /\ Moves \subseteq AllMoves
\* Without its id a transaction is recognised by what is reported of it, so one
\* that reports its money twice (a card: captured, then settled) must carry it.
ASSUME AnonymousAssumption ==
  Anonymous # {} => <<"captured", "settled">> \notin Moves
ASSUME InstanceAssumption == Fallible \subseteq Labels /\ MaxFaults \in Nat
ASSUME NullAssumption ==
  Null \notin Invoice \cup Proof \cup Txn \cup Statuses

VARIABLES
  status,        \* invoices.status
  pdf,           \* invoices.pdf_path is set
  proofs,        \* payment_proofs
  sessions,      \* invoice_gateway_orders
  claims,        \* gateway_notifications
  active,        \* participants.is_active
  stage,         \* external: where each transaction stands at the gateway
  sent,          \* external: notifications issued, deliverable any number of times
  task,          \* the handlers in flight
  acked,         \* history: the notifications answered with 200
  settledEver,   \* history: the invoices that were lunas at some time
  byHand,        \* history: the invoices an admin confirmed by hand
  approvedEver,  \* history: the proofs that were approved at some time
  told,          \* history: the participants told their portal is open
  faults         \* handlers that died

rows == <<status, pdf, proofs, sessions, claims, active>>
gateway == <<stage, sent>>
history == <<acked, settledEver, byHand, approvedEver, told>>
vars == <<rows, gateway, task, history, faults>>

-----------------------------------------------------------------------------
(* Notifications.  "expire" stands for deny, expire and cancel, which the  *)
(* webhook treats alike; a fraud review is either passed or still open.    *)

Notification ==
  [txn : Txn,
   report : {"pending", "capture", "settlement", "expire"},
   held : BOOLEAN]

\* What the gateway reports when a transaction reaches a stage.
Report(t, s) ==
  [txn |-> t,
   report |-> CASE s = "pending" -> "pending"
                [] s \in {"challenged", "captured"} -> "capture"
                [] s = "settled" -> "settlement"
                [] OTHER -> "expire",
   held |-> s = "challenged"]

\* Mutant: credits a payment that is still under fraud review.
Credits_Unreviewed(n) == n.report \in {"capture", "settlement"}

\* Mutant: forgets the settlements.
Credits_CaptureOnly(n) == n.report = "capture" /\ ~n.held

\* The notifications that say money arrived and nobody is reviewing it.
Credits(n) == n.report \in {"capture", "settlement"} /\ ~n.held

\* Mutant: a transaction is recognised by its status.
Key_ByStatus(n) == <<OrderOf[n.txn], n.report>>

\* The identity a repeated delivery is recognised by.
Key(n) == <<OrderOf[n.txn],
            IF n.txn \in Anonymous THEN n.report ELSE n.txn>>

Task ==
  [pc : Labels, inv : Invoice \cup {Null}, proof : Proof \cup {Null},
   note : Notification \cup {Null}, seen : Statuses \cup {Null},
   seenPdf : BOOLEAN, gross : Nat, write : Statuses \cup {Null}]

Idle == [pc |-> "idle", inv |-> Null, proof |-> Null, note |-> Null,
         seen |-> Null, seenPdf |-> FALSE, gross |-> 0, write |-> Null]

ProofRow ==
  [inv : Invoice \cup {Null}, amount : Nat, txn : Txn \cup {Null},
   status : {"none", "menunggu", "disetujui", "ditolak"}]

NoProof == [inv |-> Null, amount |-> 0, txn |-> Null, status |-> "none"]

TypeOK ==
  /\ status \in [Invoice -> Statuses]
  /\ pdf \in [Invoice -> BOOLEAN]
  /\ proofs \in [Proof -> ProofRow]
  /\ sessions \in [Order -> [inv : Invoice \cup {Null}, gross : Nat]]
  /\ claims \subseteq Notification
  /\ active \in [Participant -> BOOLEAN]
  /\ stage \in [Txn -> Stages]
  /\ sent \subseteq Notification
  /\ task \in [Request -> Task]
  /\ acked \subseteq Notification
  /\ settledEver \subseteq Invoice
  /\ byHand \subseteq Invoice
  /\ approvedEver \subseteq Proof
  /\ told \subseteq Participant
  /\ faults \in 0..MaxFaults

Init ==
  /\ status = [i \in Invoice |-> "diterbitkan"]
  /\ pdf = [i \in Invoice |-> FALSE]
  /\ proofs = [p \in Proof |-> NoProof]
  /\ sessions = [o \in Order |-> [inv |-> Null, gross |-> 0]]
  /\ claims = {}
  /\ active = [q \in Participant |-> FALSE]
  /\ stage = [t \in Txn |-> "new"]
  /\ sent = {}
  /\ task = [r \in Request |-> Idle]
  /\ acked = {}
  /\ settledEver = {}
  /\ byHand = {}
  /\ approvedEver = {}
  /\ told = {}
  /\ faults = 0

-----------------------------------------------------------------------------
(* What a set of proofs credits to its invoice: approved receipts only.    *)

ProofsOf(i) == {p \in Proof : proofs[p].inv = i}

Credit(S) == MapThenSumSet(LAMBDA p : proofs[p].amount, S)

\* Mutant: counts the proofs nobody approved.
ApprovedTotal_AnyProof(i) == Credit(ProofsOf(i))

ApprovedTotal(i) == Credit({p \in ProofsOf(i) : proofs[p].status = "disetujui"})

Exists(p) == proofs[p].inv # Null

\* A proof identifier nobody holds.
Fresh(p) == ~Exists(p) /\ \A r \in Request : task[r].proof # p

At(r, l) == task[r].pc = l
Start(r, t) == At(r, "idle") /\ task' = [task EXCEPT ![r] = t]
Goto(r, l) == task' = [task EXCEPT ![r].pc = l]
Finish(r) == task' = [task EXCEPT ![r] = Idle]

\* A handler that has read invoice i.
Read(i, l) == [Idle EXCEPT !.pc = l, !.inv = i, !.seen = status[i],
                           !.seenPdf = pdf[i]]

\* invoiceRepo.Update writes the whole row back, without looking at it again.
UpdateInvoice(i, s, d) ==
  /\ status' = [status EXCEPT ![i] = s]
  /\ pdf' = [pdf EXCEPT ![i] = d]

\* settlement.notify after an invoice was found paid in full.
TellOpened(i) == told' = told \cup {Owner[i]}

-----------------------------------------------------------------------------
(* Uploading a proof: read, mark the invoice, insert the row.              *)

StartUpload(r, i, p, a) ==
  /\ "upload" \in Desk
  /\ Fresh(p)
  /\ Start(r, [Read(i, IF status[i] = "diterbitkan" THEN "mark" ELSE "insert")
                 EXCEPT !.proof = p, !.gross = a])
  /\ UNCHANGED <<rows, gateway, history, faults>>

MarkAwaiting(r) ==
  /\ At(r, "mark")
  /\ UpdateInvoice(task[r].inv, "menunggu_bayar", task[r].seenPdf)
  /\ Goto(r, "insert")
  /\ UNCHANGED <<proofs, sessions, claims, active, gateway, history, faults>>

InsertProof(r) ==
  /\ At(r, "insert")
  /\ proofs' = [proofs EXCEPT ![task[r].proof] =
                  [inv |-> task[r].inv, amount |-> task[r].gross,
                   txn |-> Null, status |-> "menunggu"]]
  /\ Finish(r)
  /\ UNCHANGED <<status, pdf, sessions, claims, active, gateway, history, faults>>

-----------------------------------------------------------------------------
(* Reviewing a proof, whatever its status is.                              *)

RejectProof(p) ==
  /\ "reject" \in Desk
  /\ Exists(p)
  /\ proofs' = [proofs EXCEPT ![p].status = "ditolak"]
  /\ UNCHANGED <<status, pdf, sessions, claims, active, gateway, task, history, faults>>

StartApprove(r, p) ==
  /\ "approve" \in Desk
  /\ Exists(p)
  /\ Start(r, [Read(proofs[p].inv, "approve") EXCEPT !.proof = p])
  /\ UNCHANGED <<rows, gateway, history, faults>>

ApproveProof(r) ==
  LET p == task[r].proof IN
  /\ At(r, "approve")
  /\ proofs' = [proofs EXCEPT ![p].status = "disetujui"]
  /\ approvedEver' = approvedEver \cup {p}
  /\ Goto(r, "list")
  /\ UNCHANGED <<status, pdf, sessions, claims, active, gateway, acked,
                 settledEver, byHand, told, faults>>

\* settleApprovedProof: list the invoice's proofs and decide what to write.
ListProofs(r) ==
  LET i == task[r].inv
      full == ApprovedTotal(i) >= Amount[i]
      next == IF full /\ task[r].seen # "lunas" THEN "confirm"
              ELSE IF ~full /\ ApprovedTotal(i) > 0 /\ task[r].seen # "dibayar"
              THEN "partial" ELSE "idle"
  IN
  /\ At(r, "list")
  /\ IF next = "idle" THEN Finish(r) ELSE Goto(r, next)
  /\ IF full /\ next = "idle" THEN TellOpened(i) ELSE UNCHANGED told
  /\ UNCHANGED <<rows, gateway, acked, settledEver, byHand, approvedEver, faults>>

\* Mutant: a partial payment opens the portal.
MarkPartial_Activates(r) ==
  /\ At(r, "partial")
  /\ UpdateInvoice(task[r].inv, "dibayar", task[r].seenPdf)
  /\ active' = [active EXCEPT ![Owner[task[r].inv]] = TRUE]
  /\ Finish(r)
  /\ UNCHANGED <<proofs, sessions, claims, gateway, history, faults>>

MarkPartial(r) ==
  /\ At(r, "partial")
  /\ UpdateInvoice(task[r].inv, "dibayar", task[r].seenPdf)
  /\ Finish(r)
  /\ UNCHANGED <<proofs, sessions, claims, active, gateway, history, faults>>

-----------------------------------------------------------------------------
(* Settling: invoiceRepo.Confirm, then participantRepo.Activate.           *)

\* An admin confirms by hand; an invoice already lunas is left alone.
StartConfirm(r, i) ==
  /\ "confirm" \in Desk
  /\ status[i] # "lunas"
  /\ Start(r, Read(i, "confirm"))
  /\ UNCHANGED <<rows, gateway, history, faults>>

ConfirmInvoice(r) ==
  LET i == task[r].inv IN
  /\ At(r, "confirm")
  /\ status' = [status EXCEPT ![i] = "lunas"]
  /\ settledEver' = settledEver \cup {i}
  /\ byHand' = IF task[r].proof = Null THEN byHand \cup {i} ELSE byHand
  /\ Goto(r, "activate")
  /\ UNCHANGED <<pdf, proofs, sessions, claims, active, gateway, acked,
                 approvedEver, told, faults>>

\* Mutant: announces the portal without opening it.
Activate_OnlyTells(r) ==
  /\ At(r, "activate")
  /\ TellOpened(task[r].inv)
  /\ Finish(r)
  /\ UNCHANGED <<rows, gateway, acked, settledEver, byHand, approvedEver, faults>>

Activate(r) ==
  LET i == task[r].inv IN
  /\ At(r, "activate")
  /\ active' = [active EXCEPT ![Owner[i]] = TRUE]
  /\ TellOpened(i)
  /\ Finish(r)
  /\ UNCHANGED <<status, pdf, proofs, sessions, claims, gateway, acked,
                 settledEver, byHand, approvedEver, faults>>

-----------------------------------------------------------------------------
(* The invoice PDF: the first download writes its path into the row read   *)
(* before the PDF was drawn.                                               *)

StartPdf(r, i) ==
  /\ "pdf" \in Desk
  /\ ~pdf[i]
  /\ Start(r, Read(i, "pdf"))
  /\ UNCHANGED <<rows, gateway, history, faults>>

RecordPdf(r) ==
  /\ At(r, "pdf")
  /\ UpdateInvoice(task[r].inv, task[r].seen, TRUE)
  /\ Finish(r)
  /\ UNCHANGED <<proofs, sessions, claims, active, gateway, history, faults>>

-----------------------------------------------------------------------------
(* A payment session for the balance g that remains; the gateway is called *)
(* before the session is recorded.  Order is the bound on sessions.        *)

SessionsLeft ==
  Cardinality({q \in Request : At(q, "session")})
    < Cardinality({o \in Order : sessions[o].inv = Null})

StartPayment(r, i) ==
  /\ "pay" \in Desk
  /\ SessionsLeft
  /\ \E g \in 1..Amount[i] :
        /\ ApprovedTotal(i) + g = Amount[i]
        /\ Start(r, [Read(i, "session") EXCEPT !.gross = g])
  /\ UNCHANGED <<rows, gateway, history, faults>>

OpenSession(r, o) ==
  /\ At(r, "session")
  /\ sessions[o].inv = Null
  /\ sessions' = [sessions EXCEPT ![o] = [inv |-> task[r].inv,
                                          gross |-> task[r].gross]]
  /\ Finish(r)
  /\ UNCHANGED <<status, pdf, proofs, claims, active, gateway, history, faults>>

-----------------------------------------------------------------------------
(* The gateway: a session is paid by one transaction, another only after   *)
(* the first failed; every step is reported.                               *)

Advance(t, s) ==
  /\ <<stage[t], s>> \in Moves
  /\ sessions[OrderOf[t]].inv # Null
  /\ \A u \in Txn \ {t} : OrderOf[u] = OrderOf[t] => stage[u] \in {"new", "failed"}
  /\ stage' = [stage EXCEPT ![t] = s]
  /\ sent' = sent \cup {Report(t, s)}
  /\ UNCHANGED <<rows, task, history, faults>>

-----------------------------------------------------------------------------
(* The webhook.                                                            *)

InUnit(r) == task[r].pc \in {"decide", "commit"}

\* Mutant: a failed payment writes the gateway's word for it.
ReportedStatus_Verbatim(n) ==
  CASE n.report = "pending" -> "menunggu_konfirmasi_gateway"
    [] n.report = "expire" -> n.report
    [] OTHER -> Null

\* What a report writes to an invoice by itself; credits are decided later.
ReportedStatus(n) ==
  CASE n.report = "pending" -> "menunggu_konfirmasi_gateway"
    [] n.report = "expire" -> "menunggu_bayar"
    [] OTHER -> Null

\* A unit after its first statements: claim the notification, read the invoice.
Unit(n) ==
  [Read(sessions[OrderOf[n.txn]].inv, IF Credits(n) THEN "decide" ELSE "commit")
     EXCEPT !.note = n, !.write = ReportedStatus(n)]

\* Mutant: looks for a committed claim but does not wait for an open one.
ClaimNotification_Racy(r, n) ==
  /\ n \in sent
  /\ sessions[OrderOf[n.txn]].inv # Null
  /\ \A c \in claims : Key(c) # Key(n)
  /\ Start(r, Unit(n))
  /\ UNCHANGED <<rows, gateway, history, faults>>

\* A key that is claimed stops the unit; one that another unit has inserted and
\* not committed makes it wait.
ClaimNotification(r, n) ==
  /\ n \in sent
  /\ sessions[OrderOf[n.txn]].inv # Null
  /\ \A c \in claims : Key(c) # Key(n)
  /\ \A q \in Request : InUnit(q) => Key(task[q].note) # Key(n)
  /\ Start(r, Unit(n))
  /\ UNCHANGED <<rows, gateway, history, faults>>

\* A key already committed: the redelivery is answered 200 and changes nothing.
AcknowledgeRedelivery(n) ==
  /\ n \in sent
  /\ \E c \in claims : Key(c) = Key(n)
  /\ acked' = acked \cup {n}
  /\ UNCHANGED <<rows, gateway, task, settledEver, byHand, approvedEver, told, faults>>

\* Mutant: lists the proofs before its own is created.
DecideSettlement_Early(r) ==
  LET i == task[r].inv
      full == ApprovedTotal(i) >= Amount[i]
  IN
  /\ At(r, "decide")
  /\ \E p \in Proof \ Receipt :
       /\ Fresh(p)
       /\ task' = [task EXCEPT ![r] =
                     [@ EXCEPT !.pc = "commit", !.proof = p,
                               !.gross = sessions[OrderOf[task[r].note.txn]].gross,
                               !.write = IF full THEN "lunas" ELSE "dibayar"]]
  /\ UNCHANGED <<rows, gateway, history, faults>>

\* Inside the unit: the new proof, approved, with the proofs others committed.
DecideSettlement(r) ==
  LET i == task[r].inv
      gross == sessions[OrderOf[task[r].note.txn]].gross
      full == ApprovedTotal(i) + gross >= Amount[i]
  IN
  /\ At(r, "decide")
  /\ \E p \in Proof \ Receipt :
       /\ Fresh(p)
       /\ task' = [task EXCEPT ![r] =
                     [@ EXCEPT !.pc = "commit", !.proof = p, !.gross = gross,
                               !.write = IF full /\ task[r].seen # "lunas" THEN "lunas"
                                         ELSE IF ~full /\ task[r].seen # "dibayar"
                                         THEN "dibayar" ELSE Null]]
  /\ UNCHANGED <<rows, gateway, history, faults>>

\* The unit commits and the gateway is answered 200; only now is anybody told.
CommitUnit(r) ==
  LET i == task[r].inv
      n == task[r].note
      w == task[r].write
  IN
  /\ At(r, "commit")
  /\ claims' = claims \cup {n}
  /\ acked' = acked \cup {n}
  /\ IF Credits(n)
     THEN /\ proofs' = [proofs EXCEPT ![task[r].proof] =
                          [inv |-> i, amount |-> task[r].gross,
                           txn |-> n.txn, status |-> "disetujui"]]
          /\ approvedEver' = approvedEver \cup {task[r].proof}
     ELSE UNCHANGED <<proofs, approvedEver>>
  /\ status' = IF w = Null THEN status ELSE [status EXCEPT ![i] = w]
  /\ pdf' = IF w \in {Null, "lunas"} THEN pdf ELSE [pdf EXCEPT ![i] = task[r].seenPdf]
  /\ IF w = "lunas"
     THEN /\ active' = [active EXCEPT ![Owner[i]] = TRUE]
          /\ settledEver' = settledEver \cup {i}
     ELSE UNCHANGED <<active, settledEver>>
  /\ IF w = "lunas" \/ (Credits(n) /\ w = Null /\ task[r].seen = "lunas")
     THEN TellOpened(i) ELSE UNCHANGED told
  /\ Finish(r)
  /\ UNCHANGED <<sessions, gateway, byHand, faults>>

-----------------------------------------------------------------------------
(* A handler dies: its process is restarted, its connection is cut, or a   *)
(* statement fails and it returns the error.  What it committed stays, an  *)
(* open unit is rolled back, and the gateway is not answered 200.          *)

\* Mutant: the claim of an open unit survives.
Die_KeepsClaim(r) ==
  /\ task[r].pc \in Fallible \ {"idle"}
  /\ faults < MaxFaults
  /\ faults' = faults + 1
  /\ claims' = IF InUnit(r) THEN claims \cup {task[r].note} ELSE claims
  /\ Finish(r)
  /\ UNCHANGED <<status, pdf, proofs, sessions, active, gateway, history>>

\* Mutant: the gateway is answered 200 when the unit fails.
Die_Answers200(r) ==
  /\ task[r].pc \in Fallible \ {"idle"}
  /\ faults < MaxFaults
  /\ faults' = faults + 1
  /\ acked' = IF InUnit(r) THEN acked \cup {task[r].note} ELSE acked
  /\ Finish(r)
  /\ UNCHANGED <<rows, gateway, settledEver, byHand, approvedEver, told>>

Die(r) ==
  /\ task[r].pc \in Fallible \ {"idle"}
  /\ faults < MaxFaults
  /\ faults' = faults + 1
  /\ Finish(r)
  /\ UNCHANGED <<rows, gateway, history>>

Handle(r) ==
  \/ MarkAwaiting(r)
  \/ InsertProof(r)
  \/ ApproveProof(r)
  \/ ListProofs(r)
  \/ MarkPartial(r)
  \/ ConfirmInvoice(r)
  \/ Activate(r)
  \/ RecordPdf(r)
  \/ \E o \in Order : OpenSession(r, o)
  \/ DecideSettlement(r)
  \/ CommitUnit(r)

Deliver(n) ==
  \/ \E r \in Request : ClaimNotification(r, n)
  \/ AcknowledgeRedelivery(n)

Next ==
  \/ \E r \in Request, i \in Invoice :
        \/ \E p \in Receipt, a \in Claim : StartUpload(r, i, p, a)
        \/ StartConfirm(r, i)
        \/ StartPdf(r, i)
        \/ StartPayment(r, i)
  \/ \E r \in Request, p \in Proof : StartApprove(r, p)
  \/ \E p \in Proof : RejectProof(p)
  \/ \E r \in Request : Handle(r) \/ Die(r)
  \/ \E n \in Notification : Deliver(n)
  \/ \E t \in Txn, s \in Stages : Advance(t, s)

Spec == Init /\ [][Next]_vars

\* The gateway sends a notification again until it is answered 200.  The server
\* starts a handler for every request that arrives, so a delivery is not held
\* back by others (the size of Request is a bound of the instance, hence SF).
Retry(t) == \E n \in Notification : n.txn = t /\ n \notin acked /\ Deliver(n)

\* A handler that is not cut off runs to its end.
FairSpec ==
  /\ Spec
  /\ \A r \in Request : WF_vars(Handle(r))
  /\ \A t \in Txn : SF_vars(Retry(t))

-----------------------------------------------------------------------------
(* Properties.                                                             *)

\* The money of one gateway transaction is credited by one proof at most,
\* however often, in whatever order and however concurrently its notifications
\* arrive (HandleGatewayNotification's claim).
CreditedOnce ==
  \A p, q \in Proof :
    proofs[p].txn # Null /\ proofs[p].txn = proofs[q].txn => p = q

\* A proof written by the webhook stands for money the gateway holds, in the
\* amount its session asked for, on the invoice that opened the session.
CreditIsPaid ==
  \A p \in Proof : proofs[p].txn # Null =>
    LET t == proofs[p].txn IN
    /\ stage[t] \in {"captured", "settled"}
    /\ proofs[p].inv = sessions[OrderOf[t]].inv
    /\ proofs[p].amount = sessions[OrderOf[t]].gross

\* A claim that reports received money is never committed without its proof,
\* whatever dies in between: "a claimed notification whose proof was never
\* written loses a payment silently" (the settlement unit of uow.go).
ClaimedIsCredited ==
  \A n \in claims : Credits(n) => \E p \in Proof : proofs[p].txn = n.txn

\* An invoice is lunas only if an admin confirmed it by hand or the proofs
\* approved for it so far add up to its amount, whatever other handlers write
\* between the listing of the proofs and the confirmation.
SettledIsJustified ==
  \A i \in Invoice :
    /\ status[i] = "lunas" => i \in settledEver
    /\ i \in settledEver =>
         i \in byHand \/ Credit(ProofsOf(i) \cap approvedEver) >= Amount[i]

\* The portal of a participant opens, and the participant is told so, only
\* after an invoice of theirs was lunas: nothing is announced that a rollback
\* can still take back (settlement.notify runs after the unit).
PortalAfterSettlement ==
  \A q \in Participant :
    active[q] \/ q \in told => \E i \in settledEver : Owner[i] = q

Quiet == \A r \in Request : At(r, "idle")

\* With no handler in flight, an invoice whose approved proofs cover it is
\* lunas (IsFullyPaid is "the one place the covered rule is stated").
CoveredIsSettled ==
  Quiet => \A i \in Invoice :
    ApprovedTotal(i) >= Amount[i] => status[i] = "lunas"

\* With no handler in flight, the participant of a settled invoice has the
\* portal open: Confirm and Activate belong together.
SettledIsActive ==
  Quiet => \A i \in Invoice : status[i] = "lunas" => active[Owner[i]]

\* A notification of received money that was answered 200, and so is never
\* sent again, is credited.
AcknowledgedIsCredited ==
  \A n \in acked : Credits(n) => \E p \in Proof : proofs[p].txn = n.txn

\* "StatusSettled is the terminal invoice status".
SettledIsTerminal ==
  [][\A i \in Invoice : status[i] = "lunas" => status'[i] = "lunas"]_status

Received == {t \in Txn : stage[t] \in {"captured", "settled"}}

Ledger == INSTANCE GatewayLedger WITH
  Entry <- Proof, received <- Received, ledger <- [p \in Proof |-> proofs[p].txn]

\* Seen through the proofs the webhook wrote, the system is the ledger: no step
\* of any handler credits money twice, before it arrived, or on another proof.
ImplementsLedger == Ledger!Spec

\* Money received at the gateway is credited in the end, through deliveries
\* that die, repeat and overtake each other.
ReceivedIsCredited ==
  \A t \in Txn :
    stage[t] \in {"captured", "settled"} ~> \E p \in Proof : proofs[p].txn = t
=============================================================================
