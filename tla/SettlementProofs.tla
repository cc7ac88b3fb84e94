-------------------------- MODULE SettlementProofs --------------------------
(***************************************************************************)
(* Theorems about Settlement, for any number of invoices, handlers, proofs *)
(* and gateway transactions.                                               *)
(*                                                                         *)
(* TypeOK is not inductive: RecordPdf writes a status back that it read    *)
(* earlier, and an approval looks up the invoice of a proof.  TypeInv adds *)
(* what those steps rely on.  PortalAfterSettlement is inductive on top of *)
(* it; ActivationInv says who is on its way to the activation that the     *)
(* settlement of an invoice calls for.                                     *)
(***************************************************************************)
EXTENDS Settlement, TLAPS

-----------------------------------------------------------------------------
(* Types.                                                                  *)

\* What a handler relies on at the step it has come to.
GoodTask(t) ==
  /\ t.pc # "idle" => t.inv \in Invoice /\ t.seen \in Statuses
  /\ t.pc \in {"decide", "commit"} => t.note \in Notification
  /\ t.pc = "approve" => t.proof \in Proof
  /\ t.pc = "commit" /\ Credits(t.note) => t.proof \in Proof

TypeInv ==
  /\ TypeOK
  /\ \A r \in Request : GoodTask(task[r])

\* What a handler reads of an invoice is a well-formed task.
LEMMA ReadType ==
  ASSUME TypeOK, NEW i \in Invoice, NEW l \in Labels
  PROVE  /\ Read(i, l) \in Task
         /\ Read(i, l).pc = l
         /\ Read(i, l).inv = i
         /\ Read(i, l).seen = status[i]
         /\ Read(i, l).proof = Null
         /\ Read(i, l).note = Null
BY DEF Read, Idle, Task, TypeOK, Labels

\* What the gateway reports is a notification.
LEMMA ReportType ==
  ASSUME NEW t \in Txn, NEW s
  PROVE  Report(t, s) \in Notification
BY DEF Report, Notification

\* A slot without a handler is well formed.
LEMMA IdleType == Idle \in Task /\ GoodTask(Idle)
BY DEF Idle, Task, Labels, GoodTask

\* The initial rows and tasks are well formed.
LEMMA TypeInit == Init => TypeInv
<1> SUFFICES ASSUME Init PROVE TypeInv
  OBVIOUS
<1>1. TypeOK
  BY IdleType, InstanceAssumption
  DEF Init, TypeOK, Statuses, Stages, NoProof, ProofRow
<1>2. \A r \in Request : GoodTask(task[r])
  BY IdleType DEF Init
<1> QED
  BY <1>1, <1>2 DEF TypeInv

\* A handler that starts holds the task it was given.
LEMMA StartStep ==
  ASSUME TypeOK, NEW r \in Request, NEW t \in Task, Start(r, t)
  PROVE  /\ task' \in [Request -> Task]
         /\ \A q \in Request : task'[q] = IF q = r THEN t ELSE task[q]
BY DEF Start, TypeOK

\* The step leaves handler r at l, working on invoice i with proof p and
\* notification n, and every other handler where it was.
Became(r, l, i, p, n) ==
  /\ task' \in [Request -> Task]
  /\ \A q \in Request : q # r => task'[q] = task[q]
  /\ task'[r].pc = l
  /\ task'[r].inv = i
  /\ task'[r].proof = p
  /\ task'[r].note = n

\* An upload starts with the invoice it read and a proof identifier of its own.
LEMMA StartUploadStep ==
  ASSUME TypeOK, NEW r \in Request, NEW i \in Invoice, NEW p \in Receipt,
         NEW a \in Claim, StartUpload(r, i, p, a)
  PROVE  /\ Became(r, IF status[i] = "diterbitkan" THEN "mark" ELSE "insert", i, p, Null)
         /\ task'[r].inv \in Invoice
         /\ task'[r].seen = status[task'[r].inv]
<1> DEFINE l == IF status[i] = "diterbitkan" THEN "mark" ELSE "insert"
<1>l. l \in Labels
  BY DEF Labels
<1>a. p \in Proof /\ a \in Nat
  BY ProofAssumption
<1> HIDE DEF l
<1> DEFINE u == Read(i, l)
<1>u. /\ u \in Task
      /\ u.pc = l
      /\ u.inv = i
      /\ u.proof = Null
      /\ u.note = Null
      /\ u.seen = status[u.inv]
  BY <1>l, ReadType
<1> HIDE DEF u
<1> DEFINE t == [u EXCEPT !.proof = p, !.gross = a]
<1>1. /\ t \in Task
      /\ t.pc = u.pc
      /\ t.inv = u.inv
      /\ t.seen = u.seen
      /\ t.proof = p
      /\ t.note = Null
  BY <1>u, <1>a DEF Task
<1>2. Start(r, t)
  BY DEF StartUpload, t, u, l
<1> HIDE DEF t
<1> QED
  BY <1>u, <1>1, <1>2, StartStep DEF Became, l

\* An approval starts with the proof and the invoice the proof belongs to.
LEMMA StartApproveStep ==
  ASSUME TypeOK, NEW r \in Request, NEW p \in Proof, StartApprove(r, p)
  PROVE  /\ Became(r, "approve", proofs[p].inv, p, Null)
         /\ task'[r].inv \in Invoice
         /\ task'[r].seen = status[task'[r].inv]
<1>i. proofs[p].inv \in Invoice
  BY DEF StartApprove, Exists, TypeOK, ProofRow
<1> DEFINE u == Read(proofs[p].inv, "approve")
<1>u. /\ u \in Task
      /\ u.pc = "approve"
      /\ u.inv = proofs[p].inv
      /\ u.proof = Null
      /\ u.note = Null
      /\ u.seen = status[u.inv]
  BY <1>i, ReadType DEF Labels
<1> HIDE DEF u
<1> DEFINE t == [u EXCEPT !.proof = p]
<1>1. /\ t \in Task
      /\ t.pc = u.pc
      /\ t.inv = u.inv
      /\ t.seen = u.seen
      /\ t.proof = p
      /\ t.note = Null
  BY <1>u DEF Task
<1>2. Start(r, t)
  BY DEF StartApprove, t, u
<1> HIDE DEF t
<1> QED
  BY <1>i, <1>u, <1>1, <1>2, StartStep DEF Became

\* A confirmation by hand starts with the invoice.
LEMMA StartConfirmStep ==
  ASSUME TypeOK, NEW r \in Request, NEW i \in Invoice, StartConfirm(r, i)
  PROVE  /\ Became(r, "confirm", i, Null, Null)
         /\ task'[r].inv \in Invoice
         /\ task'[r].seen = status[task'[r].inv]
<1>1. Start(r, Read(i, "confirm"))
  BY DEF StartConfirm
<1>2. "confirm" \in Labels
  BY DEF Labels
<1> QED
  BY <1>1, <1>2, ReadType, StartStep DEF Became

\* The drawing of a PDF starts with the invoice.
LEMMA StartPdfStep ==
  ASSUME TypeOK, NEW r \in Request, NEW i \in Invoice, StartPdf(r, i)
  PROVE  /\ Became(r, "pdf", i, Null, Null)
         /\ task'[r].inv \in Invoice
         /\ task'[r].seen = status[task'[r].inv]
<1>1. Start(r, Read(i, "pdf"))
  BY DEF StartPdf
<1>2. "pdf" \in Labels
  BY DEF Labels
<1> QED
  BY <1>1, <1>2, ReadType, StartStep DEF Became

\* A payment session starts with the invoice.
LEMMA StartPaymentStep ==
  ASSUME TypeOK, NEW r \in Request, NEW i \in Invoice, StartPayment(r, i)
  PROVE  /\ Became(r, "session", i, Null, Null)
         /\ task'[r].inv \in Invoice
         /\ task'[r].seen = status[task'[r].inv]
<1> PICK g \in 1..Amount[i] : Start(r, [Read(i, "session") EXCEPT !.gross = g])
  BY DEF StartPayment
<1>g. g \in Nat
  BY InvoiceAssumption
<1> DEFINE u == Read(i, "session")
<1>u. /\ u \in Task
      /\ u.pc = "session"
      /\ u.inv = i
      /\ u.proof = Null
      /\ u.note = Null
      /\ u.seen = status[u.inv]
  BY ReadType DEF Labels
<1> HIDE DEF u
<1> DEFINE t == [u EXCEPT !.gross = g]
<1>1. /\ t \in Task
      /\ t.pc = u.pc
      /\ t.inv = u.inv
      /\ t.seen = u.seen
      /\ t.proof = Null
      /\ t.note = Null
  BY <1>u, <1>g DEF Task
<1>2. Start(r, t)
  BY DEF t, u
<1> HIDE DEF t
<1> QED
  BY <1>u, <1>1, <1>2, StartStep DEF Became

\* A unit starts with its notification and the invoice the session belongs to.
LEMMA ClaimNotificationStep ==
  ASSUME TypeOK, NEW r \in Request, NEW n \in Notification, ClaimNotification(r, n)
  PROVE  /\ Became(r, IF Credits(n) THEN "decide" ELSE "commit",
                   sessions[OrderOf[n.txn]].inv, Null, n)
         /\ task'[r].inv \in Invoice
         /\ task'[r].seen = status[task'[r].inv]
<1> DEFINE i == sessions[OrderOf[n.txn]].inv
           l == IF Credits(n) THEN "decide" ELSE "commit"
           w == ReportedStatus(n)
<1>i. i \in Invoice
  BY GatewayAssumption DEF ClaimNotification, TypeOK, Notification
<1>l. l \in Labels
  BY DEF Labels
<1>w. w \in Statuses \cup {Null}
  BY DEF Statuses, ReportedStatus
<1> HIDE DEF i, l, w
<1> DEFINE u == Read(i, l)
<1>u. /\ u \in Task
      /\ u.pc = l
      /\ u.inv = i
      /\ u.proof = Null
      /\ u.note = Null
      /\ u.seen = status[u.inv]
  BY <1>i, <1>l, ReadType
<1> HIDE DEF u
<1> DEFINE t == [u EXCEPT !.note = n, !.write = w]
<1>1. /\ t \in Task
      /\ t.pc = u.pc
      /\ t.inv = u.inv
      /\ t.seen = u.seen
      /\ t.proof = Null
      /\ t.note = n
  BY <1>u, <1>w DEF Task
<1>2. Start(r, t)
  BY DEF ClaimNotification, Unit, t, u, i, l, w
<1> HIDE DEF t
<1> QED
  BY <1>i, <1>u, <1>1, <1>2, StartStep DEF Became, i, l

\* A handler that moves on keeps everything but its place.
LEMMA GotoStep ==
  ASSUME TypeOK, NEW r \in Request, NEW l \in Labels, Goto(r, l)
  PROVE  /\ task' \in [Request -> Task]
         /\ \A q \in Request : q # r => task'[q] = task[q]
         /\ task'[r].pc = l
         /\ task'[r].inv = task[r].inv
         /\ task'[r].proof = task[r].proof
         /\ task'[r].note = task[r].note
         /\ task'[r].seen = task[r].seen
         /\ task'[r].gross = task[r].gross
         /\ task'[r].write = task[r].write
<1> DEFINE t == task[r]
<1>1. t \in Task
  BY DEF TypeOK
<1> HIDE DEF t
<1>2. /\ [t EXCEPT !.pc = l] \in Task
      /\ [t EXCEPT !.pc = l].pc = l
      /\ [t EXCEPT !.pc = l].inv = t.inv
      /\ [t EXCEPT !.pc = l].proof = t.proof
      /\ [t EXCEPT !.pc = l].note = t.note
      /\ [t EXCEPT !.pc = l].seen = t.seen
      /\ [t EXCEPT !.pc = l].gross = t.gross
      /\ [t EXCEPT !.pc = l].write = t.write
  BY <1>1 DEF Task
<1>3. task' = [task EXCEPT ![r] = [t EXCEPT !.pc = l]]
  BY DEF Goto, t
<1> QED
  BY <1>2, <1>3 DEF TypeOK, t

\* A handler that finishes leaves an idle slot.
LEMMA FinishStep ==
  ASSUME TypeOK, NEW r \in Request, Finish(r)
  PROVE  /\ task' \in [Request -> Task]
         /\ \A q \in Request : task'[q] = IF q = r THEN Idle ELSE task[q]
BY IdleType DEF Finish, TypeOK

\* A unit that decided holds the proof it will insert, for its session's amount.
LEMMA DecideStep ==
  ASSUME TypeOK, NEW r \in Request, DecideSettlement(r), task[r].note \in Notification
  PROVE  /\ task' \in [Request -> Task]
         /\ \A q \in Request : q # r => task'[q] = task[q]
         /\ task'[r].pc = "commit"
         /\ task'[r].inv = task[r].inv
         /\ task'[r].proof \in Proof
         /\ Fresh(task'[r].proof)
         /\ task'[r].note = task[r].note
         /\ task'[r].seen = task[r].seen
         /\ task'[r].gross = sessions[OrderOf[task[r].note.txn]].gross
<1> DEFINE t == task[r]
           g == sessions[OrderOf[t.note.txn]].gross
<1>1. t \in Task
  BY DEF TypeOK
<1>2. g \in Nat
  BY GatewayAssumption DEF TypeOK, Notification
<1>3. PICK p \in Proof, w \in Statuses \cup {Null} :
        /\ Fresh(p)
        /\ task' = [task EXCEPT ![r] = [t EXCEPT !.pc = "commit", !.proof = p,
                                                 !.gross = g, !.write = w]]
  <2> DEFINE full == ApprovedTotal(t.inv) + g >= Amount[t.inv]
             w == IF full /\ t.seen # "lunas" THEN "lunas"
                  ELSE IF ~full /\ t.seen # "dibayar" THEN "dibayar" ELSE Null
  <2> HIDE DEF full
  <2>1. w \in Statuses \cup {Null}
    BY DEF Statuses
  <2> HIDE DEF w
  <2>2. \E p \in Proof :
          /\ Fresh(p)
          /\ task' = [task EXCEPT ![r] = [t EXCEPT !.pc = "commit", !.proof = p,
                                                   !.gross = g, !.write = w]]
    BY DEF DecideSettlement, w, full
  <2> QED
    BY <2>1, <2>2
<1> HIDE DEF t, g
<1> DEFINE u == [t EXCEPT !.pc = "commit", !.proof = p, !.gross = g, !.write = w]
<1>4. /\ u \in Task
      /\ u.pc = "commit"
      /\ u.inv = t.inv
      /\ u.proof = p
      /\ u.note = t.note
      /\ u.seen = t.seen
      /\ u.gross = g
  BY <1>1, <1>2 DEF Task, Labels
<1>5. task' = [task EXCEPT ![r] = u]
  BY <1>3
<1> HIDE DEF u
<1> QED
  BY <1>3, <1>4, <1>5 DEF TypeOK, t, g

\* Every step keeps the rows, the notifications and the tasks well formed.
LEMMA TypeStep == TypeInv /\ [Next]_vars => TypeInv'
<1> SUFFICES ASSUME TypeInv, [Next]_vars PROVE TypeInv'
  OBVIOUS
<1>t. TypeOK
  BY DEF TypeInv
<1>1. ASSUME NEW r \in Request, NEW i \in Invoice, NEW p \in Receipt, NEW a \in Claim,
             StartUpload(r, i, p, a)
      PROVE  TypeInv'
  <2>1. /\ task' \in [Request -> Task]
        /\ \A q \in Request : q # r => task'[q] = task[q]
        /\ GoodTask(task'[r])
    BY <1>1, <1>t, StartUploadStep DEF Became, GoodTask, TypeOK
  <2> QED
    BY <1>1, <2>1 DEF StartUpload, TypeInv, TypeOK, rows, gateway, history
<1>2. ASSUME NEW r \in Request, NEW p \in Proof, StartApprove(r, p)
      PROVE  TypeInv'
  <2>1. /\ task' \in [Request -> Task]
        /\ \A q \in Request : q # r => task'[q] = task[q]
        /\ GoodTask(task'[r])
    BY <1>2, <1>t, StartApproveStep DEF Became, GoodTask, TypeOK
  <2> QED
    BY <1>2, <2>1 DEF StartApprove, TypeInv, TypeOK, rows, gateway, history
<1>3. ASSUME NEW r \in Request, NEW i \in Invoice, StartConfirm(r, i)
      PROVE  TypeInv'
  <2>1. /\ task' \in [Request -> Task]
        /\ \A q \in Request : q # r => task'[q] = task[q]
        /\ GoodTask(task'[r])
    BY <1>3, <1>t, StartConfirmStep DEF Became, GoodTask, TypeOK
  <2> QED
    BY <1>3, <2>1 DEF StartConfirm, TypeInv, TypeOK, rows, gateway, history
<1>4. ASSUME NEW r \in Request, NEW i \in Invoice, StartPdf(r, i)
      PROVE  TypeInv'
  <2>1. /\ task' \in [Request -> Task]
        /\ \A q \in Request : q # r => task'[q] = task[q]
        /\ GoodTask(task'[r])
    BY <1>4, <1>t, StartPdfStep DEF Became, GoodTask, TypeOK
  <2> QED
    BY <1>4, <2>1 DEF StartPdf, TypeInv, TypeOK, rows, gateway, history
<1>5. ASSUME NEW r \in Request, NEW i \in Invoice, StartPayment(r, i)
      PROVE  TypeInv'
  <2>1. /\ task' \in [Request -> Task]
        /\ \A q \in Request : q # r => task'[q] = task[q]
        /\ GoodTask(task'[r])
    BY <1>5, <1>t, StartPaymentStep DEF Became, GoodTask, TypeOK
  <2> QED
    BY <1>5, <2>1 DEF StartPayment, TypeInv, TypeOK, rows, gateway, history
<1>6. ASSUME NEW r \in Request, NEW n \in Notification, ClaimNotification(r, n)
      PROVE  TypeInv'
  <2>1. /\ task' \in [Request -> Task]
        /\ \A q \in Request : q # r => task'[q] = task[q]
        /\ GoodTask(task'[r])
    BY <1>6, <1>t, ClaimNotificationStep DEF Became, GoodTask, TypeOK
  <2> QED
    BY <1>6, <2>1 DEF ClaimNotification, TypeInv, TypeOK, rows, gateway, history
<1>7. ASSUME NEW r \in Request, MarkAwaiting(r)
      PROVE  TypeInv'
  <2>1. /\ task' \in [Request -> Task]
        /\ \A q \in Request : q # r => task'[q] = task[q]
        /\ GoodTask(task'[r])
    <3>1. GoodTask(task[r]) /\ task[r].pc # "idle"
      BY <1>7 DEF MarkAwaiting, TypeInv, At
    <3> QED
      BY <1>7, <1>t, <3>1, GotoStep DEF MarkAwaiting, Labels, GoodTask
  <2>2. task[r].inv \in Invoice /\ task[r].proof \in Proof \cup {Null}
    BY <1>7, <1>t DEF MarkAwaiting, TypeInv, TypeOK, Task, At, GoodTask
  <2>3. task[r].seenPdf \in BOOLEAN
    BY <1>t DEF TypeOK, Task
  <2>4. status' \in [Invoice -> Statuses] /\ pdf' \in [Invoice -> BOOLEAN]
    BY <1>7, <1>t, <2>3 DEF MarkAwaiting, UpdateInvoice, TypeOK, Statuses
  <2> QED
    BY <1>7, <2>1, <2>2, <2>4
    DEF MarkAwaiting, TypeInv, TypeOK, gateway, history
<1>8. ASSUME NEW r \in Request, InsertProof(r)
      PROVE  TypeInv'
  <2>1. /\ task' \in [Request -> Task]
        /\ \A q \in Request : task'[q] = IF q = r THEN Idle ELSE task[q]
    BY <1>8, <1>t, FinishStep DEF InsertProof
  <2>2. task[r].inv \in Invoice /\ task[r].gross \in Nat
    BY <1>8 DEF InsertProof, TypeInv, TypeOK, Task, At, GoodTask
  <2> QED
    BY <1>8, <2>1, <2>2, IdleType
    DEF InsertProof, TypeInv, TypeOK, gateway, history, ProofRow
<1>9. ASSUME NEW p \in Proof, RejectProof(p)
      PROVE  TypeInv'
  BY <1>9 DEF RejectProof, TypeInv, TypeOK, rows, gateway, history, ProofRow
<1>10. ASSUME NEW r \in Request, ApproveProof(r)
      PROVE  TypeInv'
  <2>1. /\ task' \in [Request -> Task]
        /\ \A q \in Request : q # r => task'[q] = task[q]
        /\ GoodTask(task'[r])
    <3>1. GoodTask(task[r]) /\ task[r].pc # "idle"
      BY <1>10 DEF ApproveProof, TypeInv, At
    <3> QED
      BY <1>10, <1>t, <3>1, GotoStep DEF ApproveProof, Labels, GoodTask
  <2>2. task[r].inv \in Invoice /\ task[r].proof \in Proof \cup {Null}
    BY <1>10, <1>t DEF ApproveProof, TypeInv, TypeOK, Task, At, GoodTask
  <2>3. task[r].proof \in Proof
    BY <1>10 DEF ApproveProof, TypeInv, At, GoodTask
  <2> QED
    BY <1>10, <2>1, <2>3 DEF ApproveProof, TypeInv, TypeOK, rows, gateway, history, ProofRow
<1>11. ASSUME NEW r \in Request, ListProofs(r)
      PROVE  TypeInv'
  <2>1. task[r].inv \in Invoice /\ task[r].seen \in Statuses
    BY <1>11 DEF ListProofs, TypeInv, At, GoodTask
  <2>2. \/ Finish(r)
        \/ Goto(r, "confirm")
        \/ Goto(r, "partial")
    BY <1>11 DEF ListProofs
  <2>3. /\ task' \in [Request -> Task]
        /\ \A q \in Request : q # r => task'[q] = task[q]
        /\ GoodTask(task'[r])
    BY <1>t, <2>1, <2>2, FinishStep, GotoStep, IdleType DEF Labels, GoodTask
  <2>4. told' \subseteq Participant
    BY <1>11, <1>t, <2>1, InvoiceAssumption DEF ListProofs, TellOpened, TypeOK
  <2> QED
    BY <1>11, <2>1, <2>3, <2>4, IdleType
    DEF ListProofs, TypeInv, TypeOK, rows, gateway
<1>12. ASSUME NEW r \in Request, MarkPartial(r)
      PROVE  TypeInv'
  <2>1. /\ task' \in [Request -> Task]
        /\ \A q \in Request : task'[q] = IF q = r THEN Idle ELSE task[q]
    BY <1>12, <1>t, FinishStep DEF MarkPartial
  <2>2. task[r].seenPdf \in BOOLEAN
    BY DEF TypeInv, TypeOK, Task
  <2> QED
    BY <1>12, <2>1, <2>2, IdleType
    DEF MarkPartial, TypeInv, TypeOK, gateway, history, UpdateInvoice, Statuses
<1>13. ASSUME NEW r \in Request, ConfirmInvoice(r)
      PROVE  TypeInv'
  <2>1. /\ task' \in [Request -> Task]
        /\ \A q \in Request : q # r => task'[q] = task[q]
        /\ GoodTask(task'[r])
    <3>1. GoodTask(task[r]) /\ task[r].pc # "idle"
      BY <1>13 DEF ConfirmInvoice, TypeInv, At
    <3> QED
      BY <1>13, <1>t, <3>1, GotoStep DEF ConfirmInvoice, Labels, GoodTask
  <2>2. task[r].inv \in Invoice /\ task[r].proof \in Proof \cup {Null}
    BY <1>13, <1>t DEF ConfirmInvoice, TypeInv, TypeOK, Task, At, GoodTask
  <2> QED
    BY <1>13, <2>1, <2>2 DEF ConfirmInvoice, TypeInv, TypeOK, rows, gateway, history, Statuses
<1>14. ASSUME NEW r \in Request, Activate(r)
      PROVE  TypeInv'
  <2>1. /\ task' \in [Request -> Task]
        /\ \A q \in Request : task'[q] = IF q = r THEN Idle ELSE task[q]
    BY <1>14, <1>t, FinishStep DEF Activate
  <2>2. task[r].inv \in Invoice
    BY <1>14 DEF Activate, TypeInv, At, GoodTask
  <2> QED
    BY <1>14, <2>1, <2>2, IdleType, InvoiceAssumption
    DEF Activate, TypeInv, TypeOK, gateway, TellOpened
<1>15. ASSUME NEW r \in Request, RecordPdf(r)
      PROVE  TypeInv'
  <2>1. /\ task' \in [Request -> Task]
        /\ \A q \in Request : task'[q] = IF q = r THEN Idle ELSE task[q]
    BY <1>15, <1>t, FinishStep DEF RecordPdf
  <2>2. task[r].seen \in Statuses
    BY <1>15 DEF RecordPdf, TypeInv, At, GoodTask
  <2> QED
    BY <1>15, <2>1, <2>2, IdleType
    DEF RecordPdf, TypeInv, TypeOK, gateway, history, UpdateInvoice
<1>16. ASSUME NEW r \in Request, NEW o \in Order, OpenSession(r, o)
      PROVE  TypeInv'
  <2>1. /\ task' \in [Request -> Task]
        /\ \A q \in Request : task'[q] = IF q = r THEN Idle ELSE task[q]
    BY <1>16, <1>t, FinishStep DEF OpenSession
  <2>2. task[r].inv \in Invoice \cup {Null} /\ task[r].gross \in Nat
    BY DEF TypeInv, TypeOK, Task
  <2> QED
    BY <1>16, <2>1, <2>2, IdleType DEF OpenSession, TypeInv, TypeOK, gateway, history
<1>17. ASSUME NEW r \in Request, DecideSettlement(r)
      PROVE  TypeInv'
  <2>1. /\ task[r].note \in Notification
        /\ task[r].inv \in Invoice
        /\ task[r].seen \in Statuses
    BY <1>17 DEF DecideSettlement, TypeInv, At, GoodTask
  <2>2. /\ task' \in [Request -> Task]
        /\ \A q \in Request : q # r => task'[q] = task[q]
        /\ GoodTask(task'[r])
    BY <1>17, <1>t, <2>1, DecideStep DEF GoodTask
  <2> QED
    BY <1>17, <2>1, <2>2
    DEF DecideSettlement, TypeInv, TypeOK, rows, gateway, history
<1>18. ASSUME NEW r \in Request, CommitUnit(r)
      PROVE  TypeInv'
  <2>1. /\ task[r] \in Task
        /\ task[r].note \in Notification
        /\ task[r].inv \in Invoice
        /\ task[r].seenPdf \in BOOLEAN
        /\ task[r].gross \in Nat
        /\ task[r].write \in Statuses \cup {Null}
        /\ Credits(task[r].note) => task[r].proof \in Proof
    BY <1>18 DEF CommitUnit, TypeInv, TypeOK, Task, At, GoodTask
  <2>2. /\ task' \in [Request -> Task]
        /\ \A q \in Request : task'[q] = IF q = r THEN Idle ELSE task[q]
    BY <1>18, <1>t, FinishStep DEF CommitUnit
  <2>3. status' \in [Invoice -> Statuses] /\ pdf' \in [Invoice -> BOOLEAN]
    BY <1>18, <1>t, <2>1 DEF CommitUnit, UpdateInvoice, TypeOK
  <2>4. proofs' \in [Proof -> ProofRow]
    BY <1>18, <2>1 DEF CommitUnit, TypeInv, TypeOK, ProofRow, Notification
  <2>o. Owner[task[r].inv] \in Participant
    BY <2>1, InvoiceAssumption
  <2>5. /\ active' \in [Participant -> BOOLEAN]
        /\ settledEver' \subseteq Invoice
    BY <1>18, <1>t, <2>1 DEF CommitUnit, TypeOK
  <2>t. told' \subseteq Participant
    BY <1>18, <1>t, <2>o DEF CommitUnit, TellOpened, TypeOK
  <2>6. approvedEver' \subseteq Proof
    BY <1>18, <1>t, <2>1 DEF CommitUnit, TypeOK
  <2> QED
    BY <1>18, <2>1, <2>2, <2>3, <2>4, <2>5, <2>t, <2>6, IdleType
    DEF CommitUnit, TypeInv, TypeOK, gateway
<1>19. ASSUME NEW r \in Request, Die(r)
      PROVE  TypeInv'
  <2>1. /\ task' \in [Request -> Task]
        /\ \A q \in Request : task'[q] = IF q = r THEN Idle ELSE task[q]
    BY <1>19, <1>t, FinishStep DEF Die
  <2> QED
    BY <1>19, <2>1, IdleType, InstanceAssumption DEF Die, TypeInv, TypeOK, rows, gateway, history
<1>20. ASSUME NEW n \in Notification, AcknowledgeRedelivery(n)
      PROVE  TypeInv'
  BY <1>20 DEF AcknowledgeRedelivery, TypeInv, TypeOK, rows, gateway, history
<1>21. ASSUME NEW t \in Txn, NEW s \in Stages, Advance(t, s)
      PROVE  TypeInv'
  BY <1>21, ReportType DEF Advance, TypeInv, TypeOK, rows, gateway, history
<1>22. CASE UNCHANGED vars
  BY <1>22 DEF vars, TypeInv, TypeOK, rows, gateway, history
<1> QED
  BY <1>1, <1>2, <1>3, <1>4, <1>5, <1>6, <1>7, <1>8, <1>9, <1>10, <1>11, <1>12,
     <1>13, <1>14, <1>15, <1>16, <1>17, <1>18, <1>19, <1>20, <1>21, <1>22
  DEF Next, Handle, Deliver

\* Every variable keeps its type, whatever the handlers and the gateway do.
THEOREM TypeCorrect == Spec => []TypeOK
<1>1. TypeInv => TypeOK
  BY DEF TypeInv
<1> QED
  BY TypeInit, TypeStep, <1>1, PTL DEF Spec

-----------------------------------------------------------------------------
(* The portal opens after a settlement.  A status read earlier may be      *)
(* stale, but what it says of a settlement stays true.                     *)

SettledTask(t) ==
  t.pc # "idle" /\ (t.seen = "lunas" \/ t.pc = "activate") => t.inv \in settledEver

PortalInv ==
  /\ \A i \in Invoice : status[i] = "lunas" => i \in settledEver
  /\ \A r \in Request : SettledTask(task[r])
  /\ PortalAfterSettlement

\* A step that opens no portal keeps PortalInv when the invoices it marks lunas
\* and the handlers it moves know of a settlement.
LEMMA PortalKept ==
  ASSUME TypeInv, PortalInv, settledEver \subseteq settledEver',
         active' = active, told' = told,
         \A i \in Invoice : status'[i] = "lunas" => status[i] = "lunas" \/ i \in settledEver',
         \A r \in Request : task'[r] = task[r] \/ SettledTask(task[r])'
  PROVE  PortalInv'
<1>1. \A r \in Request : SettledTask(task[r])'
  BY DEF PortalInv, SettledTask
<1>2. PortalAfterSettlement'
  BY DEF PortalInv, PortalAfterSettlement
<1> QED
  BY <1>1, <1>2 DEF PortalInv

\* No portal is open in the beginning.
LEMMA PortalInit == Init => PortalInv
<1> SUFFICES ASSUME Init PROVE PortalInv
  OBVIOUS
<1>1. \A i \in Invoice : status[i] # "lunas"
  BY DEF Init
<1>2. \A r \in Request : SettledTask(task[r])
  BY DEF Init, SettledTask, Idle
<1>3. PortalAfterSettlement
  BY DEF Init, PortalAfterSettlement
<1> QED
  BY <1>1, <1>2, <1>3 DEF PortalInv

\* Every step keeps an opened portal behind a settled invoice.
LEMMA PortalStep == TypeInv /\ PortalInv /\ [Next]_vars => PortalInv'
<1> SUFFICES ASSUME TypeInv, PortalInv, [Next]_vars PROVE PortalInv'
  OBVIOUS
<1>t. TypeOK
  BY DEF TypeInv
<1>s. /\ \A i \in Invoice : status[i] = "lunas" => i \in settledEver
      /\ \A r \in Request : SettledTask(task[r])
  BY DEF PortalInv
<1>i. Idle.pc = "idle"
  BY DEF Idle
<1>1. ASSUME NEW r \in Request, NEW i \in Invoice, NEW p \in Receipt, NEW a \in Claim,
             StartUpload(r, i, p, a)
      PROVE  PortalInv'
  <2>1. /\ \A q \in Request : q # r => task'[q] = task[q]
        /\ SettledTask(task[r])'
    BY <1>1, <1>t, <1>s, StartUploadStep DEF StartUpload, Became, SettledTask, history
  <2> QED
    BY <1>1, <2>1, PortalKept DEF StartUpload, rows, history
<1>2. ASSUME NEW r \in Request, NEW p \in Proof, StartApprove(r, p)
      PROVE  PortalInv'
  <2>1. /\ \A q \in Request : q # r => task'[q] = task[q]
        /\ SettledTask(task[r])'
    BY <1>2, <1>t, <1>s, StartApproveStep DEF StartApprove, Became, SettledTask, history
  <2> QED
    BY <1>2, <2>1, PortalKept DEF StartApprove, rows, history
<1>3. ASSUME NEW r \in Request, NEW i \in Invoice, StartConfirm(r, i)
      PROVE  PortalInv'
  <2>1. /\ \A q \in Request : q # r => task'[q] = task[q]
        /\ SettledTask(task[r])'
    BY <1>3, <1>t, <1>s, StartConfirmStep DEF StartConfirm, Became, SettledTask, history
  <2> QED
    BY <1>3, <2>1, PortalKept DEF StartConfirm, rows, history
<1>4. ASSUME NEW r \in Request, NEW i \in Invoice, StartPdf(r, i)
      PROVE  PortalInv'
  <2>1. /\ \A q \in Request : q # r => task'[q] = task[q]
        /\ SettledTask(task[r])'
    BY <1>4, <1>t, <1>s, StartPdfStep DEF StartPdf, Became, SettledTask, history
  <2> QED
    BY <1>4, <2>1, PortalKept DEF StartPdf, rows, history
<1>5. ASSUME NEW r \in Request, NEW i \in Invoice, StartPayment(r, i)
      PROVE  PortalInv'
  <2>1. /\ \A q \in Request : q # r => task'[q] = task[q]
        /\ SettledTask(task[r])'
    BY <1>5, <1>t, <1>s, StartPaymentStep DEF StartPayment, Became, SettledTask, history
  <2> QED
    BY <1>5, <2>1, PortalKept DEF StartPayment, rows, history
<1>6. ASSUME NEW r \in Request, NEW n \in Notification, ClaimNotification(r, n)
      PROVE  PortalInv'
  <2>1. /\ \A q \in Request : q # r => task'[q] = task[q]
        /\ task'[r].pc \in {"decide", "commit"}
        /\ task'[r].inv \in Invoice
        /\ task'[r].seen = status[task'[r].inv]
    BY <1>6, <1>t, ClaimNotificationStep DEF Became
  <2>2. SettledTask(task[r])'
    BY <1>6, <1>s, <2>1 DEF ClaimNotification, SettledTask, history
  <2> QED
    BY <1>6, <2>1, <2>2, PortalKept DEF ClaimNotification, rows, history
<1>7. ASSUME NEW r \in Request, MarkAwaiting(r)
      PROVE  PortalInv'
  <2>1. /\ \A q \in Request : q # r => task'[q] = task[q]
        /\ task'[r].pc = "insert"
        /\ task'[r].inv = task[r].inv
        /\ task'[r].seen = task[r].seen
    BY <1>7, <1>t, GotoStep DEF MarkAwaiting, Labels
  <2>2. \A q \in Request : task'[q] = task[q] \/ SettledTask(task[q])'
    BY <1>7, <1>s, <2>1 DEF MarkAwaiting, At, SettledTask, history
  <2> QED
    BY <1>7, <1>s, <2>2, PortalKept DEF MarkAwaiting, UpdateInvoice, TypeInv, TypeOK, history
<1>8. ASSUME NEW r \in Request, InsertProof(r)
      PROVE  PortalInv'
  <2>1. \A q \in Request : task'[q] = IF q = r THEN Idle ELSE task[q]
    BY <1>8, <1>t, FinishStep DEF InsertProof
  <2>2. \A q \in Request : task'[q] = task[q] \/ SettledTask(task[q])'
    BY <1>i, <2>1 DEF SettledTask
  <2> QED
    BY <1>8, <1>s, <2>2, PortalKept DEF InsertProof, rows, history
<1>9. ASSUME NEW p \in Proof, RejectProof(p)
      PROVE  PortalInv'
  BY <1>9, PortalKept DEF RejectProof, history
<1>10. ASSUME NEW r \in Request, ApproveProof(r)
      PROVE  PortalInv'
  <2>1. /\ \A q \in Request : q # r => task'[q] = task[q]
        /\ task'[r].pc = "list"
        /\ task'[r].inv = task[r].inv
        /\ task'[r].seen = task[r].seen
    BY <1>10, <1>t, GotoStep DEF ApproveProof, Labels
  <2>2. \A q \in Request : task'[q] = task[q] \/ SettledTask(task[q])'
    BY <1>10, <1>s, <2>1 DEF ApproveProof, At, SettledTask, history
  <2> QED
    BY <1>10, <1>s, <2>2, PortalKept DEF ApproveProof, rows, history
<1>11. ASSUME NEW r \in Request, ListProofs(r)
      PROVE  PortalInv'
  <2>1. task[r].inv \in Invoice /\ Owner[task[r].inv] \in Participant
    BY <1>11, InvoiceAssumption DEF ListProofs, TypeInv, At, GoodTask
  <2>2. /\ \A q \in Request : q # r => task'[q] = task[q]
        /\ \/ task'[r] = Idle
           \/ /\ task'[r].pc \in {"confirm", "partial"}
              /\ task'[r].inv = task[r].inv
              /\ task'[r].seen = task[r].seen
    <3>1. Finish(r) \/ Goto(r, "confirm") \/ Goto(r, "partial")
      BY <1>11 DEF ListProofs
    <3> QED
      BY <1>t, <3>1, FinishStep, GotoStep DEF Labels
  <2>3. \A q \in Request : task'[q] = task[q] \/ SettledTask(task[q])'
    BY <1>11, <1>s, <1>i, <2>2 DEF ListProofs, At, SettledTask
  <2>4. CASE told' = told
    BY <1>11, <2>3, <2>4, PortalKept DEF ListProofs, rows
  <2>5. CASE told' # told
    <3>1. task[r].seen = "lunas" /\ told' = told \cup {Owner[task[r].inv]}
      BY <1>11, <2>5 DEF ListProofs, TellOpened
    <3>2. task[r].inv \in settledEver
      BY <1>11, <1>s, <3>1 DEF ListProofs, At, SettledTask
    <3>3. PortalAfterSettlement'
      BY <1>11, <2>1, <3>1, <3>2
      DEF ListProofs, PortalInv, PortalAfterSettlement, rows
    <3>4. \A q \in Request : SettledTask(task[q])'
      BY <1>11, <1>s, <2>3 DEF ListProofs, SettledTask
    <3> QED
      BY <1>11, <1>s, <3>3, <3>4 DEF ListProofs, PortalInv, rows
  <2> QED
    BY <2>4, <2>5
<1>12. ASSUME NEW r \in Request, MarkPartial(r)
      PROVE  PortalInv'
  <2>1. \A q \in Request : task'[q] = IF q = r THEN Idle ELSE task[q]
    BY <1>12, <1>t, FinishStep DEF MarkPartial
  <2>2. \A q \in Request : task'[q] = task[q] \/ SettledTask(task[q])'
    BY <1>i, <2>1 DEF SettledTask
  <2> QED
    BY <1>12, <1>s, <2>2, PortalKept DEF MarkPartial, UpdateInvoice, TypeInv, TypeOK, history
<1>13. ASSUME NEW r \in Request, ConfirmInvoice(r)
      PROVE  PortalInv'
  <2>1. /\ \A q \in Request : q # r => task'[q] = task[q]
        /\ task'[r].pc = "activate"
        /\ task'[r].inv = task[r].inv
    BY <1>13, <1>t, GotoStep DEF ConfirmInvoice, Labels
  <2>2. \A q \in Request : task'[q] = task[q] \/ SettledTask(task[q])'
    BY <1>13, <2>1 DEF ConfirmInvoice, SettledTask
  <2> QED
    BY <1>13, <1>s, <2>2, PortalKept DEF ConfirmInvoice, TypeInv, TypeOK
<1>14. ASSUME NEW r \in Request, Activate(r)
      PROVE  PortalInv'
  <2>1. \A q \in Request : task'[q] = IF q = r THEN Idle ELSE task[q]
    BY <1>14, <1>t, FinishStep DEF Activate
  <2>2. task[r].inv \in settledEver
    BY <1>14, <1>s DEF Activate, At, SettledTask
  <2>3. \A q \in Request : SettledTask(task[q])'
    BY <1>14, <1>s, <1>i, <2>1 DEF Activate, SettledTask
  <2>4. PortalAfterSettlement'
    BY <1>14, <1>t, <2>2
    DEF Activate, TellOpened, PortalInv, PortalAfterSettlement, TypeOK
  <2> QED
    BY <1>14, <1>s, <2>3, <2>4 DEF Activate, PortalInv
<1>15. ASSUME NEW r \in Request, RecordPdf(r)
      PROVE  PortalInv'
  <2>1. \A q \in Request : task'[q] = IF q = r THEN Idle ELSE task[q]
    BY <1>15, <1>t, FinishStep DEF RecordPdf
  <2>2. \A q \in Request : task'[q] = task[q] \/ SettledTask(task[q])'
    BY <1>i, <2>1 DEF SettledTask
  <2>3. task[r].seen = "lunas" => task[r].inv \in settledEver
    BY <1>15, <1>s DEF RecordPdf, At, SettledTask
  <2> QED
    BY <1>15, <1>s, <2>2, <2>3, PortalKept DEF RecordPdf, UpdateInvoice, TypeInv, TypeOK, history
<1>16. ASSUME NEW r \in Request, NEW o \in Order, OpenSession(r, o)
      PROVE  PortalInv'
  <2>1. \A q \in Request : task'[q] = IF q = r THEN Idle ELSE task[q]
    BY <1>16, <1>t, FinishStep DEF OpenSession
  <2>2. \A q \in Request : task'[q] = task[q] \/ SettledTask(task[q])'
    BY <1>i, <2>1 DEF SettledTask
  <2> QED
    BY <1>16, <1>s, <2>2, PortalKept DEF OpenSession, history
<1>17. ASSUME NEW r \in Request, DecideSettlement(r)
      PROVE  PortalInv'
  <2>1. task[r].note \in Notification
    BY <1>17 DEF DecideSettlement, TypeInv, GoodTask, At
  <2>2. /\ \A q \in Request : q # r => task'[q] = task[q]
        /\ task'[r].pc = "commit"
        /\ task'[r].inv = task[r].inv
        /\ task'[r].seen = task[r].seen
    BY <1>17, <1>t, <2>1, DecideStep
  <2>3. \A q \in Request : task'[q] = task[q] \/ SettledTask(task[q])'
    BY <1>17, <1>s, <2>2 DEF DecideSettlement, At, SettledTask, history
  <2> QED
    BY <1>17, <2>3, PortalKept DEF DecideSettlement, rows, history
<1>18. ASSUME NEW r \in Request, CommitUnit(r)
      PROVE  PortalInv'
  <2> DEFINE i == task[r].inv
             w == task[r].write
  <2>1. i \in Invoice
    BY <1>18 DEF CommitUnit, TypeInv, At, GoodTask
  <2>2. \A q \in Request : task'[q] = IF q = r THEN Idle ELSE task[q]
    BY <1>18, <1>t, FinishStep DEF CommitUnit
  <2>3. /\ settledEver' = IF w = "lunas" THEN settledEver \cup {i} ELSE settledEver
        /\ active' = IF w = "lunas" THEN [active EXCEPT ![Owner[i]] = TRUE] ELSE active
        /\ status' = IF w = Null THEN status ELSE [status EXCEPT ![i] = w]
    BY <1>18 DEF CommitUnit
  <2>4. told' = told \/ (told' = told \cup {Owner[i]} /\ i \in settledEver')
    <3>1. task[r].seen = "lunas" => i \in settledEver
      BY <1>18, <1>s DEF CommitUnit, At, SettledTask
    <3> QED
      BY <1>18, <2>3, <3>1 DEF CommitUnit, TellOpened
  <2> HIDE DEF i, w
  <2>5. \A j \in Invoice : status'[j] = "lunas" => j \in settledEver'
    BY <1>t, <1>s, <2>1, <2>3 DEF TypeOK
  <2>6. \A q \in Request : SettledTask(task[q])'
    BY <1>s, <1>i, <2>2, <2>3 DEF SettledTask
  <2>7. PortalAfterSettlement'
    BY <1>t, <2>1, <2>3, <2>4 DEF PortalInv, PortalAfterSettlement, TypeOK
  <2> QED
    BY <2>5, <2>6, <2>7 DEF PortalInv
<1>19. ASSUME NEW r \in Request, Die(r)
      PROVE  PortalInv'
  <2>1. \A q \in Request : task'[q] = IF q = r THEN Idle ELSE task[q]
    BY <1>19, <1>t, FinishStep DEF Die
  <2>2. \A q \in Request : task'[q] = task[q] \/ SettledTask(task[q])'
    BY <1>i, <2>1 DEF SettledTask
  <2> QED
    BY <1>19, <1>s, <2>2, PortalKept DEF Die, rows, history
<1>20. ASSUME NEW n \in Notification, AcknowledgeRedelivery(n)
      PROVE  PortalInv'
  BY <1>20, PortalKept DEF AcknowledgeRedelivery, rows
<1>21. ASSUME NEW t \in Txn, NEW s \in Stages, Advance(t, s)
      PROVE  PortalInv'
  BY <1>21, PortalKept DEF Advance, rows, history
<1>22. CASE UNCHANGED vars
  BY <1>22, PortalKept DEF vars, rows, history
<1> QED
  BY <1>1, <1>2, <1>3, <1>4, <1>5, <1>6, <1>7, <1>8, <1>9, <1>10, <1>11, <1>12,
     <1>13, <1>14, <1>15, <1>16, <1>17, <1>18, <1>19, <1>20, <1>21, <1>22
  DEF Next, Handle, Deliver

\* The portal opens, and is announced, only after an invoice was lunas.
THEOREM PortalSafe == Spec => []PortalAfterSettlement
<1>1. PortalInv => PortalAfterSettlement
  BY DEF PortalInv
<1> QED
  BY TypeInit, TypeStep, PortalInit, PortalStep, <1>1, PTL DEF Spec

-----------------------------------------------------------------------------
(* Where a confirmation cannot die between its two commits, the portal is  *)
(* open or about to be for every invoice that was settled.                 *)

ActivationInv ==
  \A i \in settledEver :
    \/ active[Owner[i]]
    \/ \E r \in Request : task[r].pc = "activate" /\ task[r].inv = i

\* A step that settles nothing, closes no portal and stops no activation.
LEMMA ActivationKept ==
  ASSUME TypeInv, ActivationInv, settledEver' = settledEver, active' = active,
         \A r \in Request : task'[r] = task[r] \/ task[r].pc # "activate"
  PROVE  ActivationInv'
BY DEF ActivationInv

\* A handler that starts was idle.
LEMMA StartedIdle ==
  ASSUME TypeOK, NEW r \in Request, NEW t, Start(r, t)
  PROVE  \A q \in Request : task'[q] = task[q] \/ task[q].pc # "activate"
BY DEF Start, At, TypeOK

\* A settlement opens the portal at once, or has the handler that will.
LEMMA ActivationStep ==
  ASSUME "activate" \notin Fallible
  PROVE  TypeInv /\ ActivationInv /\ [Next]_vars => ActivationInv'
<1> SUFFICES ASSUME TypeInv, ActivationInv, [Next]_vars PROVE ActivationInv'
  OBVIOUS
<1>t. TypeOK
  BY DEF TypeInv
<1>1. ASSUME NEW r \in Request, NEW i \in Invoice,
             \/ \E p \in Receipt, a \in Claim : StartUpload(r, i, p, a)
             \/ StartConfirm(r, i)
             \/ StartPdf(r, i)
             \/ StartPayment(r, i)
      PROVE  ActivationInv'
  <2>1. \E t : Start(r, t)
    BY <1>1 DEF StartUpload, StartConfirm, StartPdf, StartPayment
  <2>2. settledEver' = settledEver /\ active' = active
    BY <1>1 DEF StartUpload, StartConfirm, StartPdf, StartPayment, rows, history
  <2> QED
    BY <1>t, <2>1, <2>2, StartedIdle, ActivationKept
<1>2. ASSUME NEW r \in Request, NEW p \in Proof, StartApprove(r, p)
      PROVE  ActivationInv'
  <2>1. \E t : Start(r, t)
    BY <1>2 DEF StartApprove
  <2> QED
    BY <1>2, <1>t, <2>1, StartedIdle, ActivationKept DEF StartApprove, rows, history
<1>3. ASSUME NEW r \in Request, NEW n \in Notification, ClaimNotification(r, n)
      PROVE  ActivationInv'
  <2>1. \E t : Start(r, t)
    BY <1>3 DEF ClaimNotification
  <2> QED
    BY <1>3, <1>t, <2>1, StartedIdle, ActivationKept DEF ClaimNotification, rows, history
<1>4. ASSUME NEW r \in Request,
             \/ MarkAwaiting(r)
             \/ InsertProof(r)
             \/ ApproveProof(r)
             \/ ListProofs(r)
             \/ MarkPartial(r)
             \/ RecordPdf(r)
             \/ \E o \in Order : OpenSession(r, o)
             \/ DecideSettlement(r)
      PROVE  ActivationInv'
  <2>1. task[r].pc # "activate"
    BY <1>4 DEF MarkAwaiting, InsertProof, ApproveProof, ListProofs, MarkPartial,
               RecordPdf, OpenSession, DecideSettlement, At
  <2>2. \A q \in Request : q # r => task'[q] = task[q]
    <3>1. \E t : task' = [task EXCEPT ![r] = t]
      BY <1>4 DEF MarkAwaiting, InsertProof, ApproveProof, ListProofs, MarkPartial,
                 RecordPdf, OpenSession, DecideSettlement, Goto, Finish
    <3> QED
      BY <1>t, <3>1 DEF TypeOK
  <2>3. settledEver' = settledEver /\ active' = active
    BY <1>4 DEF MarkAwaiting, InsertProof, ApproveProof, ListProofs, MarkPartial,
               RecordPdf, OpenSession, DecideSettlement, rows, history
  <2> QED
    BY <2>1, <2>2, <2>3, ActivationKept
<1>5. ASSUME NEW r \in Request, ConfirmInvoice(r)
      PROVE  ActivationInv'
  <2>1. /\ \A q \in Request : q # r => task'[q] = task[q]
        /\ task'[r].pc = "activate"
        /\ task'[r].inv = task[r].inv
    BY <1>5, <1>t, GotoStep DEF ConfirmInvoice, Labels
  <2>2. /\ task[r].pc = "confirm"
        /\ active' = active
        /\ settledEver' = settledEver \cup {task[r].inv}
    BY <1>5 DEF ConfirmInvoice, At
  <2> QED
    BY <2>1, <2>2 DEF ActivationInv
<1>6. ASSUME NEW r \in Request, Activate(r)
      PROVE  ActivationInv'
  <2>1. \A q \in Request : q # r => task'[q] = task[q]
    BY <1>6, <1>t, FinishStep DEF Activate
  <2>2. /\ settledEver' = settledEver
        /\ active' = [active EXCEPT ![Owner[task[r].inv]] = TRUE]
    BY <1>6 DEF Activate
  <2>3. \A i \in settledEver : Owner[i] \in Participant
    BY <1>t, InvoiceAssumption DEF TypeOK
  <2>4. ASSUME NEW i \in settledEver
        PROVE  \/ active'[Owner[i]]
               \/ \E q \in Request : task'[q].pc = "activate" /\ task'[q].inv = i
    <3>1. CASE active[Owner[i]] \/ i = task[r].inv
      BY <1>t, <2>2, <2>3, <3>1 DEF TypeOK
    <3>2. CASE ~active[Owner[i]] /\ i # task[r].inv
      BY <2>1, <3>2 DEF ActivationInv
    <3> QED
      BY <3>1, <3>2
  <2> QED
    BY <2>2, <2>4 DEF ActivationInv
<1>7. ASSUME NEW r \in Request, CommitUnit(r)
      PROVE  ActivationInv'
  <2>1. \A q \in Request : q # r => task'[q] = task[q]
    BY <1>7, <1>t, FinishStep DEF CommitUnit
  <2>2. task[r].pc = "commit"
    BY <1>7 DEF CommitUnit, At
  <2>3. CASE task[r].write # "lunas"
    <3>1. settledEver' = settledEver /\ active' = active
      BY <1>7, <2>3 DEF CommitUnit
    <3> QED
      BY <2>1, <2>2, <3>1, ActivationKept
  <2>4. CASE task[r].write = "lunas"
    <3>1. /\ active' = [active EXCEPT ![Owner[task[r].inv]] = TRUE]
          /\ settledEver' = settledEver \cup {task[r].inv}
      BY <1>7, <2>4 DEF CommitUnit
    <3>2. \A i \in settledEver' : i \in Invoice /\ Owner[i] \in Participant
      BY <1>t, <1>7, <3>1, InvoiceAssumption DEF CommitUnit, At, TypeInv, GoodTask, TypeOK
    <3>3. \A i \in settledEver' : i = task[r].inv \/ active[Owner[i]] => active'[Owner[i]]
      BY <1>t, <3>1, <3>2 DEF TypeOK
    <3>4. \A i \in settledEver' : i = task[r].inv \/ i \in settledEver
      BY <3>1
    <3> QED
      BY <2>1, <2>2, <3>3, <3>4 DEF ActivationInv
  <2> QED
    BY <2>3, <2>4
<1>8. ASSUME NEW r \in Request, Die(r)
      PROVE  ActivationInv'
  <2>1. task[r].pc # "activate" /\ settledEver' = settledEver /\ active' = active
    BY <1>8 DEF Die, rows, history
  <2>2. \A q \in Request : q # r => task'[q] = task[q]
    BY <1>8, <1>t, FinishStep DEF Die
  <2> QED
    BY <2>1, <2>2, ActivationKept
<1>9. ASSUME NEW p \in Proof, RejectProof(p)
      PROVE  ActivationInv'
  BY <1>9, ActivationKept DEF RejectProof, history
<1>10. ASSUME NEW n \in Notification, AcknowledgeRedelivery(n)
      PROVE  ActivationInv'
  BY <1>10, ActivationKept DEF AcknowledgeRedelivery, rows
<1>11. ASSUME NEW t \in Txn, NEW s \in Stages, Advance(t, s)
      PROVE  ActivationInv'
  BY <1>11, ActivationKept DEF Advance, rows, history
<1>12. CASE UNCHANGED vars
  BY <1>12, ActivationKept DEF vars, rows, history
<1> QED
  BY <1>1, <1>2, <1>3, <1>4, <1>5, <1>6, <1>7, <1>8, <1>9, <1>10, <1>11, <1>12
  DEF Next, Handle, Deliver

\* Confirm and Activate belong together: unless a confirmation dies between its
\* two commits, a settled invoice and an open portal come together, for any
\* number of handlers and whatever else dies.
THEOREM SettledInvoicesActive ==
  ASSUME "activate" \notin Fallible
  PROVE  Spec => []SettledIsActive
<1>1. Init => ActivationInv
  BY DEF Init, ActivationInv
<1>2. TypeInv /\ ActivationInv /\ [Next]_vars => ActivationInv'
  BY ActivationStep
<1>3. PortalInv /\ ActivationInv => SettledIsActive
  BY DEF PortalInv, ActivationInv, SettledIsActive, Quiet, At
<1> QED
  BY TypeInit, TypeStep, PortalInit, PortalStep, <1>1, <1>2, <1>3, PTL DEF Spec
=============================================================================
