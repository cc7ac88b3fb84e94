---------------------------- MODULE LedgerProofs ----------------------------
(***************************************************************************)
(* The webhook credits the money the gateway reports, once: theorems about *)
(* Settlement for any number of invoices, handlers, proofs, sessions and   *)
(* transactions, and the refinement of GatewayLedger.                      *)
(*                                                                         *)
(* LedgerInv is the inductive invariant.  It relates what was sent, the    *)
(* units in flight, the claims committed and the proofs written: a unit's  *)
(* key is claimed by nobody else, a proof of the webhook has its claim, and *)
(* a handler about to insert a row is the only one that holds the row's id. *)
(*                                                                         *)
(* CoverInv adds up the approved proofs of an invoice: what was ever       *)
(* settled was covered, or settled by hand.  AckInv and SerialInv show     *)
(* what the interleavings and the hesitating payments cost: where there    *)
(* are none, every acknowledged payment is credited and every covered      *)
(* invoice is lunas.  BalanceInv is what is left of that when handlers     *)
(* interleave.  GatewayInv and TerminalInv say where lunas stays, and      *)
(* Reported, with AckInv, that no payment is forgotten.                    *)
(***************************************************************************)
EXTENDS SettlementProofs, FiniteSetTheorems, WellFoundedInduction

\* A credit was sent only for money received; a transaction that reports its
\* money at one stage only has one report to be recognised by.
SentInv ==
  \A n \in sent : Credits(n) =>
    /\ n.txn \in Received
    /\ <<"captured", "settled">> \notin Moves =>
         /\ n.report = "capture" => stage[n.txn] = "captured"
         /\ n.report = "settlement" => stage[n.txn] = "settled"

\* A handler with the identifier of a row it has yet to insert.
Reserves(t) ==
  \/ t.pc \in {"mark", "insert"}
  \/ t.pc = "commit" /\ Credits(t.note)

RowInv ==
  /\ \A p \in Proof : ~Exists(p) => proofs[p].txn = Null
  /\ \A r \in Request : Reserves(task[r]) =>
       task[r].proof \in Proof /\ ~Exists(task[r].proof)
  /\ \A r, q \in Request :
       Reserves(task[r]) /\ Reserves(task[q]) /\ task[r].proof = task[q].proof => r = q

\* A unit works on a notification that nobody has claimed.
GoodUnit(t) ==
  t.pc \in {"decide", "commit"} =>
    /\ t.note \in sent
    /\ t.inv = sessions[OrderOf[t.note.txn]].inv
    /\ t.pc = "commit" /\ Credits(t.note) =>
         t.gross = sessions[OrderOf[t.note.txn]].gross
    /\ \A c \in claims : Key(c) # Key(t.note)

UnitInv ==
  /\ \A r \in Request : GoodUnit(task[r])
  /\ \A r, q \in Request :
       InUnit(r) /\ InUnit(q) /\ Key(task[r].note) = Key(task[q].note) => r = q

\* A proof of the webhook and the claim that authorised it come together.
ClaimInv ==
  /\ claims \subseteq sent
  /\ \A n \in claims : sessions[OrderOf[n.txn]].inv # Null
  /\ \A p \in Proof : proofs[p].txn # Null =>
       \E n \in claims : Credits(n) /\ n.txn = proofs[p].txn
  /\ ClaimedIsCredited
  /\ CreditedOnce
  /\ CreditIsPaid

LedgerInv == SentInv /\ RowInv /\ UnitInv /\ ClaimInv

-----------------------------------------------------------------------------
\* Two notifications that credit the same transaction have the same key.
LEMMA KeyAgree ==
  ASSUME TypeOK, SentInv, NEW n \in sent, NEW m \in sent,
         Credits(n), Credits(m), n.txn = m.txn
  PROVE  Key(n) = Key(m)
<1>1. CASE n.txn \notin Anonymous
  BY <1>1 DEF Key
<1>2. CASE n.txn \in Anonymous
  <2>1. <<"captured", "settled">> \notin Moves
    BY <1>2, AnonymousAssumption
  <2>2. n.report = m.report
    BY <2>1 DEF SentInv, Credits
  <2> QED
    BY <2>2 DEF Key
<1> QED
  BY <1>1, <1>2

\* The rows, sessions and claims the ledger is about are the same, and every
\* handler that moved is outside the webhook or keeps the row it reserved.
Kept ==
  /\ UNCHANGED <<claims, sent, stage, sessions>>
  /\ \A p \in Proof : /\ proofs'[p].txn = proofs[p].txn
                      /\ proofs'[p].inv = proofs[p].inv
                      /\ proofs'[p].amount = proofs[p].amount
  /\ \A r \in Request :
       \/ task'[r] = task[r]
       \/ task'[r].pc \notin {"mark", "insert", "decide", "commit"}
       \/ /\ task[r].pc = "mark"
          /\ task'[r].pc = "insert"
          /\ task'[r].proof = task[r].proof

\* A step that adds no credit and takes no claim away keeps LedgerInv.
LEMMA LedgerKept ==
  ASSUME TypeInv, LedgerInv, Kept
  PROVE  LedgerInv'
<1>1. SentInv'
  BY DEF Kept, LedgerInv, SentInv, Received
<1>2. RowInv'
  <2>1. \A p \in Proof : Exists(p)' <=> Exists(p)
    BY DEF Kept, Exists
  <2>2. \A r \in Request : Reserves(task[r])' =>
          Reserves(task[r]) /\ task'[r].proof = task[r].proof
    BY DEF Kept, Reserves
  <2> QED
    BY <2>1, <2>2 DEF LedgerInv, RowInv, Kept
<1>3. UnitInv'
  <2>1. \A r \in Request : InUnit(r)' => InUnit(r) /\ task'[r] = task[r]
    BY DEF Kept, InUnit
  <2>2. \A r \in Request : GoodUnit(task[r])'
    BY <2>1 DEF Kept, LedgerInv, UnitInv, GoodUnit, InUnit
  <2> QED
    BY <2>1, <2>2 DEF LedgerInv, UnitInv
<1>4. ClaimInv'
  <2>1. ClaimedIsCredited' /\ CreditedOnce' /\ CreditIsPaid'
    BY DEF Kept, LedgerInv, ClaimInv, ClaimedIsCredited, CreditedOnce, CreditIsPaid
  <2> QED
    BY <2>1 DEF Kept, LedgerInv, ClaimInv
<1> QED
  BY <1>1, <1>2, <1>3, <1>4 DEF LedgerInv

\* Nothing was sent, claimed or credited at the start.
LEMMA LedgerInit == Init => LedgerInv
<1> SUFFICES ASSUME Init PROVE LedgerInv
  OBVIOUS
<1>1. SentInv
  BY DEF Init, SentInv
<1>2. \A r \in Request : task[r].pc = "idle"
  BY DEF Init, Idle
<1>3. \A p \in Proof : proofs[p].txn = Null
  BY DEF Init, NoProof
<1>4. RowInv
  BY <1>2, <1>3 DEF RowInv, Reserves
<1>5. UnitInv
  BY <1>2 DEF UnitInv, GoodUnit, InUnit
<1>6. ClaimInv
  BY <1>3 DEF Init, ClaimInv, ClaimedIsCredited, CreditedOnce, CreditIsPaid
<1> QED
  BY <1>1, <1>4, <1>5, <1>6 DEF LedgerInv

\* The gateway moves a transaction: received money stays received.
LEMMA ReceivedGrows ==
  ASSUME TypeOK, NEW t \in Txn, NEW s \in Stages, Advance(t, s)
  PROVE  /\ Received' = IF s \in {"captured", "settled"} THEN Received \cup {t}
                        ELSE Received
         /\ Credits(Report(t, s)) => t \in Received'
<1>1. stage' = [stage EXCEPT ![t] = s] /\ <<stage[t], s>> \in AllMoves
  BY GatewayAssumption DEF Advance
<1>2. s \in {"captured", "settled"} \/ stage[t] \notin {"captured", "settled"}
  BY <1>1 DEF AllMoves
<1>3. Credits(Report(t, s)) => s \in {"captured", "settled"}
  BY DEF Credits, Report, Stages
<1> QED
  BY <1>1, <1>2, <1>3 DEF Received, TypeOK

\* A transaction that advances reports no more than the money received.
LEMMA AdvanceLedger ==
  ASSUME TypeInv, LedgerInv, NEW t \in Txn, NEW s \in Stages, Advance(t, s)
  PROVE  LedgerInv'
<1>t. TypeOK
  BY DEF TypeInv
<1>1. /\ stage' = [stage EXCEPT ![t] = s]
      /\ <<stage[t], s>> \in AllMoves
      /\ <<stage[t], s>> \in Moves
      /\ sent' = sent \cup {Report(t, s)}
      /\ UNCHANGED <<proofs, sessions, claims, task>>
  BY GatewayAssumption DEF Advance, rows
<1>2. /\ Report(t, s).txn = t
      /\ Credits(Report(t, s)) =>
           /\ Report(t, s).report = "capture" => s = "captured"
           /\ Report(t, s).report = "settlement" => s = "settled"
  BY DEF Credits, Report, Stages
<1>3. SentInv'
  <2> SUFFICES ASSUME NEW n \in sent', Credits(n)
               PROVE  /\ n.txn \in Received'
                      /\ <<"captured", "settled">> \notin Moves =>
                           /\ n.report = "capture" => stage'[n.txn] = "captured"
                           /\ n.report = "settlement" => stage'[n.txn] = "settled"
    BY DEF SentInv
  <2>1. CASE n = Report(t, s)
    BY <1>t, <1>1, <1>2, <2>1, ReceivedGrows DEF TypeOK
  <2>2. CASE n \in sent
    <3>1. /\ n.txn \in Received
          /\ <<"captured", "settled">> \notin Moves =>
               /\ n.report = "capture" => stage[n.txn] = "captured"
               /\ n.report = "settlement" => stage[n.txn] = "settled"
      BY <2>2 DEF LedgerInv, SentInv
    <3>2. n.txn \in Received'
      BY <1>t, <3>1, ReceivedGrows
    <3>3. CASE n.txn = t
      <4>1. stage[t] = "captured" /\ s = "settled"
        BY <1>1, <3>1, <3>3 DEF Received, AllMoves
      <4> QED
        BY <1>1, <3>2, <4>1
    <3>4. CASE n.txn # t
      BY <1>t, <1>1, <3>1, <3>2, <3>4 DEF TypeOK
    <3> QED
      BY <3>3, <3>4
  <2> QED
    BY <1>1, <2>1, <2>2
<1>4. RowInv'
  BY <1>1 DEF LedgerInv, RowInv, Reserves, Exists
<1>5. UnitInv'
  BY <1>1 DEF LedgerInv, UnitInv, GoodUnit, InUnit
<1>6. ClaimInv'
  <2>1. \A u \in Txn : u \in Received => u \in Received'
    BY <1>t, ReceivedGrows
  <2>2. CreditIsPaid'
    <3> SUFFICES ASSUME NEW p \in Proof, proofs[p].txn # Null
                 PROVE  /\ stage'[proofs[p].txn] \in {"captured", "settled"}
                        /\ proofs[p].inv = sessions[OrderOf[proofs[p].txn]].inv
                        /\ proofs[p].amount = sessions[OrderOf[proofs[p].txn]].gross
      BY <1>1 DEF CreditIsPaid
    <3>1. proofs[p].txn \in Txn
      BY <1>t DEF TypeOK, ProofRow
    <3> QED
      BY <2>1, <3>1 DEF LedgerInv, ClaimInv, CreditIsPaid, Received
  <2>3. ClaimedIsCredited' /\ CreditedOnce'
    BY <1>1 DEF LedgerInv, ClaimInv, ClaimedIsCredited, CreditedOnce
  <2> QED
    BY <1>1, <2>2, <2>3 DEF LedgerInv, ClaimInv
<1> QED
  BY <1>3, <1>4, <1>5, <1>6 DEF LedgerInv

\* An upload takes an identifier nobody else holds.
LEMMA UploadLedger ==
  ASSUME TypeInv, LedgerInv, NEW r \in Request, NEW i \in Invoice, NEW p \in Receipt,
         NEW a \in Claim, StartUpload(r, i, p, a)
  PROVE  LedgerInv'
<1>1. /\ \A q \in Request : q # r => task'[q] = task[q]
      /\ task'[r].pc \in {"mark", "insert"}
      /\ task'[r].proof = p
  BY StartUploadStep DEF TypeInv, Became
<1>2. /\ UNCHANGED <<proofs, sessions, claims, stage, sent>>
      /\ p \in Proof
      /\ ~Exists(p)
      /\ \A q \in Request : task[q].proof # p
  BY ProofAssumption DEF StartUpload, Fresh, rows, gateway
<1>3. SentInv'
  BY <1>2 DEF LedgerInv, SentInv, Received
<1>4. RowInv'
  <2>1. \A q \in Request : q # r => (Reserves(task[q])' <=> Reserves(task[q]))
    BY <1>1 DEF Reserves
  <2> QED
    BY <1>1, <1>2, <2>1 DEF LedgerInv, RowInv, Exists
<1>5. UnitInv'
  <2>1. \A q \in Request : InUnit(q)' => InUnit(q) /\ task'[q] = task[q]
    BY <1>1 DEF InUnit
  <2> QED
    BY <1>2, <2>1 DEF LedgerInv, UnitInv, GoodUnit, InUnit
<1>6. ClaimInv'
  BY <1>2 DEF LedgerInv, ClaimInv, ClaimedIsCredited, CreditedOnce, CreditIsPaid
<1> QED
  BY <1>3, <1>4, <1>5, <1>6 DEF LedgerInv

\* An uploaded proof is inserted into a row that was not there.
LEMMA InsertLedger ==
  ASSUME TypeInv, LedgerInv, NEW r \in Request, InsertProof(r)
  PROVE  LedgerInv'
<1>t. TypeOK
  BY DEF TypeInv
<1> DEFINE p == task[r].proof
<1>1. p \in Proof /\ ~Exists(p) /\ proofs[p].txn = Null
  BY DEF InsertProof, At, LedgerInv, RowInv, Reserves
<1>2. /\ UNCHANGED <<sessions, claims, stage, sent>>
      /\ \A q \in Proof : q # p => proofs'[q] = proofs[q]
      /\ proofs'[p].txn = Null
      /\ proofs'[p].inv # Null
      /\ \A q \in Request : task'[q] = IF q = r THEN Idle ELSE task[q]
  <2>1. task[r].inv \in Invoice
    BY DEF InsertProof, TypeInv, GoodTask, At
  <2> QED
    BY <1>t, <1>1, <2>1, FinishStep, NullAssumption DEF InsertProof, TypeOK, gateway
<1>i. Idle.pc = "idle"
  BY DEF Idle
<1>r. Reserves(task[r])
  BY DEF InsertProof, At, Reserves
<1> HIDE DEF p
<1>3. SentInv'
  BY <1>2 DEF LedgerInv, SentInv, Received
<1>4. RowInv'
  <2>1. \A q \in Request : Reserves(task[q])' => q # r /\ Reserves(task[q]) /\ task'[q] = task[q]
    BY <1>2, <1>i DEF Reserves
  <2>2. \A q \in Request : Reserves(task[q])' => task[q].proof # p
    BY <1>r, <2>1 DEF LedgerInv, RowInv, p
  <2>3. \A q \in Proof : q # p => (Exists(q)' <=> Exists(q))
    BY <1>2 DEF Exists
  <2> QED
    BY <1>1, <1>2, <2>1, <2>2, <2>3 DEF LedgerInv, RowInv, Exists
<1>5. UnitInv'
  <2>1. \A q \in Request : InUnit(q)' => InUnit(q) /\ task'[q] = task[q]
    BY <1>2, <1>i DEF InUnit
  <2> QED
    BY <1>2, <2>1 DEF LedgerInv, UnitInv, GoodUnit, InUnit
<1>6. ClaimInv'
  BY <1>1, <1>2 DEF LedgerInv, ClaimInv, ClaimedIsCredited, CreditedOnce, CreditIsPaid
<1> QED
  BY <1>3, <1>4, <1>5, <1>6 DEF LedgerInv

\* A session is opened under an order id no notification is about yet.
LEMMA OpenLedger ==
  ASSUME TypeInv, LedgerInv, NEW r \in Request, NEW o \in Order, OpenSession(r, o)
  PROVE  LedgerInv'
<1>t. TypeOK
  BY DEF TypeInv
<1>1. /\ UNCHANGED <<proofs, claims, stage, sent>>
      /\ sessions[o].inv = Null
      /\ \A x \in Order : x # o => sessions'[x] = sessions[x]
      /\ \A q \in Request : task'[q] = IF q = r THEN Idle ELSE task[q]
  BY <1>t, FinishStep DEF OpenSession, TypeOK, gateway
<1>2. sessions'[o].inv # Null
  BY <1>t, NullAssumption DEF OpenSession, TypeInv, TypeOK, GoodTask, At
<1>i. Idle.pc = "idle"
  BY DEF Idle
<1>o. \A n \in Notification : OrderOf[n.txn] \in Order
  BY GatewayAssumption DEF Notification
<1>3. SentInv'
  BY <1>1 DEF LedgerInv, SentInv, Received
<1>4. RowInv'
  BY <1>1, <1>i DEF LedgerInv, RowInv, Reserves, Exists
<1>5. UnitInv'
  <2>1. \A q \in Request : InUnit(q)' => InUnit(q) /\ task'[q] = task[q]
    BY <1>1, <1>i DEF InUnit
  <2>2. \A q \in Request : InUnit(q) =>
          /\ task[q].note \in Notification
          /\ task[q].inv # Null
    BY NullAssumption DEF TypeInv, GoodTask, InUnit
  <2>3. \A q \in Request : InUnit(q) => OrderOf[task[q].note.txn] # o
    BY <1>1, <2>2 DEF LedgerInv, UnitInv, GoodUnit, InUnit
  <2>4. \A q \in Request : GoodUnit(task[q])'
    BY <1>1, <1>o, <2>1, <2>2, <2>3 DEF LedgerInv, UnitInv, GoodUnit, InUnit
  <2> QED
    BY <2>1, <2>4 DEF LedgerInv, UnitInv
<1>6. ClaimInv'
  <2>1. \A n \in claims : sessions'[OrderOf[n.txn]] = sessions[OrderOf[n.txn]]
    BY <1>t, <1>1, <1>o DEF LedgerInv, ClaimInv, TypeOK
  <2>2. \A p \in Proof : proofs[p].txn # Null =>
          sessions'[OrderOf[proofs[p].txn]] = sessions[OrderOf[proofs[p].txn]]
    BY <2>1 DEF LedgerInv, ClaimInv
  <2>3. CreditIsPaid'
    BY <1>1, <2>2 DEF LedgerInv, ClaimInv, CreditIsPaid
  <2> QED
    BY <1>1, <2>1, <2>3 DEF LedgerInv, ClaimInv, ClaimedIsCredited, CreditedOnce
<1> QED
  BY <1>3, <1>4, <1>5, <1>6 DEF LedgerInv

\* A unit starts only with a key that is neither claimed nor locked.
LEMMA ClaimLedger ==
  ASSUME TypeInv, LedgerInv, NEW r \in Request, NEW n \in Notification,
         ClaimNotification(r, n)
  PROVE  LedgerInv'
<1>t. TypeOK
  BY DEF TypeInv
<1>1. /\ UNCHANGED <<proofs, sessions, claims, stage, sent>>
      /\ n \in sent
      /\ \A c \in claims : Key(c) # Key(n)
      /\ \A q \in Request : InUnit(q) => Key(task[q].note) # Key(n)
  BY DEF ClaimNotification, rows, gateway
<1>2. /\ \A q \in Request : q # r => task'[q] = task[q]
      /\ task'[r].pc = IF Credits(n) THEN "decide" ELSE "commit"
      /\ task'[r].inv = sessions[OrderOf[n.txn]].inv
      /\ task'[r].note = n
  BY <1>t, ClaimNotificationStep DEF Became
<1>3. SentInv'
  BY <1>1 DEF LedgerInv, SentInv, Received
<1>4. RowInv'
  <2>1. \A q \in Request : Reserves(task[q])' => Reserves(task[q]) /\ task'[q] = task[q]
    <3>1. ~Reserves(task'[r])
      BY <1>2 DEF Reserves
    <3> QED
      BY <1>2, <3>1 DEF Reserves
  <2> QED
    BY <1>1, <2>1 DEF LedgerInv, RowInv, Exists
<1>5. UnitInv'
  <2>1. \A q \in Request : q # r /\ InUnit(q)' => InUnit(q) /\ task'[q] = task[q]
    BY <1>2 DEF InUnit
  <2>2. GoodUnit(task[r])'
    <3>1. task'[r].pc = "commit" => ~Credits(n)
      BY <1>2
    <3> QED
      BY <1>1, <1>2, <3>1 DEF GoodUnit
  <2>3. \A q \in Request : GoodUnit(task[q])'
    BY <1>1, <2>1, <2>2 DEF LedgerInv, UnitInv, GoodUnit, InUnit
  <2>4. \A q \in Request : q # r /\ InUnit(q)' => Key(task'[q].note) # Key(n)
    BY <1>1, <2>1
  <2> QED
    BY <1>2, <2>1, <2>3, <2>4 DEF LedgerInv, UnitInv
<1>6. ClaimInv'
  BY <1>1 DEF LedgerInv, ClaimInv, ClaimedIsCredited, CreditedOnce, CreditIsPaid
<1> QED
  BY <1>3, <1>4, <1>5, <1>6 DEF LedgerInv

\* A unit that decides takes an identifier nobody else holds.
LEMMA DecideLedger ==
  ASSUME TypeInv, LedgerInv, NEW r \in Request, DecideSettlement(r)
  PROVE  LedgerInv'
<1>t. TypeOK
  BY DEF TypeInv
<1>d. task[r].pc = "decide" /\ task[r].note \in Notification
  BY DEF DecideSettlement, At, TypeInv, GoodTask
<1>1. UNCHANGED <<proofs, sessions, claims, stage, sent>>
  BY DEF DecideSettlement, rows, gateway
<1>2. /\ \A q \in Request : q # r => task'[q] = task[q]
      /\ task'[r].pc = "commit"
      /\ task'[r].inv = task[r].inv
      /\ task'[r].note = task[r].note
      /\ task'[r].gross = sessions[OrderOf[task[r].note.txn]].gross
      /\ task'[r].proof \in Proof
      /\ ~Exists(task'[r].proof)
      /\ \A q \in Request : task[q].proof # task'[r].proof
  BY <1>t, <1>d, DecideStep DEF Fresh
<1>3. SentInv'
  BY <1>1 DEF LedgerInv, SentInv, Received
<1>4. RowInv'
  <2>1. \A q \in Request : q # r => (Reserves(task[q])' <=> Reserves(task[q]))
    BY <1>2 DEF Reserves
  <2> QED
    BY <1>1, <1>2, <2>1 DEF LedgerInv, RowInv, Exists
<1>5. UnitInv'
  <2>1. \A q \in Request : InUnit(q)' => InUnit(q) /\ task'[q].note = task[q].note
    BY <1>d, <1>2 DEF InUnit
  <2>2. GoodUnit(task[r])'
    BY <1>d, <1>1, <1>2 DEF LedgerInv, UnitInv, GoodUnit
  <2>3. \A q \in Request : q # r => GoodUnit(task[q])'
    BY <1>1, <1>2 DEF LedgerInv, UnitInv, GoodUnit
  <2> QED
    BY <2>1, <2>2, <2>3 DEF LedgerInv, UnitInv
<1>6. ClaimInv'
  BY <1>1 DEF LedgerInv, ClaimInv, ClaimedIsCredited, CreditedOnce, CreditIsPaid
<1> QED
  BY <1>3, <1>4, <1>5, <1>6 DEF LedgerInv

\* What a unit finds when it commits a credit: money that arrived, on no proof
\* yet, and a row that is not there.
LEMMA CommitFacts ==
  ASSUME TypeInv, LedgerInv, NEW r \in Request, CommitUnit(r)
  PROVE  LET n == task[r].note
             p == task[r].proof
         IN  /\ n \in sent
             /\ n \in Notification
             /\ n \notin claims
             /\ sessions[OrderOf[n.txn]].inv # Null
             /\ Credits(n) =>
                  /\ p \in Proof
                  /\ ~Exists(p)
                  /\ proofs[p].txn = Null
                  /\ n.txn \in Received
                  /\ \A q \in Proof : proofs[q].txn # n.txn
                  /\ proofs'[p].txn = n.txn
                  /\ proofs'[p].inv = sessions[OrderOf[n.txn]].inv
                  /\ proofs'[p].amount = sessions[OrderOf[n.txn]].gross
                  /\ \A q \in Proof : q # p => proofs'[q] = proofs[q]
             /\ ~Credits(n) => proofs' = proofs
<1> DEFINE n == task[r].note
           p == task[r].proof
<1>t. TypeOK
  BY DEF TypeInv
<1>1. /\ task[r].pc = "commit"
      /\ n \in Notification
      /\ task[r].inv \in Invoice
      /\ Credits(n) => p \in Proof
  BY DEF CommitUnit, At, TypeInv, GoodTask
<1>2. /\ n \in sent
      /\ task[r].inv = sessions[OrderOf[n.txn]].inv
      /\ Credits(n) => task[r].gross = sessions[OrderOf[n.txn]].gross
      /\ \A c \in claims : Key(c) # Key(n)
  BY <1>1 DEF LedgerInv, UnitInv, GoodUnit
<1>3. sessions[OrderOf[n.txn]].inv # Null
  BY <1>1, <1>2, NullAssumption
<1>4. ASSUME Credits(n)
      PROVE  /\ ~Exists(p)
             /\ proofs[p].txn = Null
             /\ n.txn \in Received
             /\ \A q \in Proof : proofs[q].txn # n.txn
  <2>1. ~Exists(p) /\ proofs[p].txn = Null
    BY <1>1, <1>4 DEF LedgerInv, RowInv, Reserves
  <2>2. n.txn \in Received
    BY <1>2, <1>4 DEF LedgerInv, SentInv
  <2>3. ASSUME NEW q \in Proof, proofs[q].txn = n.txn
        PROVE  FALSE
    <3>1. n.txn # Null
      BY <1>1, NullAssumption DEF Notification
    <3>2. PICK c \in claims : Credits(c) /\ c.txn = n.txn
      BY <2>3, <3>1 DEF LedgerInv, ClaimInv
    <3>3. c \in sent
      BY DEF LedgerInv, ClaimInv
    <3>4. Key(c) = Key(n)
      BY <1>t, <1>2, <1>4, <3>2, <3>3, KeyAgree DEF LedgerInv
    <3> QED
      BY <1>2, <3>4
  <2> QED
    BY <2>1, <2>2, <2>3
<1>5. ASSUME Credits(n)
      PROVE  /\ proofs'[p].txn = n.txn
             /\ proofs'[p].inv = task[r].inv
             /\ proofs'[p].amount = task[r].gross
             /\ \A q \in Proof : q # p => proofs'[q] = proofs[q]
  BY <1>t, <1>1, <1>5 DEF CommitUnit, TypeOK
<1>6. ~Credits(n) => proofs' = proofs
  BY DEF CommitUnit
<1> HIDE DEF n, p
<1>7. /\ n \in sent
      /\ n \in Notification
      /\ n \notin claims
      /\ sessions[OrderOf[n.txn]].inv # Null
      /\ Credits(n) =>
           /\ p \in Proof
           /\ ~Exists(p)
           /\ proofs[p].txn = Null
           /\ n.txn \in Received
           /\ \A q \in Proof : proofs[q].txn # n.txn
           /\ proofs'[p].txn = n.txn
           /\ proofs'[p].inv = sessions[OrderOf[n.txn]].inv
           /\ proofs'[p].amount = sessions[OrderOf[n.txn]].gross
           /\ \A q \in Proof : q # p => proofs'[q] = proofs[q]
      /\ ~Credits(n) => proofs' = proofs
  BY <1>1, <1>2, <1>3, <1>4, <1>5, <1>6
<1> QED
  BY <1>7 DEF n, p

\* A claim is committed together with the proof it authorises.
LEMMA CommitLedger ==
  ASSUME TypeInv, LedgerInv, NEW r \in Request, CommitUnit(r)
  PROVE  LedgerInv'
<1> DEFINE n == task[r].note
           p == task[r].proof
<1>t. TypeOK
  BY DEF TypeInv
<1>1. /\ n \in sent
      /\ n \in Notification
      /\ sessions[OrderOf[n.txn]].inv # Null
      /\ Credits(n) =>
           /\ p \in Proof
           /\ ~Exists(p)
           /\ proofs[p].txn = Null
           /\ n.txn \in Received
           /\ \A q \in Proof : proofs[q].txn # n.txn
           /\ proofs'[p].txn = n.txn
           /\ proofs'[p].inv = sessions[OrderOf[n.txn]].inv
           /\ proofs'[p].amount = sessions[OrderOf[n.txn]].gross
           /\ \A q \in Proof : q # p => proofs'[q] = proofs[q]
      /\ ~Credits(n) => proofs' = proofs
  BY CommitFacts
<1>2. /\ UNCHANGED <<sessions, stage, sent>>
      /\ claims' = claims \cup {n}
      /\ task[r].pc = "commit"
      /\ \A q \in Request : task'[q] = IF q = r THEN Idle ELSE task[q]
  BY <1>t, FinishStep DEF CommitUnit, At, gateway
<1>i. Idle.pc = "idle"
  BY DEF Idle
<1>u. \A q \in Request : InUnit(q)' => q # r /\ InUnit(q) /\ task'[q] = task[q]
  BY <1>2, <1>i DEF InUnit
<1>r. \A q \in Request : Reserves(task[q])' => q # r /\ Reserves(task[q]) /\ task'[q] = task[q]
  BY <1>2, <1>i DEF Reserves
<1>p. Credits(n) => \A q \in Request : Reserves(task[q])' => task[q].proof # p
  BY <1>2, <1>r DEF LedgerInv, RowInv, Reserves
<1>k. \A q \in Request : InUnit(q)' => Key(task[q].note) # Key(n)
  BY <1>2, <1>u DEF LedgerInv, UnitInv, InUnit
<1> HIDE DEF n, p
<1>3. SentInv'
  BY <1>2 DEF LedgerInv, SentInv, Received
<1>4. RowInv'
  <2>1. CASE Credits(n)
    <3>1. \A q \in Proof : proofs'[q].inv = Null => proofs'[q].txn = Null
      BY <1>1, <2>1 DEF LedgerInv, RowInv, Exists
    <3>2. \A q \in Request : Reserves(task[q])' =>
            task'[q].proof \in Proof /\ proofs'[task'[q].proof].inv = Null
      BY <1>1, <1>p, <1>r, <2>1 DEF LedgerInv, RowInv, Exists
    <3>3. \A x, y \in Request :
            Reserves(task[x])' /\ Reserves(task[y])' /\ task'[x].proof = task'[y].proof
              => x = y
      BY <1>r DEF LedgerInv, RowInv
    <3> QED
      BY <3>1, <3>2, <3>3 DEF RowInv, Exists
  <2>2. CASE ~Credits(n)
    BY <1>1, <1>r, <2>2 DEF LedgerInv, RowInv, Exists
  <2> QED
    BY <2>1, <2>2
<1>5. UnitInv'
  <2>1. \A q \in Request : GoodUnit(task[q])'
    BY <1>2, <1>u, <1>k DEF LedgerInv, UnitInv, GoodUnit, InUnit
  <2> QED
    BY <1>u, <2>1 DEF LedgerInv, UnitInv
<1>6. ClaimInv'
  <2>1. claims' \subseteq sent' /\ \A c \in claims' : sessions'[OrderOf[c.txn]].inv # Null
    BY <1>1, <1>2 DEF LedgerInv, ClaimInv
  <2>2. CASE Credits(n)
    <3>1. \A q \in Proof : proofs'[q].txn # Null =>
            \E c \in claims' : Credits(c) /\ c.txn = proofs'[q].txn
      BY <1>1, <1>2, <2>2 DEF LedgerInv, ClaimInv
    <3>2. ClaimedIsCredited'
      <4> SUFFICES ASSUME NEW c \in claims', Credits(c)
                   PROVE  \E q \in Proof : proofs'[q].txn = c.txn
        BY DEF ClaimedIsCredited
      <4>1. CASE c = n
        BY <1>1, <2>2, <4>1
      <4>2. CASE c \in claims
        <5>1. PICK q \in Proof : proofs[q].txn = c.txn
          BY <4>2 DEF LedgerInv, ClaimInv, ClaimedIsCredited
        <5>2. c.txn # Null
          BY <1>t, <4>2, NullAssumption DEF TypeOK, Notification
        <5> QED
          BY <1>1, <2>2, <5>1, <5>2
      <4> QED
        BY <1>2, <4>1, <4>2
    <3>3. CreditedOnce'
      BY <1>1, <2>2 DEF LedgerInv, ClaimInv, CreditedOnce
    <3>4. CreditIsPaid'
      <4>1. n.txn # Null /\ stage[n.txn] \in {"captured", "settled"}
        BY <1>1, <2>2, NullAssumption DEF Received
      <4> QED
        BY <1>1, <1>2, <2>2, <4>1 DEF LedgerInv, ClaimInv, CreditIsPaid
    <3> QED
      BY <2>1, <3>1, <3>2, <3>3, <3>4 DEF ClaimInv
  <2>3. CASE ~Credits(n)
    BY <1>1, <1>2, <2>1, <2>3
    DEF LedgerInv, ClaimInv, ClaimedIsCredited, CreditedOnce, CreditIsPaid
  <2> QED
    BY <2>2, <2>3
<1> QED
  BY <1>3, <1>4, <1>5, <1>6 DEF LedgerInv

\* Every step keeps LedgerInv.
LEMMA LedgerStep == TypeInv /\ LedgerInv /\ [Next]_vars => LedgerInv'
<1> SUFFICES ASSUME TypeInv, LedgerInv, [Next]_vars PROVE LedgerInv'
  OBVIOUS
<1>t. TypeOK
  BY DEF TypeInv
<1>i. Idle.pc = "idle"
  BY DEF Idle
<1>1. ASSUME NEW r \in Request, NEW i \in Invoice, NEW p \in Receipt, NEW a \in Claim,
             StartUpload(r, i, p, a)
      PROVE  LedgerInv'
  BY <1>1, UploadLedger
<1>2. ASSUME NEW r \in Request, NEW p \in Proof, StartApprove(r, p)
      PROVE  LedgerInv'
  <2>1. /\ \A q \in Request : q # r => task'[q] = task[q]
        /\ task'[r].pc \notin {"mark", "insert", "decide", "commit"}
    BY <1>2, <1>t, StartApproveStep DEF Became
  <2> QED
    BY <1>2, <2>1, LedgerKept DEF Kept, StartApprove, rows, gateway
<1>3. ASSUME NEW r \in Request, NEW i \in Invoice, StartConfirm(r, i)
      PROVE  LedgerInv'
  <2>1. /\ \A q \in Request : q # r => task'[q] = task[q]
        /\ task'[r].pc \notin {"mark", "insert", "decide", "commit"}
    BY <1>3, <1>t, StartConfirmStep DEF Became
  <2> QED
    BY <1>3, <2>1, LedgerKept DEF Kept, StartConfirm, rows, gateway
<1>4. ASSUME NEW r \in Request, NEW i \in Invoice, StartPdf(r, i)
      PROVE  LedgerInv'
  <2>1. /\ \A q \in Request : q # r => task'[q] = task[q]
        /\ task'[r].pc \notin {"mark", "insert", "decide", "commit"}
    BY <1>4, <1>t, StartPdfStep DEF Became
  <2> QED
    BY <1>4, <2>1, LedgerKept DEF Kept, StartPdf, rows, gateway
<1>5. ASSUME NEW r \in Request, NEW i \in Invoice, StartPayment(r, i)
      PROVE  LedgerInv'
  <2>1. /\ \A q \in Request : q # r => task'[q] = task[q]
        /\ task'[r].pc \notin {"mark", "insert", "decide", "commit"}
    BY <1>5, <1>t, StartPaymentStep DEF Became
  <2> QED
    BY <1>5, <2>1, LedgerKept DEF Kept, StartPayment, rows, gateway
<1>6. ASSUME NEW r \in Request, NEW n \in Notification, ClaimNotification(r, n)
      PROVE  LedgerInv'
  BY <1>6, ClaimLedger
<1>7. ASSUME NEW r \in Request, MarkAwaiting(r)
      PROVE  LedgerInv'
  <2>1. /\ \A q \in Request : q # r => task'[q] = task[q]
        /\ task'[r].pc = "insert"
        /\ task'[r].proof = task[r].proof
    BY <1>7, <1>t, GotoStep DEF MarkAwaiting, Labels
  <2> QED
    BY <1>7, <2>1, LedgerKept DEF Kept, MarkAwaiting, At, UpdateInvoice, gateway, history
<1>8. ASSUME NEW r \in Request, InsertProof(r)
      PROVE  LedgerInv'
  BY <1>8, InsertLedger
<1>9. ASSUME NEW p \in Proof, RejectProof(p)
      PROVE  LedgerInv'
  <2>1. \A q \in Proof : /\ proofs'[q].txn = proofs[q].txn
                        /\ proofs'[q].inv = proofs[q].inv
                        /\ proofs'[q].amount = proofs[q].amount
    BY <1>9, <1>t DEF RejectProof, TypeOK, ProofRow
  <2> QED
    BY <1>9, <2>1, LedgerKept DEF Kept, RejectProof, gateway
<1>10. ASSUME NEW r \in Request, ApproveProof(r)
      PROVE  LedgerInv'
  <2>1. /\ \A q \in Request : q # r => task'[q] = task[q]
        /\ task'[r].pc = "list"
    BY <1>10, <1>t, GotoStep DEF ApproveProof, Labels
  <2>2. \A p \in Proof : /\ proofs'[p].txn = proofs[p].txn
                        /\ proofs'[p].inv = proofs[p].inv
                        /\ proofs'[p].amount = proofs[p].amount
    BY <1>10, <1>t DEF ApproveProof, TypeOK, ProofRow
  <2> QED
    BY <1>10, <2>1, <2>2, LedgerKept DEF Kept, ApproveProof, gateway
<1>11. ASSUME NEW r \in Request, ListProofs(r)
      PROVE  LedgerInv'
  <2>1. /\ \A q \in Request : q # r => task'[q] = task[q]
        /\ task'[r].pc \in {"idle", "confirm", "partial"}
    <3>1. Finish(r) \/ Goto(r, "confirm") \/ Goto(r, "partial")
      BY <1>11 DEF ListProofs
    <3> QED
      BY <1>t, <1>i, <3>1, FinishStep, GotoStep DEF Labels
  <2> QED
    BY <1>11, <2>1, LedgerKept DEF Kept, ListProofs, rows, gateway
<1>12. ASSUME NEW r \in Request, MarkPartial(r)
      PROVE  LedgerInv'
  <2>1. \A q \in Request : task'[q] = IF q = r THEN Idle ELSE task[q]
    BY <1>12, <1>t, FinishStep DEF MarkPartial
  <2> QED
    BY <1>12, <1>i, <2>1, LedgerKept DEF Kept, MarkPartial, UpdateInvoice, gateway, history
<1>13. ASSUME NEW r \in Request, ConfirmInvoice(r)
      PROVE  LedgerInv'
  <2>1. /\ \A q \in Request : q # r => task'[q] = task[q]
        /\ task'[r].pc = "activate"
    BY <1>13, <1>t, GotoStep DEF ConfirmInvoice, Labels
  <2> QED
    BY <1>13, <2>1, LedgerKept DEF Kept, ConfirmInvoice, At, gateway
<1>14. ASSUME NEW r \in Request, Activate(r)
      PROVE  LedgerInv'
  <2>1. \A q \in Request : task'[q] = IF q = r THEN Idle ELSE task[q]
    BY <1>14, <1>t, FinishStep DEF Activate
  <2> QED
    BY <1>14, <1>i, <2>1, LedgerKept DEF Kept, Activate, gateway
<1>15. ASSUME NEW r \in Request, RecordPdf(r)
      PROVE  LedgerInv'
  <2>1. \A q \in Request : task'[q] = IF q = r THEN Idle ELSE task[q]
    BY <1>15, <1>t, FinishStep DEF RecordPdf
  <2> QED
    BY <1>15, <1>i, <2>1, LedgerKept DEF Kept, RecordPdf, UpdateInvoice, gateway, history
<1>16. ASSUME NEW r \in Request, NEW o \in Order, OpenSession(r, o)
      PROVE  LedgerInv'
  BY <1>16, OpenLedger
<1>17. ASSUME NEW r \in Request, DecideSettlement(r)
      PROVE  LedgerInv'
  BY <1>17, DecideLedger
<1>18. ASSUME NEW r \in Request, CommitUnit(r)
      PROVE  LedgerInv'
  BY <1>18, CommitLedger
<1>19. ASSUME NEW r \in Request, Die(r)
      PROVE  LedgerInv'
  <2>1. \A q \in Request : task'[q] = IF q = r THEN Idle ELSE task[q]
    BY <1>19, <1>t, FinishStep DEF Die
  <2> QED
    BY <1>19, <1>i, <2>1, LedgerKept DEF Kept, Die, rows, gateway, history
<1>20. ASSUME NEW n \in Notification, AcknowledgeRedelivery(n)
      PROVE  LedgerInv'
  BY <1>20, LedgerKept DEF Kept, AcknowledgeRedelivery, rows, gateway
<1>21. ASSUME NEW t \in Txn, NEW s \in Stages, Advance(t, s)
      PROVE  LedgerInv'
  BY <1>21, AdvanceLedger
<1>22. CASE UNCHANGED vars
  BY <1>22, LedgerKept DEF Kept, vars, rows, gateway
<1> QED
  BY <1>1, <1>2, <1>3, <1>4, <1>5, <1>6, <1>7, <1>8, <1>9, <1>10, <1>11, <1>12,
     <1>13, <1>14, <1>15, <1>16, <1>17, <1>18, <1>19, <1>20, <1>21, <1>22
  DEF Next, Handle, Deliver

\* LedgerInv holds in every reachable state.
LEMMA LedgerInvariant == Spec => [](TypeInv /\ LedgerInv)
<1>1. Init => TypeInv /\ LedgerInv
  BY TypeInit, LedgerInit
<1>2. TypeInv /\ LedgerInv /\ [Next]_vars => (TypeInv /\ LedgerInv)'
  BY TypeStep, LedgerStep
<1> QED
  BY <1>1, <1>2, PTL DEF Spec

\* The money of a transaction is credited by one proof at most, under any
\* duplication, reordering and concurrency of its notifications.
THEOREM CreditsOnce == Spec => []CreditedOnce
<1>1. TypeInv /\ LedgerInv => CreditedOnce
  BY DEF LedgerInv, ClaimInv
<1> QED
  BY LedgerInvariant, <1>1, PTL

\* A proof of the webhook stands for money received, in its session's amount.
THEOREM CreditsArePaid == Spec => []CreditIsPaid
<1>1. TypeInv /\ LedgerInv => CreditIsPaid
  BY DEF LedgerInv, ClaimInv
<1> QED
  BY LedgerInvariant, <1>1, PTL

\* No crash separates a claim of received money from the proof it authorises.
THEOREM ClaimsAreCredited == Spec => []ClaimedIsCredited
<1>1. TypeInv /\ LedgerInv => ClaimedIsCredited
  BY DEF LedgerInv, ClaimInv
<1> QED
  BY LedgerInvariant, <1>1, PTL

-----------------------------------------------------------------------------
(* The refinement: only Advance receives money, only CommitUnit posts it.  *)

Books == [p \in Proof |-> proofs[p].txn]

\* A step that neither receives nor credits is a stutter of the ledger.
LEMMA LedgerStutter ==
  ASSUME stage' = stage, \A p \in Proof : proofs'[p].txn = proofs[p].txn
  PROVE  UNCHANGED <<Received, Books>>
BY DEF Received, Books

\* The step of a handler that is not a commit leaves the books alone.
LEMMA BooksKept ==
  ASSUME TypeInv, LedgerInv, NEW r \in Request, Handle(r), ~CommitUnit(r)
  PROVE  stage' = stage /\ \A p \in Proof : proofs'[p].txn = proofs[p].txn
<1>t. TypeOK
  BY DEF TypeInv
<1>1. CASE InsertProof(r)
  <2>1. task[r].proof \in Proof /\ proofs[task[r].proof].txn = Null
    BY <1>1 DEF InsertProof, At, LedgerInv, RowInv, Reserves
  <2> QED
    BY <1>1, <1>t, <2>1 DEF InsertProof, TypeOK, gateway
<1>2. CASE ApproveProof(r)
  BY <1>2, <1>t DEF ApproveProof, TypeOK, ProofRow, gateway
<1>3. CASE MarkAwaiting(r) \/ MarkPartial(r) \/ RecordPdf(r)
  BY <1>3 DEF MarkAwaiting, MarkPartial, RecordPdf, gateway
<1>4. CASE ListProofs(r) \/ DecideSettlement(r)
  BY <1>4 DEF ListProofs, DecideSettlement, rows, gateway
<1>5. CASE ConfirmInvoice(r) \/ Activate(r)
  BY <1>5 DEF ConfirmInvoice, Activate, gateway
<1>6. CASE \E o \in Order : OpenSession(r, o)
  BY <1>6 DEF OpenSession, gateway
<1> QED
  BY <1>1, <1>2, <1>3, <1>4, <1>5, <1>6 DEF Handle

\* The books are empty in the beginning.
LEMMA RefineInit == Init => Ledger!Init
<1> SUFFICES ASSUME Init PROVE Ledger!Init
  OBVIOUS
<1>1. Received = {}
  BY DEF Init, Received
<1>2. \A p \in Proof : proofs[p].txn = Null
  BY DEF Init, NoProof
<1> QED
  BY <1>1, <1>2 DEF Ledger!Init

\* Every step receives money, posts one entry, or leaves the books as they are.
LEMMA RefineStep ==
  TypeInv /\ LedgerInv /\ [Next]_vars => [Ledger!Next]_(Ledger!vars)
<1> SUFFICES ASSUME TypeInv, LedgerInv, [Next]_vars
             PROVE  Ledger!Next \/ UNCHANGED <<Received, Books>>
  BY DEF Ledger!vars, Books
<1>t. TypeOK
  BY DEF TypeInv
<1>1. ASSUME NEW r \in Request, CommitUnit(r)
      PROVE  Ledger!Next \/ UNCHANGED <<Received, Books>>
  <2> DEFINE n == task[r].note
             p == task[r].proof
  <2>1. CASE Credits(n)
    <3>1. /\ n \in Notification
          /\ p \in Proof
          /\ proofs[p].txn = Null
          /\ n.txn \in Received
          /\ \A q \in Proof : proofs[q].txn # n.txn
          /\ proofs'[p].txn = n.txn
          /\ \A q \in Proof : q # p => proofs'[q] = proofs[q]
      BY <1>1, <2>1, CommitFacts
    <3>2. Received' = Received
      BY <1>1 DEF CommitUnit, gateway, Received
    <3>3. Books' = [Books EXCEPT ![p] = n.txn]
      BY <3>1 DEF Books
    <3>4. n.txn \in Txn
      BY <3>1 DEF Notification
    <3> HIDE DEF n, p
    <3>5. \E t \in Txn, e \in Proof : Ledger!Post(e, t)
      BY <3>1, <3>2, <3>3, <3>4 DEF Ledger!Post, Books
    <3> QED
      BY <3>5 DEF Ledger!Next
  <2>2. CASE ~Credits(n)
    <3>1. proofs' = proofs /\ stage' = stage
      BY <1>1, <2>2, CommitFacts DEF CommitUnit, gateway
    <3> QED
      BY <3>1, LedgerStutter
  <2> QED
    BY <2>1, <2>2
<1>2. ASSUME NEW t \in Txn, NEW s \in Stages, Advance(t, s)
      PROVE  Ledger!Next \/ UNCHANGED <<Received, Books>>
  <2>1. Books' = Books
    BY <1>2 DEF Advance, rows, Books
  <2>2. CASE s \in {"captured", "settled"}
    <3>1. Received' = Received \cup {t}
      BY <1>2, <1>t, <2>2, ReceivedGrows
    <3>2. Ledger!Receive(t)
      BY <2>1, <3>1 DEF Ledger!Receive, Books
    <3> QED
      BY <3>2 DEF Ledger!Next
  <2>3. CASE s \notin {"captured", "settled"}
    BY <1>2, <1>t, <2>1, <2>3, ReceivedGrows
  <2> QED
    BY <2>2, <2>3
<1>3. ASSUME NEW r \in Request, NEW i \in Invoice,
             \/ \E p \in Receipt, a \in Claim : StartUpload(r, i, p, a)
             \/ StartConfirm(r, i)
             \/ StartPdf(r, i)
             \/ StartPayment(r, i)
      PROVE  UNCHANGED <<Received, Books>>
  BY <1>3, LedgerStutter
  DEF StartUpload, StartConfirm, StartPdf, StartPayment, rows, gateway
<1>4. ASSUME NEW r \in Request, NEW p \in Proof, StartApprove(r, p)
      PROVE  UNCHANGED <<Received, Books>>
  BY <1>4, LedgerStutter DEF StartApprove, rows, gateway
<1>5. ASSUME NEW p \in Proof, RejectProof(p)
      PROVE  UNCHANGED <<Received, Books>>
  <2>1. \A q \in Proof : proofs'[q].txn = proofs[q].txn
    BY <1>5, <1>t DEF RejectProof, TypeOK, ProofRow
  <2> QED
    BY <1>5, <2>1, LedgerStutter DEF RejectProof, gateway
<1>6. ASSUME NEW r \in Request, Handle(r), ~CommitUnit(r)
      PROVE  UNCHANGED <<Received, Books>>
  BY <1>6, BooksKept, LedgerStutter
<1>7. ASSUME NEW r \in Request, Die(r)
      PROVE  UNCHANGED <<Received, Books>>
  BY <1>7, LedgerStutter DEF Die, rows, gateway
<1>8. ASSUME NEW n \in Notification, Deliver(n)
      PROVE  UNCHANGED <<Received, Books>>
  BY <1>8, LedgerStutter
  DEF Deliver, ClaimNotification, AcknowledgeRedelivery, rows, gateway
<1>9. CASE UNCHANGED vars
  BY <1>9, LedgerStutter DEF vars, rows, gateway
<1> QED
  BY <1>1, <1>2, <1>3, <1>4, <1>5, <1>6, <1>7, <1>8, <1>9 DEF Next

\* Every behaviour of the system is one of the ledger: money is posted once,
\* after it arrived, and a posting is never changed by an upload, a review, a
\* session, a crash or a redelivery.
THEOREM LedgerRefined == Spec => ImplementsLedger
<1> QED
  BY LedgerInvariant, RefineInit, RefineStep, PTL
  DEF Spec, ImplementsLedger, Ledger!Spec

-----------------------------------------------------------------------------
(* What a set of proofs adds up to.  The sum is a function on the subsets  *)
(* of the set, defined by taking out one element at a time; that such a    *)
(* function exists, and what follows from its equation, is shown on a      *)
(* smallest subset that would contradict it.                               *)

Total(table, S) == MapThenSumSet(LAMBDA p : table[p].amount, S)

Chosen(s) == CHOOSE p \in s : TRUE

\* f adds up the amounts of each subset of S.
Adds(f, table, S) ==
  f = [s \in SUBSET S |-> IF s = {} THEN 0
                          ELSE table[Chosen(s)].amount + f[s \ {Chosen(s)}]]

\* A collection of finite sets has a smallest one, of which no other is a part.
LEMMA SmallestSet ==
  ASSUME NEW S, IsFiniteSet(S), NEW C \in SUBSET (SUBSET S), C # {}
  PROVE  \E s \in C : \A u \in C : u \subseteq s => u = s
<1>1. FiniteSubsetsOf(S) = SUBSET S
  BY FS_FiniteSubsetsOfFinite
<1>2. IsWellFoundedOn(StrictSubsetOrdering(S), SUBSET S)
  BY <1>1, FS_StrictSubsetOrderingWellFounded
<1>3. PICK s \in C : \A u \in C : ~ (<<u, s>> \in StrictSubsetOrdering(S))
  BY <1>2, WFMin
<1>4. \A u \in C : u \subseteq s => u = s
  BY <1>3 DEF StrictSubsetOrdering
<1> QED
  BY <1>4

\* Two sums agree on every set whose rows agree.
LEMMA AddsAgree ==
  ASSUME NEW f, NEW g, NEW table, NEW other, NEW U, NEW W,
         Adds(f, table, U), Adds(g, other, W), W \subseteq U, IsFiniteSet(W),
         \A p \in W : table[p].amount = other[p].amount
  PROVE  f[W] = g[W]
<1> DEFINE C == {s \in SUBSET W : f[s] # g[s]}
<1> SUFFICES ASSUME C # {} PROVE FALSE
  OBVIOUS
<1>1. PICK s \in C : \A u \in C : u \subseteq s => u = s
  <2>1. C \in SUBSET (SUBSET W)
    OBVIOUS
  <2> HIDE DEF C
  <2> QED
    BY <2>1, SmallestSet
<1> DEFINE rest == s \ {Chosen(s)}
<1>2. /\ f[s] = IF s = {} THEN 0 ELSE table[Chosen(s)].amount + f[rest]
      /\ g[s] = IF s = {} THEN 0 ELSE other[Chosen(s)].amount + g[rest]
  BY DEF Adds
<1>3. s # {}
  BY <1>1, <1>2
<1>4. Chosen(s) \in s
  BY <1>3 DEF Chosen
<1>5. f[rest] = g[rest]
  BY <1>1, <1>4
<1> QED
  BY <1>1, <1>2, <1>3, <1>4, <1>5

\* A sum of the same rows over a larger set goes on as the one of the part.
LEMMA AddsSame ==
  ASSUME NEW f, NEW g, NEW table, NEW U, NEW W,
         Adds(f, table, U), Adds(g, table, W), W \subseteq U, IsFiniteSet(W)
  PROVE  f[W] = g[W]
<1>1. \A p \in W : table[p].amount = table[p].amount
  OBVIOUS
<1> QED
  BY <1>1, AddsAgree

\* Every finite set has such a sum.
LEMMA AddsExists ==
  ASSUME NEW table, NEW S, IsFiniteSet(S)
  PROVE  \E f : Adds(f, table, S)
<1> DEFINE C == {U \in SUBSET S : ~ \E f : Adds(f, table, U)}
<1> SUFFICES ASSUME C # {} PROVE FALSE
  OBVIOUS
<1>1. PICK U \in C : \A u \in C : u \subseteq U => u = U
  <2>1. C \in SUBSET (SUBSET S)
    OBVIOUS
  <2> HIDE DEF C
  <2> QED
    BY <2>1, SmallestSet
<1> DEFINE Part(s) == s \ {Chosen(s)}
           Sum(v) == (CHOOSE f : Adds(f, table, v))[v]
           h == [s \in SUBSET U |-> IF s = {} THEN 0
                                    ELSE table[Chosen(s)].amount + Sum(Part(s))]
<1>2. \A s \in SUBSET U : s # {} => Chosen(s) \in s
  BY DEF Chosen
<1>3. \A s \in SUBSET U : s # {} => Adds(CHOOSE f : Adds(f, table, Part(s)), table, Part(s))
  <2> SUFFICES ASSUME NEW s \in SUBSET U, s # {}
               PROVE  \E f : Adds(f, table, Part(s))
    OBVIOUS
  <2> QED
    BY <1>1, <1>2
<1>4. ASSUME NEW s \in SUBSET U, s # {}
      PROVE  h[Part(s)] = Sum(Part(s))
  <2> DEFINE v == Part(s)
             w == Part(v)
             fv == CHOOSE f : Adds(f, table, v)
             fw == CHOOSE f : Adds(f, table, w)
  <2>1. Adds(fv, table, v)
    BY <1>3, <1>4
  <2>2. CASE v = {}
    <3>1. fv[v] = 0
      BY <2>1, <2>2 DEF Adds
    <3> QED
      BY <2>2, <3>1
  <2>3. CASE v # {}
    <3>1. Adds(fw, table, w) /\ v \in SUBSET U
      BY <1>3, <2>3
    <3>2. fv[v] = table[Chosen(v)].amount + fv[w]
      <4> HIDE DEF v, fv
      <4> QED
        BY <2>1, <2>3 DEF Adds
    <3>3. fv[w] = fw[w]
      <4>1. IsFiniteSet(w) /\ w \subseteq v
        BY FS_Subset
      <4>2. Adds(fw, table, w)
        BY <3>1
      <4> HIDE DEF fv, fw, v, w
      <4> QED
        BY <2>1, <4>1, <4>2, AddsSame
    <3>4. h[v] = table[Chosen(v)].amount + fw[w]
      BY <2>3, <3>1
    <3> QED
      BY <3>2, <3>3, <3>4
  <2> QED
    BY <2>2, <2>3
<1>5. Adds(h, table, U)
  <2>1. \A s \in SUBSET U :
          h[s] = IF s = {} THEN 0 ELSE table[Chosen(s)].amount + h[Part(s)]
    <3>1. \A s \in SUBSET U :
            h[s] = IF s = {} THEN 0 ELSE table[Chosen(s)].amount + Sum(Part(s))
      OBVIOUS
    <3>2. \A s \in SUBSET U : s # {} => h[Part(s)] = Sum(Part(s))
      BY <1>4
    <3> HIDE DEF h, Sum, Part
    <3> QED
      BY <3>1, <3>2
  <2> HIDE DEF Sum
  <2> QED
    BY <2>1 DEF Adds
<1> QED
  BY <1>1, <1>5

\* What the sum of a set is made of.
LEMMA TotalSolves ==
  ASSUME NEW table, NEW S, IsFiniteSet(S)
  PROVE  \E f : Adds(f, table, S) /\ Total(table, S) = f[S]
<1> DEFINE f == CHOOSE f : Adds(f, table, S)
<1>1. Adds(f, table, S)
  BY AddsExists
<1>2. Total(table, S) = f[S]
  BY DEF Total, MapThenSumSet, MapThenFoldSet, Adds, Chosen
<1> QED
  BY <1>1, <1>2

\* The empty set adds up to nothing; any other set to the row it is asked for
\* first and the sum of the rest.
LEMMA TotalChosen ==
  ASSUME NEW table, NEW S, IsFiniteSet(S)
  PROVE  Total(table, S) = IF S = {} THEN 0
                           ELSE table[Chosen(S)].amount + Total(table, S \ {Chosen(S)})
<1>1. PICK f : Adds(f, table, S) /\ Total(table, S) = f[S]
  BY TotalSolves
<1>2. f[S] = IF S = {} THEN 0 ELSE table[Chosen(S)].amount + f[S \ {Chosen(S)}]
  BY <1>1 DEF Adds
<1>3. IsFiniteSet(S \ {Chosen(S)})
  BY FS_Subset
<1>4. PICK g : Adds(g, table, S \ {Chosen(S)})
               /\ Total(table, S \ {Chosen(S)}) = g[S \ {Chosen(S)}]
  BY <1>3, TotalSolves
<1>5. f[S \ {Chosen(S)}] = g[S \ {Chosen(S)}]
  BY <1>1, <1>3, <1>4, AddsSame
<1> QED
  BY <1>1, <1>2, <1>4, <1>5

\* Only the amounts of the set's own rows count.
LEMMA TotalSame ==
  ASSUME NEW table, NEW other, NEW S, IsFiniteSet(S),
         \A p \in S : table[p].amount = other[p].amount
  PROVE  Total(table, S) = Total(other, S)
<1>1. PICK f : Adds(f, table, S) /\ Total(table, S) = f[S]
  BY TotalSolves
<1>2. PICK g : Adds(g, other, S) /\ Total(other, S) = g[S]
  BY TotalSolves
<1> QED
  BY <1>1, <1>2, AddsAgree

\* Natural amounts have a natural sum.
LEMMA TotalType ==
  ASSUME NEW table, NEW S, IsFiniteSet(S), \A p \in S : table[p].amount \in Nat
  PROVE  Total(table, S) \in Nat
<1> DEFINE C == {s \in SUBSET S : Total(table, s) \notin Nat}
<1> SUFFICES ASSUME C # {} PROVE FALSE
  OBVIOUS
<1>1. PICK s \in C : \A u \in C : u \subseteq s => u = s
  <2>1. C \in SUBSET (SUBSET S)
    OBVIOUS
  <2> HIDE DEF C
  <2> QED
    BY <2>1, SmallestSet
<1>2. IsFiniteSet(s)
  BY FS_Subset
<1>3. Total(table, s) = IF s = {} THEN 0
                        ELSE table[Chosen(s)].amount + Total(table, s \ {Chosen(s)})
  BY <1>2, TotalChosen
<1>4. CASE s = {}
  BY <1>1, <1>3, <1>4
<1>5. CASE s # {}
  <2>1. Chosen(s) \in s
    BY <1>5 DEF Chosen
  <2>2. Total(table, s \ {Chosen(s)}) \in Nat
    BY <1>1, <2>1
  <2>3. table[Chosen(s)].amount \in Nat
    BY <2>1
  <2> QED
    BY <1>1, <1>3, <1>5, <2>2, <2>3
<1> QED
  BY <1>4, <1>5

\* Whichever row is taken out first, the sum is the same.
LEMMA TotalRemove ==
  ASSUME NEW table, NEW S, IsFiniteSet(S), \A p \in S : table[p].amount \in Nat,
         NEW x \in S
  PROVE  Total(table, S) = table[x].amount + Total(table, S \ {x})
<1> DEFINE Part(s, c) == Total(table, s) = table[c].amount + Total(table, s \ {c})
           C == {s \in SUBSET S : \E c \in s : ~ Part(s, c)}
<1> SUFFICES ASSUME C # {} PROVE FALSE
  OBVIOUS
<1>1. PICK s \in C : \A u \in C : u \subseteq s => u = s
  <2>1. C \in SUBSET (SUBSET S)
    OBVIOUS
  <2> HIDE DEF C
  <2> QED
    BY <2>1, SmallestSet
<1>2. PICK c \in s : ~ Part(s, c)
  BY <1>1
<1>3. IsFiniteSet(s) /\ s # {}
  BY <1>2, FS_Subset
<1> DEFINE d == Chosen(s)
<1>4. d \in s /\ Total(table, s) = table[d].amount + Total(table, s \ {d})
  BY <1>3, TotalChosen DEF Chosen
<1> HIDE DEF d
<1>5. d # c
  BY <1>2, <1>4
<1>6. Total(table, s \ {d}) = table[c].amount + Total(table, (s \ {d}) \ {c})
  <2>1. s \ {d} \notin C
    BY <1>1, <1>4
  <2>2. Part(s \ {d}, c)
    BY <1>5, <2>1
  <2> QED
    BY <2>2
<1>7. Total(table, s \ {c}) = table[d].amount + Total(table, (s \ {c}) \ {d})
  <2>1. s \ {c} \notin C
    BY <1>1, <1>2
  <2>2. Part(s \ {c}, d)
    BY <1>4, <1>5, <2>1
  <2> QED
    BY <2>2
<1>8. (s \ {d}) \ {c} = (s \ {c}) \ {d}
  OBVIOUS
<1>9. Total(table, (s \ {d}) \ {c}) \in Nat
  BY <1>3, FS_Subset, TotalType
<1>10. table[c].amount \in Nat /\ table[d].amount \in Nat
  BY <1>1, <1>2, <1>4
<1> DEFINE a == table[c].amount
           b == table[d].amount
           t == Total(table, (s \ {d}) \ {c})
<1>11. Total(table, s) = b + (a + t) /\ Total(table, s \ {c}) = b + t
  BY <1>4, <1>6, <1>7, <1>8
<1>12. a \in Nat /\ b \in Nat /\ t \in Nat
  BY <1>9, <1>10
<1> HIDE DEF a, b, t
<1>13. b + (a + t) = a + (b + t)
  BY <1>12
<1>14. Total(table, s) = a + Total(table, s \ {c})
  BY <1>11, <1>13
<1> QED
  BY <1>2, <1>14 DEF a

\* A part adds up to no more than the whole.
LEMMA TotalGrows ==
  ASSUME NEW table, NEW S, IsFiniteSet(S), \A p \in S : table[p].amount \in Nat,
         NEW U, U \subseteq S
  PROVE  Total(table, U) <= Total(table, S)
<1> DEFINE C == {s \in SUBSET S : U \subseteq s /\ ~ Total(table, U) <= Total(table, s)}
<1> SUFFICES ASSUME C # {} PROVE FALSE
  OBVIOUS
<1>1. PICK s \in C : \A u \in C : u \subseteq s => u = s
  <2>1. C \in SUBSET (SUBSET S)
    OBVIOUS
  <2> HIDE DEF C
  <2> QED
    BY <2>1, SmallestSet
<1>2. IsFiniteSet(s) /\ \A p \in s : table[p].amount \in Nat
  BY FS_Subset
<1>3. Total(table, s) \in Nat
  BY <1>2, TotalType
<1>4. U # s
  BY <1>1, <1>3
<1>5. PICK c \in s : c \notin U
  BY <1>1, <1>4
<1>6. Total(table, s) = table[c].amount + Total(table, s \ {c})
  BY <1>2, TotalRemove
<1>7. Total(table, U) <= Total(table, s \ {c})
  BY <1>1, <1>5
<1>8. Total(table, U) \in Nat /\ Total(table, s \ {c}) \in Nat /\ table[c].amount \in Nat
  <2>1. /\ IsFiniteSet(U)
        /\ IsFiniteSet(s \ {c})
        /\ \A p \in U : table[p].amount \in Nat
        /\ \A p \in s \ {c} : table[p].amount \in Nat
    BY <1>2, FS_Subset
  <2> QED
    BY <1>2, <2>1, TotalType
<1> QED
  BY <1>1, <1>6, <1>7, <1>8

-----------------------------------------------------------------------------
(* A settled invoice was covered or confirmed by hand.  An approval that   *)
(* is withdrawn later counts, as the handler that saw it may be on its way.*)

\* The proofs of an invoice that were approved at some time.
Approved(i) == ProofsOf(i) \cap approvedEver

\* A handler that is about to settle has seen the amount covered.
CoverTask(t) ==
  /\ t.pc = "confirm" /\ t.proof # Null => Credit(Approved(t.inv)) >= Amount[t.inv]
  /\ t.pc = "decide" => Credits(t.note)
  /\ t.pc = "commit" /\ t.write = "lunas" =>
       /\ Credits(t.note)
       /\ Credit(Approved(t.inv)) + t.gross >= Amount[t.inv]

CoverInv ==
  /\ IsFiniteSet({p \in Proof : Exists(p)})
  /\ \A p \in Proof : proofs[p].status = "disetujui" => p \in approvedEver
  /\ \A i \in settledEver : i \in byHand \/ Credit(Approved(i)) >= Amount[i]
  /\ \A r \in Request : CoverTask(task[r])

\* Rows keep their invoice and amount, and are only ever added, one at a time.
RowsStay ==
  /\ \A p \in Proof : Exists(p) => /\ proofs'[p].inv = proofs[p].inv
                                   /\ proofs'[p].amount = proofs[p].amount
  /\ \E q : \A p \in Proof : proofs'[p].inv # Null => Exists(p) \/ p = q
  /\ approvedEver \subseteq approvedEver'

\* The proofs of an invoice are finitely many and add up to a natural number.
LEMMA ApprovedType ==
  ASSUME TypeOK, IsFiniteSet({p \in Proof : Exists(p)}), NEW i \in Invoice,
         NEW S, S \subseteq ProofsOf(i)
  PROVE  IsFiniteSet(S) /\ \A p \in S : proofs[p].amount \in Nat
<1>1. \A p \in S : p \in Proof /\ proofs[p].inv # Null
  BY NullAssumption DEF ProofsOf
<1>2. S \subseteq {p \in Proof : Exists(p)}
  BY <1>1 DEF Exists
<1>3. IsFiniteSet(S)
  BY <1>2, FS_Subset
<1>4. \A p \in S : proofs[p].amount \in Nat
  BY <1>1 DEF TypeOK, ProofRow
<1> QED
  BY <1>3, <1>4

\* One row more leaves finitely many.
LEMMA RowsFinite ==
  ASSUME IsFiniteSet({p \in Proof : Exists(p)}), RowsStay
  PROVE  IsFiniteSet({p \in Proof : Exists(p)})'
<1>1. PICK q : \A p \in Proof : proofs'[p].inv # Null => Exists(p) \/ p = q
  BY DEF RowsStay
<1>2. {p \in Proof : proofs'[p].inv # Null} \subseteq {p \in Proof : Exists(p)} \cup {q}
  BY <1>1
<1>3. IsFiniteSet({p \in Proof : Exists(p)} \cup {q})
  BY FS_AddElement
<1> QED
  BY <1>2, <1>3, FS_Subset DEF Exists

\* What was credited to an invoice stays credited.
LEMMA ApprovedGrows ==
  ASSUME TypeOK, TypeOK', IsFiniteSet({p \in Proof : Exists(p)}), RowsStay,
         NEW i \in Invoice
  PROVE  /\ IsFiniteSet({p \in Proof : Exists(p)})'
         /\ Approved(i) \subseteq Approved(i)'
         /\ Credit(Approved(i)) \in Nat
         /\ Credit(Approved(i))' \in Nat
         /\ Credit(Approved(i)) <= Credit(Approved(i))'
<1> DEFINE S == Approved(i)
           T == Approved(i)'
<1>1. IsFiniteSet({p \in Proof : Exists(p)})'
  BY RowsFinite
<1>2. \A p \in S : /\ p \in Proof
                   /\ Exists(p)
                   /\ proofs'[p].inv = proofs[p].inv
                   /\ proofs'[p].amount = proofs[p].amount
  BY NullAssumption DEF RowsStay, Approved, ProofsOf, Exists
<1>3. S \subseteq T
  BY <1>2 DEF RowsStay, Approved, ProofsOf
<1>4. IsFiniteSet(S) /\ \A p \in S : proofs[p].amount \in Nat
  BY ApprovedType DEF Approved
<1>5. IsFiniteSet(T) /\ \A p \in T : proofs'[p].amount \in Nat
  <2>1. \A p \in T : p \in Proof /\ proofs'[p].inv # Null
    BY NullAssumption DEF Approved, ProofsOf
  <2>2. T \subseteq {p \in Proof : Exists(p)}'
    BY <2>1 DEF Exists
  <2>3. IsFiniteSet(T)
    BY <1>1, <2>2, FS_Subset
  <2>4. \A p \in T : proofs'[p].amount \in Nat
    BY <2>1 DEF TypeOK, ProofRow
  <2> QED
    BY <2>3, <2>4
<1>6. Credit(Approved(i)) = Total(proofs, S) /\ Credit(Approved(i))' = Total(proofs', T)
  BY DEF Credit, Total, MapThenSumSet, MapThenFoldSet
<1> HIDE DEF S, T
<1>7. Total(proofs, S) = Total(proofs', S)
  BY <1>2, <1>4, TotalSame
<1>8. Total(proofs', S) <= Total(proofs', T)
  BY <1>3, <1>5, TotalGrows
<1>9. Total(proofs, S) \in Nat /\ Total(proofs', T) \in Nat
  BY <1>4, <1>5, TotalType
<1>10. Credit(Approved(i)) \in Nat /\ Credit(Approved(i))' \in Nat
  BY <1>6, <1>9
<1>11. Credit(Approved(i)) <= Credit(Approved(i))'
  BY <1>6, <1>7, <1>8
<1>12. Approved(i) \subseteq Approved(i)'
  BY <1>3 DEF S, T
<1> QED
  BY <1>1, <1>10, <1>11, <1>12

\* A step that adds to the approved proofs keeps CoverInv when the invoices it
\* settles and the handlers it moves are covered.
LEMMA CoverKept ==
  ASSUME TypeInv, TypeInv', CoverInv, RowsStay, byHand \subseteq byHand',
         \A p \in Proof : proofs'[p].status = "disetujui" => p \in approvedEver',
         \A i \in settledEver' : \/ i \in settledEver
                                 \/ i \in byHand'
                                 \/ Credit(Approved(i))' >= Amount[i],
         \A r \in Request : task'[r] = task[r] \/ CoverTask(task[r])'
  PROVE  CoverInv'
<1>t. TypeOK /\ TypeOK' /\ IsFiniteSet({p \in Proof : Exists(p)})
  BY DEF TypeInv, CoverInv
<1>g. \A i \in Invoice : /\ Credit(Approved(i)) \in Nat
                         /\ Credit(Approved(i))' \in Nat
                         /\ Credit(Approved(i)) <= Credit(Approved(i))'
  BY <1>t, ApprovedGrows
<1>a. \A i \in Invoice : Amount[i] \in Nat
  BY InvoiceAssumption
<1>1. IsFiniteSet({p \in Proof : Exists(p)})'
  BY <1>t, RowsFinite
<1>2. ASSUME NEW i \in settledEver'
      PROVE  i \in byHand' \/ Credit(Approved(i))' >= Amount[i]
  <2>1. i \in Invoice
    BY <1>t DEF TypeOK
  <2>2. CASE i \in settledEver /\ i \notin byHand'
    <3>1. Credit(Approved(i)) >= Amount[i]
      BY <2>2 DEF CoverInv
    <3>2. /\ Credit(Approved(i)) \in Nat
          /\ Credit(Approved(i))' \in Nat
          /\ Credit(Approved(i)) <= Credit(Approved(i))'
          /\ Amount[i] \in Nat
      BY <1>a, <1>g, <2>1
    <3>3. Credit(Approved(i))' >= Amount[i]
      BY <3>1, <3>2
    <3> QED
      BY <3>3
  <2> QED
    BY <2>2
<1>3. ASSUME NEW r \in Request
      PROVE  CoverTask(task[r])'
  <2>1. CASE task'[r] = task[r] /\ task[r].pc = "idle"
    BY <2>1 DEF CoverTask
  <2>2. CASE task'[r] = task[r] /\ task[r].pc # "idle"
    <3> DEFINE t == task[r]
    <3>1. t.inv \in Invoice /\ t.gross \in Nat
      BY <2>2, <1>t DEF TypeInv, TypeOK, GoodTask, Task
    <3>2. CoverTask(t)
      BY DEF CoverInv
    <3>3. /\ Credit(Approved(t.inv)) \in Nat
          /\ Credit(Approved(t.inv))' \in Nat
          /\ Credit(Approved(t.inv)) <= Credit(Approved(t.inv))'
      BY <1>g, <2>2, <3>1
    <3> QED
      BY <1>a, <2>2, <3>1, <3>2, <3>3 DEF CoverTask
  <2> QED
    BY <2>1, <2>2
<1> QED
  BY <1>1, <1>2, <1>3 DEF CoverInv

\* No proof and no handler was there at the start.
LEMMA CoverInit == Init => CoverInv
<1> SUFFICES ASSUME Init PROVE CoverInv
  OBVIOUS
<1>1. {p \in Proof : Exists(p)} = {}
  BY DEF Init, Exists, NoProof
<1>2. IsFiniteSet({p \in Proof : Exists(p)})
  BY <1>1, FS_EmptySet
<1>3. \A r \in Request : CoverTask(task[r])
  BY DEF Init, Idle, CoverTask
<1>4. \A p \in Proof : proofs[p].status # "disetujui"
  BY DEF Init, NoProof
<1> QED
  BY <1>2, <1>3, <1>4 DEF Init, CoverInv

\* A step that writes no proof and settles nothing.
LEMMA CoverQuiet ==
  ASSUME TypeInv, TypeInv', CoverInv, proofs' = proofs, approvedEver' = approvedEver,
         settledEver' = settledEver, byHand' = byHand,
         \A r \in Request : task'[r] = task[r] \/ CoverTask(task[r])'
  PROVE  CoverInv'
<1>1. RowsStay
  <2>1. \A p \in Proof : proofs'[p].inv # Null => Exists(p) \/ p = Null
    BY DEF Exists
  <2> QED
    BY <2>1 DEF RowsStay
<1>2. \A p \in Proof : proofs'[p].status = "disetujui" => p \in approvedEver'
  BY DEF CoverInv
<1> QED
  BY <1>1, <1>2, CoverKept

\* An idle slot, or a handler elsewhere, has nothing to show.
LEMMA CoverElsewhere ==
  ASSUME NEW t, t.pc \notin {"confirm", "decide", "commit"}
  PROVE  CoverTask(t)
BY DEF CoverTask

\* The proofs approved now are among those ever approved.
LEMMA ApprovedNow ==
  ASSUME TypeOK, CoverInv, NEW i \in Invoice
  PROVE  /\ ApprovedTotal(i) \in Nat
         /\ Credit(Approved(i)) \in Nat
         /\ ApprovedTotal(i) <= Credit(Approved(i))
<1> DEFINE S == {p \in ProofsOf(i) : proofs[p].status = "disetujui"}
           T == Approved(i)
<1>1. S \subseteq T
  BY DEF CoverInv, Approved, ProofsOf
<1>2. S \subseteq ProofsOf(i) /\ T \subseteq ProofsOf(i)
  BY DEF Approved
<1>3. ApprovedTotal(i) = Total(proofs, S) /\ Credit(Approved(i)) = Total(proofs, T)
  BY DEF ApprovedTotal, Credit, Total, MapThenSumSet, MapThenFoldSet
<1> HIDE DEF S, T
<1>4. /\ IsFiniteSet(S) /\ \A p \in S : proofs[p].amount \in Nat
      /\ IsFiniteSet(T) /\ \A p \in T : proofs[p].amount \in Nat
  BY <1>2, ApprovedType DEF CoverInv
<1>5. Total(proofs, S) \in Nat /\ Total(proofs, T) \in Nat
  BY <1>4, TotalType
<1>6. Total(proofs, S) <= Total(proofs, T)
  BY <1>1, <1>4, TotalGrows
<1> QED
  BY <1>3, <1>5, <1>6

\* A listing that finds the amount covered, and one that does not.
LEMMA ListCover ==
  ASSUME TypeInv, TypeInv', CoverInv, NEW r \in Request, ListProofs(r)
  PROVE  CoverInv'
<1>t. TypeOK
  BY DEF TypeInv
<1> DEFINE i == task[r].inv
<1>1. i \in Invoice /\ Amount[i] \in Nat
  BY InvoiceAssumption DEF ListProofs, TypeInv, At, GoodTask
<1>2. UNCHANGED <<proofs, approvedEver, settledEver, byHand>>
  BY DEF ListProofs, rows
<1>3. CASE Finish(r) \/ Goto(r, "partial")
  <2>1. /\ \A q \in Request : q # r => task'[q] = task[q]
        /\ task'[r].pc \notin {"confirm", "decide", "commit"}
    BY <1>t, <1>3, FinishStep, GotoStep DEF Labels, Idle
  <2>2. CoverTask(task'[r])
    BY <2>1, CoverElsewhere
  <2>3. CoverTask(task[r])'
    BY <1>2, <2>1 DEF CoverTask
  <2> QED
    BY <1>2, <2>1, <2>3, CoverQuiet
<1>4. CASE Goto(r, "confirm") /\ ApprovedTotal(i) >= Amount[i]
  <2>1. /\ \A q \in Request : q # r => task'[q] = task[q]
        /\ task'[r].pc = "confirm"
        /\ task'[r].inv = i
    BY <1>t, <1>4, GotoStep DEF Labels
  <2>2. Credit(Approved(i)) >= Amount[i]
    BY <1>t, <1>1, <1>4, ApprovedNow
  <2>3. Credit(Approved(i))' = Credit(Approved(i))
    <3>1. Approved(i)' = Approved(i)
      BY <1>2, <2>1 DEF Approved, ProofsOf
    <3>2. /\ Credit(Approved(i)) = Total(proofs, Approved(i))
          /\ Credit(Approved(i))' = Total(proofs', Approved(i)')
      BY DEF Credit, Total, MapThenSumSet, MapThenFoldSet
    <3> HIDE DEF i
    <3> QED
      BY <1>2, <3>1, <3>2
  <2>4. CoverTask(task[r])'
    BY <1>2, <2>1, <2>2, <2>3 DEF CoverTask
  <2> QED
    BY <1>2, <2>1, <2>4, CoverQuiet
<1>5. \/ Finish(r)
      \/ Goto(r, "partial")
      \/ Goto(r, "confirm") /\ ApprovedTotal(i) >= Amount[i]
  BY DEF ListProofs
<1> QED
  BY <1>3, <1>4, <1>5

\* A handler that reads the rows anew moves elsewhere, or to a confirmation by hand.
LEMMA StartCover ==
  ASSUME TypeInv, TypeInv', CoverInv, NEW r \in Request,
         UNCHANGED <<proofs, approvedEver, settledEver, byHand>>,
         \A q \in Request : q # r => task'[q] = task[q],
         \/ task'[r].pc \notin {"confirm", "decide", "commit"}
         \/ task'[r].pc = "confirm" /\ task'[r].proof = Null
  PROVE  CoverInv'
<1>1. CoverTask(task[r])'
  BY DEF CoverTask
<1> QED
  BY <1>1, CoverQuiet

\* A report that credits nothing writes no lunas.
LEMMA ClaimCover ==
  ASSUME TypeInv, TypeInv', CoverInv, NEW r \in Request, NEW n \in Notification,
         ClaimNotification(r, n)
  PROVE  CoverInv'
<1>t. TypeOK
  BY DEF TypeInv
<1> DEFINE i == sessions[OrderOf[n.txn]].inv
           l == IF Credits(n) THEN "decide" ELSE "commit"
           w == ReportedStatus(n)
<1>1. w # "lunas"
  BY NullAssumption DEF ReportedStatus, Statuses
<1>2. /\ \A q \in Request : q # r => task'[q] = task[q]
      /\ task'[r].pc = l
      /\ task'[r].note = n
  BY <1>t, ClaimNotificationStep DEF Became
<1>3. task'[r].write = w
  <2>1. task' = [task EXCEPT ![r] = Unit(n)]
    BY DEF ClaimNotification, Start
  <2>2. Unit(n).write = w
    BY DEF Unit, Read, Idle
  <2> HIDE DEF w
  <2> QED
    BY <1>t, <2>1, <2>2 DEF TypeOK
<1>4. CoverTask(task[r])'
  BY <1>1, <1>2, <1>3 DEF CoverTask
<1>5. UNCHANGED <<proofs, approvedEver, settledEver, byHand>>
  BY DEF ClaimNotification, rows, history
<1> QED
  BY <1>2, <1>4, <1>5, CoverQuiet

\* A unit that decides lunas has added its own amount to what is approved.
LEMMA DecideCover ==
  ASSUME TypeInv, TypeInv', CoverInv, NEW r \in Request, DecideSettlement(r)
  PROVE  CoverInv'
<1>t. TypeOK
  BY DEF TypeInv
<1>d. /\ task[r].pc = "decide"
      /\ task[r].inv \in Invoice
      /\ task[r].note \in Notification
      /\ Credits(task[r].note)
  BY DEF DecideSettlement, At, TypeInv, GoodTask, CoverInv, CoverTask
<1>1. UNCHANGED <<proofs, approvedEver, settledEver, byHand>>
  BY DEF DecideSettlement, rows, history
<1> DEFINE i == task[r].inv
           g == sessions[OrderOf[task[r].note.txn]].gross
           full == ApprovedTotal(i) + g >= Amount[i]
           w == IF full /\ task[r].seen # "lunas" THEN "lunas"
                ELSE IF ~full /\ task[r].seen # "dibayar" THEN "dibayar" ELSE Null
<1>2. /\ \A q \in Request : q # r => task'[q] = task[q]
      /\ task'[r].pc = "commit"
      /\ task'[r].inv = i
      /\ task'[r].note = task[r].note
      /\ task'[r].gross = g
  BY <1>t, <1>d, DecideStep
<1>3. g \in Nat /\ Amount[i] \in Nat
  BY <1>t, <1>d, GatewayAssumption, InvoiceAssumption DEF TypeOK, Notification
<1>4. task'[r].write = "lunas" => full
  <2> HIDE DEF full, g
  <2>1. PICK p \in Proof :
          task' = [task EXCEPT ![r] =
                     [task[r] EXCEPT !.pc = "commit", !.proof = p, !.gross = g, !.write = w]]
    BY DEF DecideSettlement, g, full
  <2>2. w = "lunas" => full
    BY NullAssumption DEF Statuses
  <2> HIDE DEF w
  <2>3. task'[r].write = w
    BY <1>t, <2>1 DEF TypeOK, Task
  <2> QED
    BY <2>2, <2>3
<1>5. full => Credit(Approved(i)) + g >= Amount[i]
  <2>1. /\ ApprovedTotal(i) \in Nat
        /\ Credit(Approved(i)) \in Nat
        /\ ApprovedTotal(i) <= Credit(Approved(i))
    BY <1>t, <1>d, ApprovedNow
  <2> QED
    BY <1>3, <2>1
<1>6. Credit(Approved(i))' = Credit(Approved(i))
  <2>1. Approved(i)' = Approved(i)
    BY <1>1, <1>2 DEF Approved, ProofsOf
  <2>2. /\ Credit(Approved(i)) = Total(proofs, Approved(i))
        /\ Credit(Approved(i))' = Total(proofs', Approved(i)')
    BY DEF Credit, Total, MapThenSumSet, MapThenFoldSet
  <2> HIDE DEF i
  <2> QED
    BY <1>1, <2>1, <2>2
<1>7. Credits(task'[r].note)
  BY <1>2, <1>d
<1>8. CoverTask(task[r])'
  <2> HIDE DEF full, g, w
  <2> QED
    BY <1>2, <1>4, <1>5, <1>6, <1>7 DEF CoverTask
<1> QED
  BY <1>1, <1>2, <1>8, CoverQuiet

\* The approval of a proof is remembered.
LEMMA ApproveCover ==
  ASSUME TypeInv, TypeInv', CoverInv, NEW r \in Request, ApproveProof(r)
  PROVE  CoverInv'
<1>t. TypeOK
  BY DEF TypeInv
<1> DEFINE p == task[r].proof
<1>1. p \in Proof
  BY DEF ApproveProof, At, TypeInv, GoodTask
<1>2. /\ proofs' = [proofs EXCEPT ![p].status = "disetujui"]
      /\ approvedEver' = approvedEver \cup {p}
      /\ settledEver' = settledEver /\ byHand' = byHand
  BY DEF ApproveProof
<1>3. /\ \A q \in Request : q # r => task'[q] = task[q]
      /\ task'[r].pc = "list"
  BY <1>t, GotoStep DEF ApproveProof, Labels
<1>4. \A q \in Proof : /\ proofs'[q].inv = proofs[q].inv
                       /\ proofs'[q].amount = proofs[q].amount
                       /\ q # p => proofs'[q] = proofs[q]
  BY <1>t, <1>1, <1>2 DEF TypeOK, ProofRow
<1>5. RowsStay
  BY <1>2, <1>4 DEF RowsStay, Exists
<1>6. \A q \in Proof : proofs'[q].status = "disetujui" => q \in approvedEver'
  BY <1>2, <1>4 DEF CoverInv
<1>7. CoverTask(task[r])'
  BY <1>3 DEF CoverTask
<1> QED
  BY <1>2, <1>3, <1>5, <1>6, <1>7, CoverKept

\* A rejection takes an approval away, but not that it was given.
LEMMA RejectCover ==
  ASSUME TypeInv, TypeInv', CoverInv, NEW p \in Proof, RejectProof(p)
  PROVE  CoverInv'
<1>1. \A q \in Proof : /\ proofs'[q].inv = proofs[q].inv
                       /\ proofs'[q].amount = proofs[q].amount
                       /\ proofs'[q].status = "disetujui" => proofs[q].status = "disetujui"
  BY DEF RejectProof, TypeInv, TypeOK, ProofRow
<1>2. UNCHANGED <<task, approvedEver, settledEver, byHand>>
  BY DEF RejectProof, history
<1>3. RowsStay
  BY <1>1, <1>2 DEF RowsStay, Exists
<1>4. \A q \in Proof : proofs'[q].status = "disetujui" => q \in approvedEver'
  BY <1>1, <1>2 DEF CoverInv
<1> QED
  BY <1>2, <1>3, <1>4, CoverKept

\* An uploaded proof is a new row that nobody has approved.
LEMMA InsertCover ==
  ASSUME TypeInv, TypeInv', LedgerInv, CoverInv, NEW r \in Request, InsertProof(r)
  PROVE  CoverInv'
<1>t. TypeOK
  BY DEF TypeInv
<1> DEFINE p == task[r].proof
<1>1. p \in Proof /\ ~Exists(p)
  BY DEF InsertProof, At, LedgerInv, RowInv, Reserves
<1>2. /\ \A q \in Proof : q # p => proofs'[q] = proofs[q]
      /\ proofs'[p].status = "menunggu"
  BY <1>t, <1>1 DEF InsertProof, TypeOK
<1>3. UNCHANGED <<approvedEver, settledEver, byHand>>
  BY DEF InsertProof, history
<1>4. RowsStay
  BY <1>1, <1>2, <1>3 DEF RowsStay, Exists
<1>5. \A q \in Proof : proofs'[q].status = "disetujui" => q \in approvedEver'
  BY <1>2, <1>3 DEF CoverInv
<1>6. \A q \in Request : task'[q] = IF q = r THEN Idle ELSE task[q]
  BY <1>t, FinishStep DEF InsertProof
<1>7. CoverTask(task[r])'
  BY <1>6 DEF CoverTask, Idle
<1> QED
  BY <1>3, <1>4, <1>5, <1>6, <1>7, CoverKept

\* A confirmation settles what it saw covered, or by hand.
LEMMA ConfirmCover ==
  ASSUME TypeInv, TypeInv', CoverInv, NEW r \in Request, ConfirmInvoice(r)
  PROVE  CoverInv'
<1>t. TypeOK
  BY DEF TypeInv
<1> DEFINE i == task[r].inv
<1>1. i \in Invoice
  BY DEF ConfirmInvoice, At, TypeInv, GoodTask
<1>2. /\ proofs' = proofs /\ approvedEver' = approvedEver
      /\ settledEver' = settledEver \cup {i}
      /\ byHand' = IF task[r].proof = Null THEN byHand \cup {i} ELSE byHand
  BY DEF ConfirmInvoice
<1>3. /\ \A q \in Request : q # r => task'[q] = task[q]
      /\ task'[r].pc = "activate"
  BY <1>t, GotoStep DEF ConfirmInvoice, Labels
<1>4. i \notin byHand' => Credit(Approved(i)) >= Amount[i]
  BY <1>2 DEF ConfirmInvoice, At, CoverInv, CoverTask
<1>5. ASSUME NEW j \in settledEver', j \notin settledEver, j \notin byHand'
      PROVE  Credit(Approved(j))' >= Amount[j]
  <2>1. j = i
    BY <1>2, <1>5
  <2>2. Credit(Approved(j)) >= Amount[j]
    BY <1>4, <1>5, <2>1
  <2>3. Approved(j)' = Approved(j)
    BY <1>2 DEF Approved, ProofsOf
  <2>4. /\ Credit(Approved(j)) = Total(proofs, Approved(j))
        /\ Credit(Approved(j))' = Total(proofs', Approved(j)')
    BY DEF Credit, Total, MapThenSumSet, MapThenFoldSet
  <2> QED
    BY <1>2, <2>2, <2>3, <2>4
<1>6. RowsStay
  BY <1>2 DEF RowsStay, Exists
<1>7. \A p \in Proof : proofs'[p].status = "disetujui" => p \in approvedEver'
  BY <1>2 DEF CoverInv
<1>8. CoverTask(task[r])'
  BY <1>3 DEF CoverTask
<1>9. byHand \subseteq byHand'
  BY <1>2
<1> QED
  BY <1>3, <1>5, <1>6, <1>7, <1>8, <1>9, CoverKept

\* A commit adds its proof to those that cover the invoice.
LEMMA CommitCover ==
  ASSUME TypeInv, TypeInv', LedgerInv, CoverInv, NEW r \in Request, CommitUnit(r)
  PROVE  CoverInv'
<1>t. TypeOK /\ TypeOK'
  BY DEF TypeInv
<1> DEFINE i == task[r].inv
           n == task[r].note
           p == task[r].proof
           w == task[r].write
<1>1. /\ task[r].pc = "commit"
      /\ i \in Invoice
      /\ CoverTask(task[r])
  BY DEF CommitUnit, At, TypeInv, GoodTask, CoverInv
<1>2. /\ settledEver' = IF w = "lunas" THEN settledEver \cup {i} ELSE settledEver
      /\ byHand' = byHand
      /\ approvedEver' = IF Credits(n) THEN approvedEver \cup {p} ELSE approvedEver
  BY DEF CommitUnit
<1>3. \A q \in Request : task'[q] = IF q = r THEN Idle ELSE task[q]
  BY <1>t, FinishStep DEF CommitUnit
<1>4. CoverTask(task[r])'
  BY <1>1, <1>3 DEF CoverTask, Idle
<1>5. Credits(n) =>
        /\ p \in Proof
        /\ ~Exists(p)
        /\ proofs'[p].inv = i
        /\ proofs'[p].amount = task[r].gross
        /\ \A q \in Proof : q # p => proofs'[q] = proofs[q]
  <2>1. Credits(n) =>
          /\ p \in Proof
          /\ ~Exists(p)
          /\ \A q \in Proof : q # p => proofs'[q] = proofs[q]
    BY CommitFacts
  <2>2. Credits(n) => proofs' = [proofs EXCEPT ![p] = [inv |-> i, amount |-> task[r].gross,
                                                       txn |-> n.txn, status |-> "disetujui"]]
    BY DEF CommitUnit
  <2> HIDE DEF p, n, i
  <2> QED
    BY <1>t, <2>1, <2>2 DEF TypeOK
<1>6. ~Credits(n) => proofs' = proofs
  BY DEF CommitUnit
<1>7. RowsStay
  BY <1>2, <1>5, <1>6 DEF RowsStay, Exists
<1>8. \A q \in Proof : proofs'[q].status = "disetujui" => q \in approvedEver'
  BY <1>2, <1>5, <1>6 DEF CoverInv
<1>9. ASSUME NEW j \in Invoice, j = i, w = "lunas"
      PROVE  Credit(Approved(j))' >= Amount[j]
  <2> DEFINE S == Approved(j)
  <2>1. /\ Credits(n)
        /\ Credit(Approved(j)) + task[r].gross >= Amount[j]
    BY <1>1, <1>9 DEF CoverTask
  <2>2. p \notin S /\ \A q \in S : q \in Proof /\ proofs'[q] = proofs[q]
    <3>1. \A q \in S : q \in Proof /\ Exists(q)
      BY NullAssumption DEF Approved, ProofsOf, Exists
    <3> HIDE DEF S
    <3> QED
      BY <1>5, <2>1, <3>1
  <2>3. Approved(j)' = S \cup {p}
    <3>1. \A q \in Proof : q # p => (proofs'[q].inv = j <=> proofs[q].inv = j)
      BY <1>5, <2>1
    <3>2. p \in Proof /\ proofs'[p].inv = j
      BY <1>5, <1>9, <2>1
    <3>3. approvedEver' = approvedEver \cup {p}
      BY <1>2, <2>1
    <3> HIDE DEF p, i
    <3>4. \A q \in Proof : q \in ProofsOf(j)' \cap approvedEver'
                            <=> q \in (ProofsOf(j) \cap approvedEver) \cup {p}
      BY <3>1, <3>2, <3>3 DEF ProofsOf
    <3>5. ProofsOf(j)' \subseteq Proof /\ ProofsOf(j) \subseteq Proof
      BY DEF ProofsOf
    <3> QED
      BY <3>2, <3>4, <3>5 DEF Approved
  <2>4. /\ Credit(Approved(j)) = Total(proofs, S)
        /\ Credit(Approved(j))' = Total(proofs', Approved(j)')
    BY DEF Credit, Total, MapThenSumSet, MapThenFoldSet
  <2>5. IsFiniteSet(S) /\ \A q \in S : proofs[q].amount \in Nat
    BY <1>t, ApprovedType DEF CoverInv, Approved
  <2>6. task[r].gross \in Nat /\ Amount[j] \in Nat
    BY <1>t, InvoiceAssumption DEF TypeOK, Task
  <2> HIDE DEF S, p, w, i
  <2>7. IsFiniteSet(S \cup {p}) /\ \A q \in S \cup {p} : proofs'[q].amount \in Nat
    BY <1>5, <2>1, <2>2, <2>5, <2>6, FS_AddElement
  <2>8. Total(proofs', S \cup {p}) = task[r].gross + Total(proofs', S)
    <3>1. (S \cup {p}) \ {p} = S
      BY <2>2
    <3>2. Total(proofs', S \cup {p})
            = proofs'[p].amount + Total(proofs', (S \cup {p}) \ {p})
      BY <2>7, TotalRemove
    <3> QED
      BY <1>5, <2>1, <3>1, <3>2
  <2>9. Total(proofs', S) = Total(proofs, S)
    BY <2>2, <2>5, TotalSame
  <2>10. Total(proofs, S) \in Nat
    BY <2>5, TotalType
  <2>11. Total(proofs, S) + task[r].gross >= Amount[j]
    BY <2>1, <2>4
  <2>12. Credit(Approved(j))' = task[r].gross + Total(proofs, S)
    BY <2>3, <2>4, <2>8, <2>9
  <2> QED
    BY <2>6, <2>10, <2>11, <2>12
<1>10. \A j \in settledEver' : \/ j \in settledEver
                                \/ j \in byHand'
                                \/ Credit(Approved(j))' >= Amount[j]
  <2> SUFFICES ASSUME NEW j \in settledEver', j \notin settledEver
               PROVE  Credit(Approved(j))' >= Amount[j]
    OBVIOUS
  <2>1. w = "lunas" /\ j = i
    BY <1>2
  <2> QED
    BY <1>1, <1>9, <2>1
<1> QED
  BY <1>2, <1>3, <1>4, <1>7, <1>8, <1>10, CoverKept

\* Every step keeps settled invoices covered or confirmed.
LEMMA CoverStep ==
  TypeInv /\ LedgerInv /\ CoverInv /\ [Next]_vars => CoverInv'
<1> SUFFICES ASSUME TypeInv, LedgerInv, CoverInv, [Next]_vars PROVE CoverInv'
  OBVIOUS
<1>t. TypeOK /\ TypeInv'
  BY TypeStep DEF TypeInv
<1>i. Idle.pc = "idle"
  BY DEF Idle
<1>1. ASSUME NEW r \in Request, NEW i \in Invoice, NEW p \in Receipt, NEW a \in Claim,
             StartUpload(r, i, p, a)
      PROVE  CoverInv'
  BY <1>1, <1>t, StartUploadStep, StartCover DEF Became, StartUpload, rows, history
<1>2. ASSUME NEW r \in Request, NEW p \in Proof, StartApprove(r, p)
      PROVE  CoverInv'
  BY <1>2, <1>t, StartApproveStep, StartCover DEF Became, StartApprove, rows, history
<1>3. ASSUME NEW r \in Request, NEW i \in Invoice, StartConfirm(r, i)
      PROVE  CoverInv'
  BY <1>3, <1>t, StartConfirmStep, StartCover DEF Became, StartConfirm, rows, history
<1>4. ASSUME NEW r \in Request, NEW i \in Invoice, StartPdf(r, i)
      PROVE  CoverInv'
  BY <1>4, <1>t, StartPdfStep, StartCover DEF Became, StartPdf, rows, history
<1>5. ASSUME NEW r \in Request, NEW i \in Invoice, StartPayment(r, i)
      PROVE  CoverInv'
  BY <1>5, <1>t, StartPaymentStep, StartCover DEF Became, StartPayment, rows, history
<1>6. ASSUME NEW r \in Request, NEW n \in Notification, ClaimNotification(r, n)
      PROVE  CoverInv'
  BY <1>6, <1>t, ClaimCover
<1>7. ASSUME NEW r \in Request, MarkAwaiting(r)
      PROVE  CoverInv'
  <2>1. /\ \A q \in Request : q # r => task'[q] = task[q]
        /\ task'[r].pc = "insert"
    BY <1>7, <1>t, GotoStep DEF MarkAwaiting, Labels
  <2> QED
    BY <1>7, <1>t, <2>1, StartCover DEF MarkAwaiting, history
<1>8. ASSUME NEW r \in Request, InsertProof(r)
      PROVE  CoverInv'
  BY <1>8, <1>t, InsertCover
<1>9. ASSUME NEW p \in Proof, RejectProof(p)
      PROVE  CoverInv'
  BY <1>9, <1>t, RejectCover
<1>10. ASSUME NEW r \in Request, ApproveProof(r)
      PROVE  CoverInv'
  BY <1>10, <1>t, ApproveCover
<1>11. ASSUME NEW r \in Request, ListProofs(r)
      PROVE  CoverInv'
  BY <1>11, <1>t, ListCover
<1>12. ASSUME NEW r \in Request, ConfirmInvoice(r)
      PROVE  CoverInv'
  BY <1>12, <1>t, ConfirmCover
<1>13. ASSUME NEW r \in Request,
              \/ MarkPartial(r)
              \/ Activate(r)
              \/ RecordPdf(r)
              \/ \E o \in Order : OpenSession(r, o)
              \/ Die(r)
      PROVE  CoverInv'
  <2>1. Finish(r)
    BY <1>13 DEF MarkPartial, Activate, RecordPdf, OpenSession, Die
  <2>2. \A q \in Request : task'[q] = IF q = r THEN Idle ELSE task[q]
    BY <1>t, <2>1, FinishStep
  <2>3. UNCHANGED <<proofs, approvedEver, settledEver, byHand>>
    BY <1>13 DEF MarkPartial, Activate, RecordPdf, OpenSession, Die, rows, history
  <2> QED
    BY <1>t, <1>i, <2>2, <2>3, StartCover
<1>14. ASSUME NEW r \in Request, DecideSettlement(r)
      PROVE  CoverInv'
  BY <1>14, <1>t, DecideCover
<1>15. ASSUME NEW r \in Request, CommitUnit(r)
      PROVE  CoverInv'
  BY <1>15, <1>t, CommitCover
<1>16. ASSUME NEW n \in Notification, AcknowledgeRedelivery(n)
      PROVE  CoverInv'
  BY <1>16, <1>t, CoverQuiet DEF AcknowledgeRedelivery, rows
<1>17. ASSUME NEW t \in Txn, NEW s \in Stages, Advance(t, s)
      PROVE  CoverInv'
  BY <1>17, <1>t, CoverQuiet DEF Advance, rows, history
<1>18. CASE UNCHANGED vars
  BY <1>18, <1>t, CoverQuiet DEF vars, rows, history
<1> QED
  BY <1>1, <1>2, <1>3, <1>4, <1>5, <1>6, <1>7, <1>8, <1>9, <1>10, <1>11, <1>12,
     <1>13, <1>14, <1>15, <1>16, <1>17, <1>18
  DEF Next, Handle, Deliver

\* An invoice is lunas only if the proofs approved for it so far cover it, or an
\* admin confirmed it by hand, whatever was written between the listing of the
\* proofs and the confirmation.
THEOREM SettledInvoicesJustified == Spec => []SettledIsJustified
<1>1. TypeInv /\ PortalInv /\ CoverInv => SettledIsJustified
  BY DEF PortalInv, CoverInv, Approved, SettledIsJustified
<1> QED
  BY TypeInit, TypeStep, PortalInit, PortalStep, LedgerInit, LedgerStep,
     CoverInit, CoverStep, <1>1, PTL DEF Spec

-----------------------------------------------------------------------------
(* Payment methods that report nothing before the money lose nothing.      *)

\* A transaction is settled, or captured and settled, without a pending step, a
\* review or a failure.
DirectPayments == \A m \in Moves : m[2] \in {"captured", "settled"}

AckInv ==
  /\ \A n \in sent : Credits(n)
  /\ \A t, u \in Txn :
       OrderOf[t] = OrderOf[u] /\ stage[t] \notin {"new", "failed"}
         /\ stage[u] \notin {"new", "failed"} => t = u
  /\ \A n \in acked : n \in sent /\ \E c \in claims : Key(c) = Key(n)

\* A step that reports nothing and answers only what is claimed.
LEMMA AckKept ==
  ASSUME AckInv, sent' = sent, stage' = stage, claims \subseteq claims',
         \A n \in acked' : n \in acked \/ (n \in sent /\ \E c \in claims' : Key(c) = Key(n))
  PROVE  AckInv'
BY DEF AckInv

\* Every report is one of received money, and what is answered was claimed.
LEMMA AckStep ==
  ASSUME DirectPayments
  PROVE  TypeInv /\ LedgerInv /\ AckInv /\ [Next]_vars => AckInv'
<1> SUFFICES ASSUME TypeInv, LedgerInv, AckInv, [Next]_vars PROVE AckInv'
  OBVIOUS
<1>t. TypeOK
  BY DEF TypeInv
<1>1. ASSUME NEW t \in Txn, NEW s \in Stages, Advance(t, s)
      PROVE  AckInv'
  <2>1. /\ stage' = [stage EXCEPT ![t] = s]
        /\ sent' = sent \cup {Report(t, s)}
        /\ <<stage[t], s>> \in Moves
        /\ \A u \in Txn \ {t} : OrderOf[u] = OrderOf[t] => stage[u] \in {"new", "failed"}
        /\ UNCHANGED <<claims, acked>>
    BY <1>1 DEF Advance, rows, history
  <2>2. s \in {"captured", "settled"}
    BY <2>1 DEF DirectPayments
  <2>3. Credits(Report(t, s))
    BY <2>2 DEF Credits, Report
  <2>4. \A n \in sent' : Credits(n)
    BY <2>1, <2>3 DEF AckInv
  <2>5. ASSUME NEW u \in Txn, NEW v \in Txn, OrderOf[u] = OrderOf[v],
               stage'[u] \notin {"new", "failed"}, stage'[v] \notin {"new", "failed"}
        PROVE  u = v
    <3>1. \A x \in Txn : x # t => stage'[x] = stage[x]
      BY <1>t, <2>1 DEF TypeOK
    <3> QED
      BY <2>1, <2>5, <3>1 DEF AckInv
  <2>6. \A n \in acked' : n \in sent' /\ \E c \in claims' : Key(c) = Key(n)
    BY <2>1 DEF AckInv
  <2> QED
    BY <2>4, <2>5, <2>6 DEF AckInv
<1>2. ASSUME NEW r \in Request, CommitUnit(r)
      PROVE  AckInv'
  <2>1. task[r].note \in sent
    BY <1>2, CommitFacts
  <2> QED
    BY <1>2, <2>1, AckKept DEF CommitUnit, gateway
<1>3. ASSUME NEW n \in Notification, AcknowledgeRedelivery(n)
      PROVE  AckInv'
  BY <1>3, AckKept DEF AcknowledgeRedelivery, rows, gateway
<1>4. ASSUME NEW r \in Request, NEW i \in Invoice,
             \/ \E p \in Receipt, a \in Claim : StartUpload(r, i, p, a)
             \/ StartConfirm(r, i)
             \/ StartPdf(r, i)
             \/ StartPayment(r, i)
      PROVE  AckInv'
  BY <1>4, AckKept
  DEF StartUpload, StartConfirm, StartPdf, StartPayment, rows, gateway, history
<1>5. ASSUME NEW r \in Request, NEW p \in Proof, StartApprove(r, p)
      PROVE  AckInv'
  BY <1>5, AckKept DEF StartApprove, rows, gateway, history
<1>6. ASSUME NEW p \in Proof, RejectProof(p)
      PROVE  AckInv'
  BY <1>6, AckKept DEF RejectProof, gateway, history
<1>7. ASSUME NEW r \in Request, Handle(r), ~CommitUnit(r)
      PROVE  AckInv'
  <2>1. UNCHANGED <<sent, stage, claims, acked>>
    BY <1>7 DEF Handle, MarkAwaiting, InsertProof, ApproveProof, ListProofs, MarkPartial,
               ConfirmInvoice, Activate, RecordPdf, OpenSession, DecideSettlement,
               UpdateInvoice, rows, gateway, history
  <2> QED
    BY <2>1, AckKept
<1>8. ASSUME NEW r \in Request, Die(r)
      PROVE  AckInv'
  BY <1>8, AckKept DEF Die, rows, gateway, history
<1>9. ASSUME NEW r \in Request, NEW n \in Notification, ClaimNotification(r, n)
      PROVE  AckInv'
  BY <1>9, AckKept DEF ClaimNotification, rows, gateway, history
<1>10. CASE UNCHANGED vars
  BY <1>10, AckKept DEF vars, rows, gateway, history
<1> QED
  BY <1>1, <1>2, <1>3, <1>4, <1>5, <1>6, <1>7, <1>8, <1>9, <1>10 DEF Next, Deliver

\* A claim that shares its key with a credit credited the same transaction.
LEMMA SharedKey ==
  ASSUME TypeOK, LedgerInv, AckInv, NEW n \in sent, NEW c \in claims, Key(c) = Key(n)
  PROVE  \E p \in Proof : proofs[p].txn = n.txn
<1>1. /\ n \in Notification /\ c \in Notification
      /\ Credits(c) /\ Credits(n)
      /\ c \in sent
  BY DEF AckInv, LedgerInv, ClaimInv, TypeOK
<1>2. OrderOf[c.txn] = OrderOf[n.txn]
  BY DEF Key
<1>3. c.txn \in Received /\ n.txn \in Received
  BY <1>1 DEF LedgerInv, SentInv
<1>4. c.txn = n.txn
  BY <1>2, <1>3 DEF AckInv, Received
<1> QED
  BY <1>1, <1>4 DEF LedgerInv, ClaimInv, ClaimedIsCredited

\* A claim with the key of an answered notification credited its transaction.
LEMMA AckCredited ==
  ASSUME TypeOK, LedgerInv, AckInv
  PROVE  AcknowledgedIsCredited
BY SharedKey DEF AckInv, AcknowledgedIsCredited

\* Where nothing is reported before the money, a notification of received money
\* that was answered 200, and so is never sent again, is credited: the early
\* report is the only way to lose a payment, however many deliveries die.
THEOREM AcknowledgedAreCredited ==
  ASSUME DirectPayments
  PROVE  Spec => []AcknowledgedIsCredited
<1>1. Init => AckInv
  BY DEF Init, AckInv
<1>2. TypeInv /\ LedgerInv /\ AckInv /\ [Next]_vars => AckInv'
  BY AckStep
<1>3. TypeInv /\ LedgerInv /\ AckInv => AcknowledgedIsCredited
  BY AckCredited DEF TypeInv
<1> QED
  BY TypeInit, TypeStep, LedgerInit, LedgerStep, <1>1, <1>2, <1>3, PTL DEF Spec

-----------------------------------------------------------------------------
(* One handler at a time: what covers an invoice settles it.               *)

OneHandler == \A q, r \in Request : q = r

\* The approval that may have covered an invoice is on its way to settle it.
Settling(t, i) == t.inv = i /\ t.pc \in {"list", "confirm"}

\* What a handler read is still so, and what it is about to write accounts for
\* what is approved.
SerialTask(t) ==
  /\ t.pc \in {"mark", "approve", "list", "partial", "confirm", "pdf", "decide", "commit"} =>
       t.seen = status[t.inv]
  /\ t.pc = "mark" => t.seen = "diterbitkan"
  /\ t.pc = "approve" => proofs[t.proof].inv = t.inv
  /\ t.pc = "partial" => ApprovedTotal(t.inv) < Amount[t.inv]
  /\ t.pc = "commit" =>
       \/ t.write = "lunas"
       \/ t.write = Null /\ t.seen = "lunas"
       \/ t.write # "lunas" /\ ApprovedTotal(t.inv) + t.gross < Amount[t.inv]

SerialInv ==
  /\ \A i \in Invoice : ApprovedTotal(i) >= Amount[i] =>
       status[i] = "lunas" \/ \E r \in Request : Settling(task[r], i)
  /\ \A r \in Request : SerialTask(task[r])

\* The approved proofs of an invoice in a table of proofs.
NowOf(table, i) ==
  {p \in Proof : table[p].inv = i /\ table[p].status = "disetujui"}

\* ApprovedTotal sums them, before and after a step.
LEMMA TotalNow ==
  ASSUME NEW i
  PROVE  /\ ApprovedTotal(i) = Total(proofs, NowOf(proofs, i))
         /\ ApprovedTotal(i)' = Total(proofs', NowOf(proofs', i))
<1> DEFINE S == {p \in ProofsOf(i) : proofs[p].status = "disetujui"}
<1>1. S = NowOf(proofs, i)
  BY DEF ProofsOf, NowOf
<1>2. S' = NowOf(proofs', i)
  BY DEF ProofsOf, NowOf
<1>3. ApprovedTotal(i) = Total(proofs, S) /\ ApprovedTotal(i)' = Total(proofs', S')
  BY DEF ApprovedTotal, Credit, Total, MapThenSumSet, MapThenFoldSet
<1> HIDE DEF S
<1> QED
  BY <1>1, <1>2, <1>3

\* They are finitely many and have natural amounts.
LEMMA NowType ==
  ASSUME TypeOK, IsFiniteSet({p \in Proof : Exists(p)}), NEW i \in Invoice
  PROVE  /\ IsFiniteSet(NowOf(proofs, i))
         /\ \A p \in NowOf(proofs, i) : proofs[p].amount \in Nat
         /\ ApprovedTotal(i) \in Nat
<1>1. NowOf(proofs, i) \subseteq ProofsOf(i)
  BY DEF NowOf, ProofsOf
<1>2. /\ IsFiniteSet(NowOf(proofs, i))
      /\ \A p \in NowOf(proofs, i) : proofs[p].amount \in Nat
  BY <1>1, ApprovedType
<1>3. Total(proofs, NowOf(proofs, i)) \in Nat
  BY <1>2, TotalType
<1> QED
  BY <1>2, <1>3, TotalNow

\* A step that approves nothing of an invoice adds nothing to its total.
LEMMA TotalShrinks ==
  ASSUME TypeOK, IsFiniteSet({p \in Proof : Exists(p)}), NEW i \in Invoice,
         \A p \in Proof : proofs'[p].inv = i /\ proofs'[p].status = "disetujui" =>
           /\ proofs[p].inv = i
           /\ proofs[p].status = "disetujui"
           /\ proofs'[p].amount = proofs[p].amount
  PROVE  /\ ApprovedTotal(i) \in Nat
         /\ ApprovedTotal(i)' \in Nat
         /\ ApprovedTotal(i)' <= ApprovedTotal(i)
<1> DEFINE S == NowOf(proofs, i)
           T == NowOf(proofs', i)
<1>1. T \subseteq S /\ \A p \in T : proofs[p].amount = proofs'[p].amount
  BY DEF NowOf
<1>2. IsFiniteSet(S) /\ \A p \in S : proofs[p].amount \in Nat
  BY NowType
<1>3. ApprovedTotal(i) = Total(proofs, S) /\ ApprovedTotal(i)' = Total(proofs', T)
  BY TotalNow
<1> HIDE DEF S, T
<1>4. IsFiniteSet(T) /\ \A p \in T : proofs[p].amount \in Nat
  BY <1>1, <1>2, FS_Subset
<1>5. Total(proofs, T) = Total(proofs', T)
  BY <1>1, <1>4, TotalSame
<1>6. Total(proofs, T) <= Total(proofs, S)
  BY <1>1, <1>2, TotalGrows
<1>7. Total(proofs, T) \in Nat /\ Total(proofs, S) \in Nat
  BY <1>2, <1>4, TotalType
<1> QED
  BY <1>3, <1>5, <1>6, <1>7

\* A step of the only handler that writes no proof.
LEMMA SerialMove ==
  ASSUME OneHandler, TypeInv, CoverInv, SerialInv, proofs' = proofs,
         NEW r \in Request, SerialTask(task[r])',
         \A i \in Invoice : status[i] = "lunas" =>
           status'[i] = "lunas" \/ ApprovedTotal(i) < Amount[i],
         \A i \in Invoice : Settling(task[r], i) =>
           \/ Settling(task'[r], i)
           \/ status'[i] = "lunas"
           \/ ApprovedTotal(i) < Amount[i]
  PROVE  SerialInv'
<1>t. TypeOK /\ IsFiniteSet({p \in Proof : Exists(p)})
  BY DEF TypeInv, CoverInv
<1>1. \A i \in Invoice : /\ ApprovedTotal(i)' = ApprovedTotal(i)
                         /\ ApprovedTotal(i) \in Nat
                         /\ Amount[i] \in Nat
  BY <1>t, TotalNow, NowType, InvoiceAssumption
<1>2. ASSUME NEW i \in Invoice, ApprovedTotal(i)' >= Amount[i]
      PROVE  status'[i] = "lunas" \/ \E q \in Request : Settling(task'[q], i)
  <2>1. ApprovedTotal(i) >= Amount[i] /\ ~ ApprovedTotal(i) < Amount[i]
    BY <1>1, <1>2
  <2>2. status[i] = "lunas" \/ \E q \in Request : Settling(task[q], i)
    BY <2>1 DEF SerialInv
  <2>3. status[i] = "lunas" \/ Settling(task[r], i)
    BY <2>2 DEF OneHandler
  <2> QED
    BY <2>1, <2>3
<1>3. \A q \in Request : SerialTask(task[q])'
  BY DEF OneHandler
<1>4. \A i \in Invoice : ApprovedTotal(i)' >= Amount[i] =>
        status'[i] = "lunas" \/ \E q \in Request : Settling(task'[q], i)
  BY <1>2
<1> QED
  BY <1>3, <1>4 DEF SerialInv, Settling

\* A step beside the handlers, which may take an approval away.
LEMMA SerialBeside ==
  ASSUME TypeInv, CoverInv, SerialInv, UNCHANGED <<status, task>>,
         \A p \in Proof : /\ proofs'[p].inv = proofs[p].inv
                          /\ proofs'[p].amount = proofs[p].amount
                          /\ proofs'[p].status = "disetujui" => proofs[p].status = "disetujui"
  PROVE  SerialInv'
<1>t. TypeOK /\ IsFiniteSet({p \in Proof : Exists(p)})
  BY DEF TypeInv, CoverInv
<1>1. \A i \in Invoice : /\ ApprovedTotal(i) \in Nat
                         /\ ApprovedTotal(i)' \in Nat
                         /\ ApprovedTotal(i)' <= ApprovedTotal(i)
                         /\ Amount[i] \in Nat
  BY <1>t, TotalShrinks, InvoiceAssumption
<1>2. \A i \in Invoice : ApprovedTotal(i)' >= Amount[i] =>
        status'[i] = "lunas" \/ \E q \in Request : Settling(task'[q], i)
  <2> SUFFICES ASSUME NEW i \in Invoice, ApprovedTotal(i)' >= Amount[i]
               PROVE  status[i] = "lunas" \/ \E q \in Request : Settling(task[q], i)
    OBVIOUS
  <2>1. ApprovedTotal(i) >= Amount[i]
    BY <1>1
  <2> QED
    BY <2>1 DEF SerialInv
<1>3. ASSUME NEW r \in Request
      PROVE  SerialTask(task[r])'
  <2>1. SerialTask(task[r])
    BY DEF SerialInv
  <2>2. task'[r] = task[r]
    OBVIOUS
  <2>3. CASE task[r].pc = "idle"
    BY <2>2, <2>3 DEF SerialTask
  <2>4. CASE task[r].pc # "idle"
    <3> DEFINE j == task[r].inv
    <3>1. j \in Invoice /\ task[r].gross \in Nat
      BY <1>t, <2>4 DEF TypeInv, GoodTask, TypeOK, Task
    <3>2. task[r].pc = "approve" => task[r].proof \in Proof
      BY DEF TypeInv, GoodTask
    <3>3. /\ ApprovedTotal(j) \in Nat
          /\ ApprovedTotal(j)' \in Nat
          /\ ApprovedTotal(j)' <= ApprovedTotal(j)
          /\ Amount[j] \in Nat
      BY <1>1, <3>1
    <3>4. ApprovedTotal(j) < Amount[j] => ApprovedTotal(j)' < Amount[j]
      BY <3>3
    <3>5. ApprovedTotal(j) + task[r].gross < Amount[j]
            => ApprovedTotal(j)' + task[r].gross < Amount[j]
      BY <3>1, <3>3
    <3> QED
      BY <2>1, <2>2, <3>2, <3>4, <3>5 DEF SerialTask
  <2> QED
    BY <2>3, <2>4
<1> QED
  BY <1>2, <1>3 DEF SerialInv, Settling

\* A handler that starts reads the status as it is.
LEMMA SerialStart ==
  ASSUME OneHandler, TypeInv, CoverInv, SerialInv, UNCHANGED <<proofs, status>>,
         NEW r \in Request, task[r].pc = "idle",
         task'[r].seen = status[task'[r].inv],
         task'[r].pc = "mark" => status[task'[r].inv] = "diterbitkan",
         task'[r].pc = "approve" => proofs[task'[r].proof].inv = task'[r].inv,
         task'[r].pc \notin {"partial", "commit"}
  PROVE  SerialInv'
<1>1. SerialTask(task[r])'
  BY DEF SerialTask
<1>2. \A i \in Invoice : ~Settling(task[r], i)
  BY DEF Settling
<1> QED
  BY <1>1, <1>2, SerialMove

\* A handler that finishes elsewhere than in a settlement.
LEMMA SerialFinish ==
  ASSUME OneHandler, TypeInv, CoverInv, SerialInv, proofs' = proofs,
         NEW r \in Request, Finish(r), task[r].pc \notin {"list", "confirm"},
         \A i \in Invoice : status[i] = "lunas" =>
           status'[i] = "lunas" \/ ApprovedTotal(i) < Amount[i]
  PROVE  SerialInv'
<1>1. task'[r] = Idle
  BY FinishStep DEF TypeInv
<1>2. SerialTask(task[r])'
  BY <1>1 DEF SerialTask, Idle
<1>3. \A i \in Invoice : ~Settling(task[r], i)
  BY DEF Settling
<1> QED
  BY <1>2, <1>3, SerialMove

\* A new row that is not approved covers nothing.
LEMMA InsertSerial ==
  ASSUME OneHandler, TypeInv, LedgerInv, CoverInv, SerialInv, NEW r \in Request,
         InsertProof(r)
  PROVE  SerialInv'
<1>t. TypeOK /\ IsFiniteSet({p \in Proof : Exists(p)})
  BY DEF TypeInv, CoverInv
<1> DEFINE p == task[r].proof
<1>1. p \in Proof
  BY DEF InsertProof, At, LedgerInv, RowInv, Reserves
<1>2. /\ \A q \in Proof : q # p => proofs'[q] = proofs[q]
      /\ proofs'[p].status = "menunggu"
  BY <1>t, <1>1 DEF InsertProof, TypeOK
<1>3. \A i \in Invoice : /\ ApprovedTotal(i) \in Nat
                         /\ ApprovedTotal(i)' \in Nat
                         /\ ApprovedTotal(i)' <= ApprovedTotal(i)
                         /\ Amount[i] \in Nat
  BY <1>t, <1>2, TotalShrinks, InvoiceAssumption
<1>4. task[r].pc = "insert" /\ status' = status /\ task'[r] = Idle
  BY <1>t, FinishStep DEF InsertProof, At
<1>5. ASSUME NEW i \in Invoice, ApprovedTotal(i)' >= Amount[i]
      PROVE  status'[i] = "lunas"
  <2>1. ApprovedTotal(i) >= Amount[i]
    BY <1>3, <1>5
  <2>2. status[i] = "lunas" \/ \E q \in Request : Settling(task[q], i)
    BY <2>1 DEF SerialInv
  <2> QED
    BY <1>4, <2>2 DEF OneHandler, Settling
<1>6. SerialTask(task[r])'
  BY <1>4 DEF SerialTask, Idle
<1> QED
  BY <1>5, <1>6 DEF SerialInv, OneHandler

\* An approval adds to its own invoice, which it goes on to settle.
LEMMA ApproveSerial ==
  ASSUME OneHandler, TypeInv, CoverInv, SerialInv, NEW r \in Request, ApproveProof(r)
  PROVE  SerialInv'
<1>t. TypeOK /\ IsFiniteSet({p \in Proof : Exists(p)})
  BY DEF TypeInv, CoverInv
<1> DEFINE p == task[r].proof
           i == task[r].inv
<1>1. /\ p \in Proof
      /\ i \in Invoice
      /\ task[r].pc = "approve"
      /\ task[r].seen = status[i]
      /\ proofs[p].inv = i
  BY DEF ApproveProof, At, TypeInv, GoodTask, SerialInv, SerialTask
<1>2. \A q \in Proof : /\ proofs'[q].inv = proofs[q].inv
                       /\ q # p => proofs'[q] = proofs[q]
  BY <1>t, <1>1 DEF ApproveProof, TypeOK, ProofRow
<1>3. /\ task'[r].pc = "list"
      /\ task'[r].inv = i
      /\ task'[r].seen = task[r].seen
      /\ status' = status
  BY <1>t, GotoStep DEF ApproveProof, Labels
<1>4. ASSUME NEW j \in Invoice, ApprovedTotal(j)' >= Amount[j]
      PROVE  status'[j] = "lunas" \/ Settling(task'[r], j)
  <2>1. CASE j = i
    BY <1>3, <2>1 DEF Settling
  <2>2. CASE j # i
    <3>1. \A q \in Proof : proofs'[q].inv = j => proofs'[q] = proofs[q]
      BY <1>1, <1>2, <2>2
    <3>2. /\ ApprovedTotal(j) \in Nat
          /\ ApprovedTotal(j)' \in Nat
          /\ ApprovedTotal(j)' <= ApprovedTotal(j)
          /\ Amount[j] \in Nat
      BY <1>t, <3>1, TotalShrinks, InvoiceAssumption
    <3>3. ApprovedTotal(j) >= Amount[j]
      BY <1>4, <3>2
    <3>4. status[j] = "lunas" \/ \E q \in Request : Settling(task[q], j)
      BY <3>3 DEF SerialInv
    <3> QED
      BY <1>1, <1>3, <3>4 DEF OneHandler, Settling
  <2> QED
    BY <2>1, <2>2
<1>5. SerialTask(task[r])'
  BY <1>1, <1>3 DEF SerialTask
<1>6. \A j \in Invoice : ApprovedTotal(j)' >= Amount[j] =>
        status'[j] = "lunas" \/ \E q \in Request : Settling(task'[q], j)
  BY <1>4
<1>7. \A q \in Request : SerialTask(task[q])'
  BY <1>5 DEF OneHandler
<1> QED
  BY <1>6, <1>7 DEF SerialInv, Settling

\* A listing settles, records a part, or finds nothing to do.
LEMMA ListSerial ==
  ASSUME OneHandler, TypeInv, CoverInv, SerialInv, NEW r \in Request, ListProofs(r)
  PROVE  SerialInv'
<1>t. TypeOK /\ IsFiniteSet({p \in Proof : Exists(p)})
  BY DEF TypeInv, CoverInv
<1> DEFINE i == task[r].inv
           full == ApprovedTotal(i) >= Amount[i]
<1>1. /\ i \in Invoice
      /\ task[r].pc = "list"
      /\ task[r].seen = status[i]
  BY DEF ListProofs, At, TypeInv, GoodTask, SerialInv, SerialTask
<1>2. proofs' = proofs /\ status' = status
  BY DEF ListProofs, rows
<1>3. ApprovedTotal(i) \in Nat /\ Amount[i] \in Nat
  BY <1>t, <1>1, NowType, InvoiceAssumption
<1>4. ~full <=> ApprovedTotal(i) < Amount[i]
  BY <1>3
<1>5. \A j \in Invoice : Settling(task[r], j) => j = i
  BY DEF Settling
<1>6. CASE Finish(r) /\ (status[i] = "lunas" \/ ~full)
  <2>1. task'[r] = Idle
    BY <1>t, <1>6, FinishStep
  <2>2. SerialTask(task[r])'
    BY <2>1 DEF SerialTask, Idle
  <2>3. \A j \in Invoice : Settling(task[r], j) =>
          status'[j] = "lunas" \/ ApprovedTotal(j) < Amount[j]
    BY <1>2, <1>4, <1>5, <1>6
  <2> QED
    BY <1>2, <2>2, <2>3, SerialMove
<1>7. CASE Goto(r, "confirm")
  <2>1. task'[r].pc = "confirm" /\ task'[r].inv = i /\ task'[r].seen = task[r].seen
    BY <1>t, <1>7, GotoStep DEF Labels
  <2>2. SerialTask(task[r])'
    BY <1>1, <1>2, <2>1 DEF SerialTask
  <2>3. \A j \in Invoice : Settling(task[r], j) => Settling(task'[r], j)
    BY <1>5, <2>1 DEF Settling
  <2> QED
    BY <1>2, <2>2, <2>3, SerialMove
<1>8. CASE Goto(r, "partial") /\ ~full
  <2>1. task'[r].pc = "partial" /\ task'[r].inv = i /\ task'[r].seen = task[r].seen
    BY <1>t, <1>8, GotoStep DEF Labels
  <2>2. ApprovedTotal(i)' = ApprovedTotal(i)
    <3>1. \A j : ApprovedTotal(j)' = ApprovedTotal(j)
      BY <1>2, TotalNow
    <3> QED
      BY <2>1, <3>1 DEF ApprovedTotal, ProofsOf
  <2>3. SerialTask(task[r])'
    BY <1>1, <1>2, <1>4, <1>8, <2>1, <2>2 DEF SerialTask
  <2>4. \A j \in Invoice : Settling(task[r], j) => ApprovedTotal(j) < Amount[j]
    BY <1>4, <1>5, <1>8
  <2> QED
    BY <1>2, <2>3, <2>4, SerialMove
<1>9. \/ Finish(r) /\ (status[i] = "lunas" \/ ~full)
      \/ Goto(r, "confirm")
      \/ Goto(r, "partial") /\ ~full
  BY <1>1, <1>4, <1>3 DEF ListProofs
<1> QED
  BY <1>6, <1>7, <1>8, <1>9

\* A unit decides by the total its own amount would make.
LEMMA DecideSerial ==
  ASSUME OneHandler, TypeInv, CoverInv, SerialInv, NEW r \in Request, DecideSettlement(r)
  PROVE  SerialInv'
<1>t. TypeOK /\ IsFiniteSet({p \in Proof : Exists(p)})
  BY DEF TypeInv, CoverInv
<1>d. /\ task[r].pc = "decide"
      /\ task[r].inv \in Invoice
      /\ task[r].note \in Notification
      /\ task[r].seen = status[task[r].inv]
  BY DEF DecideSettlement, At, TypeInv, GoodTask, SerialInv, SerialTask
<1> DEFINE i == task[r].inv
           g == sessions[OrderOf[task[r].note.txn]].gross
           full == ApprovedTotal(i) + g >= Amount[i]
           w == IF full /\ task[r].seen # "lunas" THEN "lunas"
                ELSE IF ~full /\ task[r].seen # "dibayar" THEN "dibayar" ELSE Null
<1>1. proofs' = proofs /\ status' = status
  BY DEF DecideSettlement, rows
<1>2. /\ task'[r].pc = "commit"
      /\ task'[r].inv = i
      /\ task'[r].seen = task[r].seen
      /\ task'[r].gross = g
  BY <1>t, <1>d, DecideStep
<1>3. /\ g \in Nat
      /\ Amount[i] \in Nat
      /\ ApprovedTotal(i) \in Nat
  BY <1>t, <1>d, GatewayAssumption, InvoiceAssumption, NowType DEF TypeOK, Notification
<1>4. task'[r].write = w
  <2> HIDE DEF full, g
  <2>1. PICK p \in Proof :
          task' = [task EXCEPT ![r] =
                     [task[r] EXCEPT !.pc = "commit", !.proof = p, !.gross = g, !.write = w]]
    BY DEF DecideSettlement, g, full
  <2> HIDE DEF w
  <2> QED
    BY <1>t, <2>1 DEF TypeOK, Task
<1>5. \/ w = "lunas"
      \/ w = Null /\ task[r].seen = "lunas"
      \/ w # "lunas" /\ ~full
  BY NullAssumption DEF Statuses
<1>6. ~full => ApprovedTotal(i) + g < Amount[i]
  BY <1>3
<1>7. ApprovedTotal(i)' = ApprovedTotal(i)
  <2>1. \A j : ApprovedTotal(j)' = ApprovedTotal(j)
    BY <1>1, TotalNow
  <2> QED
    BY <1>2, <2>1 DEF ApprovedTotal, ProofsOf
<1> HIDE DEF w, full, g
<1>8. SerialTask(task[r])'
  BY <1>1, <1>2, <1>4, <1>5, <1>6, <1>7, <1>d DEF SerialTask
<1>9. \A j \in Invoice : ~Settling(task[r], j)
  BY <1>d DEF Settling
<1> QED
  BY <1>1, <1>8, <1>9, SerialMove

\* A commit adds the credit of its notification to the total of its invoice.
LEMMA CommitAdds ==
  ASSUME TypeInv, LedgerInv, CoverInv, NEW r \in Request, CommitUnit(r),
         Credits(task[r].note), NEW j \in Invoice, j = task[r].inv
  PROVE  ApprovedTotal(j)' = task[r].gross + ApprovedTotal(j)
<1>t. TypeOK /\ IsFiniteSet({p \in Proof : Exists(p)})
  BY DEF TypeInv, CoverInv
<1> DEFINE p == task[r].proof
           g == task[r].gross
<1>1. /\ p \in Proof
      /\ ~Exists(p)
      /\ \A q \in Proof : q # p => proofs'[q] = proofs[q]
  BY CommitFacts
<1>2. proofs'[p].inv = j /\ proofs'[p].amount = g /\ proofs'[p].status = "disetujui"
  <2>1. proofs' = [proofs EXCEPT ![p] = [inv |-> j, amount |-> g, txn |-> task[r].note.txn,
                                         status |-> "disetujui"]]
    BY DEF CommitUnit
  <2> HIDE DEF p, g
  <2> QED
    BY <1>t, <1>1, <2>1 DEF TypeOK
<1>3. g \in Nat
  BY <1>t DEF TypeOK, Task
<1> HIDE DEF p, g
<1> DEFINE S == NowOf(proofs, j)
           T == NowOf(proofs', j)
<1>4. p \notin S
  BY NullAssumption, <1>1 DEF NowOf, Exists
<1>5. T = S \cup {p}
  BY <1>1, <1>2, <1>4 DEF NowOf
<1>6. IsFiniteSet(S) /\ \A q \in S : q \in Proof /\ proofs[q].amount \in Nat
  <2>1. IsFiniteSet(S) /\ \A q \in S : proofs[q].amount \in Nat
    BY <1>t, NowType
  <2> QED
    BY <2>1 DEF NowOf
<1>7. ApprovedTotal(j) = Total(proofs, S) /\ ApprovedTotal(j)' = Total(proofs', T)
  BY TotalNow
<1> HIDE DEF S, T
<1>8. \A q \in S : proofs[q].amount = proofs'[q].amount
  BY <1>1, <1>4, <1>6
<1>9. IsFiniteSet(S \cup {p}) /\ \A q \in S \cup {p} : proofs'[q].amount \in Nat
  BY <1>2, <1>3, <1>6, <1>8, FS_AddElement
<1>10. Total(proofs', S \cup {p}) = proofs'[p].amount + Total(proofs', (S \cup {p}) \ {p})
  BY <1>9, TotalRemove
<1>11. (S \cup {p}) \ {p} = S
  BY <1>4
<1>12. Total(proofs, S) = Total(proofs', S)
  BY <1>6, <1>8, TotalSame
<1> QED
  BY <1>2, <1>5, <1>7, <1>10, <1>11, <1>12 DEF g

\* A commit that leaves its invoice short of lunas leaves it uncovered.
LEMMA CommitSerial ==
  ASSUME OneHandler, TypeInv, LedgerInv, CoverInv, SerialInv, NEW r \in Request,
         CommitUnit(r), Credits(task[r].note)
  PROVE  SerialInv'
<1>t. TypeOK /\ IsFiniteSet({p \in Proof : Exists(p)})
  BY DEF TypeInv, CoverInv
<1> DEFINE i == task[r].inv
           p == task[r].proof
           g == task[r].gross
           w == task[r].write
<1>1. /\ i \in Invoice
      /\ task[r].pc = "commit"
      /\ task[r].seen = status[i]
      /\ \/ w = "lunas"
         \/ w = Null /\ task[r].seen = "lunas"
         \/ w # "lunas" /\ ApprovedTotal(i) + g < Amount[i]
  BY DEF CommitUnit, At, TypeInv, GoodTask, SerialInv, SerialTask
<1>2. status' = IF w = Null THEN status ELSE [status EXCEPT ![i] = w]
  BY DEF CommitUnit
<1>3. task'[r] = Idle
  BY <1>t, FinishStep DEF CommitUnit
<1>4. /\ p \in Proof
      /\ ~Exists(p)
      /\ \A q \in Proof : q # p => proofs'[q] = proofs[q]
  BY CommitFacts
<1>5. proofs'[p].inv = i /\ proofs'[p].amount = g /\ proofs'[p].status = "disetujui"
  <2>1. proofs' = [proofs EXCEPT ![p] = [inv |-> i, amount |-> g, txn |-> task[r].note.txn,
                                         status |-> "disetujui"]]
    BY DEF CommitUnit
  <2> HIDE DEF p, g, i
  <2> QED
    BY <1>t, <1>4, <2>1 DEF TypeOK
<1>6. ApprovedTotal(i) \in Nat /\ g \in Nat /\ Amount[i] \in Nat
  BY <1>t, <1>1, NowType, InvoiceAssumption DEF TypeOK, Task
<1> HIDE DEF i, p, g, w
<1>7. ASSUME NEW j \in Invoice, j = i
      PROVE  ApprovedTotal(j)' = g + ApprovedTotal(j)
  BY <1>7, CommitAdds DEF i, g
<1>8. ASSUME NEW j \in Invoice, ApprovedTotal(j)' >= Amount[j]
      PROVE  status'[j] = "lunas"
  <2>1. CASE j = i
    <3>1. ApprovedTotal(j)' = g + ApprovedTotal(j)
      BY <1>7, <2>1
    <3>2. ~ ApprovedTotal(i) + g < Amount[i]
      BY <1>6, <1>8, <2>1, <3>1
    <3>3. w = "lunas" \/ (w = Null /\ status[i] = "lunas")
      BY <1>1, <3>2 DEF w, g, i
    <3> QED
        BY <1>t, <1>1, <1>2, <2>1, <3>3, NullAssumption DEF TypeOK, Statuses
  <2>2. CASE j # i
    <3>1. \A q \in Proof : proofs'[q].inv = j => proofs'[q] = proofs[q]
      BY <1>4, <1>5, <2>2
    <3>2. /\ ApprovedTotal(j) \in Nat
          /\ ApprovedTotal(j)' \in Nat
          /\ ApprovedTotal(j)' <= ApprovedTotal(j)
          /\ Amount[j] \in Nat
      BY <1>t, <3>1, TotalShrinks, InvoiceAssumption
    <3>3. ApprovedTotal(j) >= Amount[j]
      BY <1>8, <3>2
    <3>4. status[j] = "lunas" \/ \E q \in Request : Settling(task[q], j)
      BY <3>3 DEF SerialInv
    <3>5. status[j] = "lunas"
      BY <1>1, <3>4 DEF OneHandler, Settling
    <3> QED
      BY <1>t, <1>1, <1>2, <2>2, <3>5 DEF TypeOK
  <2> QED
    BY <2>1, <2>2
<1>9. SerialTask(task[r])'
  BY <1>3 DEF SerialTask, Idle
<1> QED
  BY <1>8, <1>9 DEF SerialInv, OneHandler

\* Every step of the only handler, or beside it, keeps SerialInv.
LEMMA SerialStep ==
  ASSUME OneHandler, DirectPayments, "list" \notin Fallible, "confirm" \notin Fallible
  PROVE  TypeInv /\ LedgerInv /\ CoverInv /\ AckInv /\ SerialInv /\ [Next]_vars
           => SerialInv'
<1> SUFFICES ASSUME TypeInv, LedgerInv, CoverInv, AckInv, SerialInv, [Next]_vars
             PROVE  SerialInv'
  OBVIOUS
<1>t. TypeOK /\ IsFiniteSet({p \in Proof : Exists(p)})
  BY DEF TypeInv, CoverInv
<1>c. \A i \in Invoice : Amount[i] \in Nat /\ ApprovedTotal(i) \in Nat
  BY <1>t, NowType, InvoiceAssumption
<1>1. ASSUME NEW r \in Request, NEW i \in Invoice, NEW p \in Receipt, NEW a \in Claim,
             StartUpload(r, i, p, a)
      PROVE  SerialInv'
  <2>1. task[r].pc = "idle" /\ UNCHANGED <<proofs, status>>
    BY <1>1 DEF StartUpload, Start, At, rows
  <2>2. /\ task'[r].pc = IF status[i] = "diterbitkan" THEN "mark" ELSE "insert"
        /\ task'[r].inv = i
        /\ task'[r].seen = status[task'[r].inv]
    BY <1>1, <1>t, StartUploadStep DEF Became
  <2> QED
    BY <2>1, <2>2, SerialStart
<1>2. ASSUME NEW r \in Request, NEW p \in Proof, StartApprove(r, p)
      PROVE  SerialInv'
  <2>1. task[r].pc = "idle" /\ UNCHANGED <<proofs, status>>
    BY <1>2 DEF StartApprove, Start, At, rows
  <2>2. /\ task'[r].pc = "approve"
        /\ task'[r].inv = proofs[p].inv
        /\ task'[r].proof = p
        /\ task'[r].seen = status[task'[r].inv]
    BY <1>2, <1>t, StartApproveStep DEF Became
  <2> QED
    BY <2>1, <2>2, SerialStart
<1>3. ASSUME NEW r \in Request, NEW i \in Invoice, StartConfirm(r, i)
      PROVE  SerialInv'
  <2>1. task[r].pc = "idle" /\ UNCHANGED <<proofs, status>>
    BY <1>3 DEF StartConfirm, Start, At, rows
  <2>2. task'[r].pc = "confirm" /\ task'[r].seen = status[task'[r].inv]
    BY <1>3, <1>t, StartConfirmStep DEF Became
  <2> QED
    BY <2>1, <2>2, SerialStart
<1>4. ASSUME NEW r \in Request, NEW i \in Invoice, StartPdf(r, i)
      PROVE  SerialInv'
  <2>1. task[r].pc = "idle" /\ UNCHANGED <<proofs, status>>
    BY <1>4 DEF StartPdf, Start, At, rows
  <2>2. task'[r].pc = "pdf" /\ task'[r].seen = status[task'[r].inv]
    BY <1>4, <1>t, StartPdfStep DEF Became
  <2> QED
    BY <2>1, <2>2, SerialStart
<1>5. ASSUME NEW r \in Request, NEW i \in Invoice, StartPayment(r, i)
      PROVE  SerialInv'
  <2>1. task[r].pc = "idle" /\ UNCHANGED <<proofs, status>>
    BY <1>5 DEF StartPayment, Start, At, rows
  <2>2. task'[r].pc = "session" /\ task'[r].seen = status[task'[r].inv]
    BY <1>5, <1>t, StartPaymentStep DEF Became
  <2> QED
    BY <2>1, <2>2, SerialStart
<1>6. ASSUME NEW r \in Request, NEW n \in Notification, ClaimNotification(r, n)
      PROVE  SerialInv'
  <2>1. task[r].pc = "idle" /\ UNCHANGED <<proofs, status>> /\ Credits(n)
    BY <1>6 DEF ClaimNotification, Start, At, rows, AckInv
  <2>2. task'[r].pc = "decide" /\ task'[r].seen = status[task'[r].inv]
    BY <1>6, <1>t, <2>1, ClaimNotificationStep DEF Became
  <2> QED
    BY <2>1, <2>2, SerialStart
<1>7. ASSUME NEW r \in Request, MarkAwaiting(r)
      PROVE  SerialInv'
  <2>1. /\ task[r].pc = "mark"
        /\ task[r].inv \in Invoice
        /\ status[task[r].inv] = "diterbitkan"
    BY <1>7 DEF MarkAwaiting, At, TypeInv, GoodTask, SerialInv, SerialTask
  <2>2. task'[r].pc = "insert"
    BY <1>7, <1>t, GotoStep DEF MarkAwaiting, Labels
  <2>3. /\ proofs' = proofs
        /\ \A i \in Invoice : status[i] = "lunas" => status'[i] = "lunas"
    BY <1>7, <1>t, <2>1 DEF MarkAwaiting, UpdateInvoice, TypeOK
  <2>4. SerialTask(task[r])' /\ \A i \in Invoice : ~Settling(task[r], i)
    BY <2>1, <2>2 DEF SerialTask, Settling
  <2> QED
    BY <2>3, <2>4, SerialMove
<1>8. ASSUME NEW r \in Request, InsertProof(r)
      PROVE  SerialInv'
  BY <1>8, InsertSerial
<1>9. ASSUME NEW p \in Proof, RejectProof(p)
      PROVE  SerialInv'
  <2>1. \A q \in Proof : /\ proofs'[q].inv = proofs[q].inv
                         /\ proofs'[q].amount = proofs[q].amount
                         /\ proofs'[q].status = "disetujui" => proofs[q].status = "disetujui"
    BY <1>9, <1>t DEF RejectProof, TypeOK, ProofRow
  <2> QED
    BY <1>9, <2>1, SerialBeside DEF RejectProof
<1>10. ASSUME NEW r \in Request, ApproveProof(r)
      PROVE  SerialInv'
  BY <1>10, ApproveSerial
<1>11. ASSUME NEW r \in Request, ListProofs(r)
      PROVE  SerialInv'
  BY <1>11, ListSerial
<1>12. ASSUME NEW r \in Request, MarkPartial(r)
      PROVE  SerialInv'
  <2>1. /\ task[r].pc = "partial"
        /\ task[r].inv \in Invoice
        /\ ApprovedTotal(task[r].inv) < Amount[task[r].inv]
    BY <1>12 DEF MarkPartial, At, TypeInv, GoodTask, SerialInv, SerialTask
  <2>2. /\ proofs' = proofs
        /\ Finish(r)
        /\ \A i \in Invoice : i # task[r].inv => status'[i] = status[i]
    BY <1>12, <1>t DEF MarkPartial, UpdateInvoice, TypeOK
  <2> QED
    BY <2>1, <2>2, SerialFinish
<1>13. ASSUME NEW r \in Request, ConfirmInvoice(r)
      PROVE  SerialInv'
  <2>1. task[r].pc = "confirm" /\ task[r].inv \in Invoice
    BY <1>13 DEF ConfirmInvoice, At, TypeInv, GoodTask
  <2>2. task'[r].pc = "activate"
    BY <1>13, <1>t, GotoStep DEF ConfirmInvoice, Labels
  <2>3. /\ proofs' = proofs
        /\ status'[task[r].inv] = "lunas"
        /\ \A i \in Invoice : status[i] = "lunas" => status'[i] = "lunas"
    BY <1>13, <1>t, <2>1 DEF ConfirmInvoice, TypeOK
  <2>4. SerialTask(task[r])'
    BY <2>2 DEF SerialTask
  <2>5. \A i \in Invoice : Settling(task[r], i) => status'[i] = "lunas"
    BY <2>3 DEF Settling
  <2> QED
    BY <2>3, <2>4, <2>5, SerialMove
<1>14. ASSUME NEW r \in Request,
              Activate(r) \/ (\E o \in Order : OpenSession(r, o)) \/ Die(r)
      PROVE  SerialInv'
  <2>1. Finish(r) /\ UNCHANGED <<proofs, status>>
    BY <1>14 DEF Activate, OpenSession, Die, rows
  <2>2. task[r].pc \notin {"list", "confirm"}
    BY <1>14 DEF Activate, OpenSession, Die, At
  <2> QED
    BY <2>1, <2>2, SerialFinish
<1>15. ASSUME NEW r \in Request, RecordPdf(r)
      PROVE  SerialInv'
  <2>1. task[r].pc = "pdf" /\ task[r].seen = status[task[r].inv]
    BY <1>15 DEF RecordPdf, At, SerialInv, SerialTask
  <2>2. /\ proofs' = proofs
        /\ Finish(r)
        /\ \A i \in Invoice : status'[i] = status[i]
    BY <1>15, <1>t, <2>1 DEF RecordPdf, UpdateInvoice, TypeOK
  <2> QED
    BY <2>1, <2>2, SerialFinish
<1>16. ASSUME NEW r \in Request, DecideSettlement(r)
      PROVE  SerialInv'
  BY <1>16, DecideSerial
<1>17. ASSUME NEW r \in Request, CommitUnit(r)
      PROVE  SerialInv'
  <2>1. Credits(task[r].note)
    BY <1>17, CommitFacts DEF AckInv
  <2> QED
    BY <1>17, <2>1, CommitSerial
<1>18. ASSUME NEW n \in Notification, AcknowledgeRedelivery(n)
      PROVE  SerialInv'
  BY <1>18, SerialBeside DEF AcknowledgeRedelivery, rows
<1>19. ASSUME NEW t \in Txn, NEW s \in Stages, Advance(t, s)
      PROVE  SerialInv'
  BY <1>19, SerialBeside DEF Advance, rows
<1>20. CASE UNCHANGED vars
  BY <1>20, SerialBeside DEF vars, rows
<1> QED
  BY <1>1, <1>2, <1>3, <1>4, <1>5, <1>6, <1>7, <1>8, <1>9, <1>10, <1>11, <1>12,
     <1>13, <1>14, <1>15, <1>16, <1>17, <1>18, <1>19, <1>20
  DEF Next, Handle, Deliver

\* Nothing is approved at the start.
LEMMA NothingCovered == Init => \A i \in Invoice : ~ ApprovedTotal(i) >= Amount[i]
<1> SUFFICES ASSUME Init PROVE \A i \in Invoice : ~ ApprovedTotal(i) >= Amount[i]
  OBVIOUS
<1>1. \A i \in Invoice : NowOf(proofs, i) = {}
  BY DEF Init, NoProof, NowOf
<1>2. \A i \in Invoice : ApprovedTotal(i) = 0
  BY <1>1, TotalNow, TotalChosen, FS_EmptySet
<1> QED
  BY <1>2, InvoiceAssumption

\* With one handler at a time, payments that report nothing before the money and
\* no death between the approval and the confirmation, an invoice whose approved
\* proofs cover it is lunas whenever the handler is done.
THEOREM CoveredInvoicesSettled ==
  ASSUME OneHandler, DirectPayments, "list" \notin Fallible, "confirm" \notin Fallible
  PROVE  Spec => []CoveredIsSettled
<1>1. Init => SerialInv
  <2>1. Init => \A r \in Request : SerialTask(task[r])
    BY DEF Init, Idle, SerialTask
  <2> QED
    BY <2>1, NothingCovered DEF SerialInv
<1>2. Init => AckInv
  BY DEF Init, AckInv
<1>3. TypeInv /\ LedgerInv /\ AckInv /\ [Next]_vars => AckInv'
  BY AckStep
<1>4. TypeInv /\ LedgerInv /\ CoverInv /\ AckInv /\ SerialInv /\ [Next]_vars => SerialInv'
  BY SerialStep
<1>5. SerialInv => CoveredIsSettled
  BY DEF SerialInv, CoveredIsSettled, Quiet, At, Settling
<1> QED
  BY TypeInit, TypeStep, LedgerInit, LedgerStep, CoverInit, CoverStep,
     <1>1, <1>2, <1>3, <1>4, <1>5, PTL DEF Spec

-----------------------------------------------------------------------------
(* Any number of handlers: as long as nobody rejects a proof, what covers  *)
(* an invoice settles it.  A payment session asks for the whole balance    *)
(* and approvals only add to it, so a credit of the gateway always finds   *)
(* its invoice covered; nothing is assumed of the payment methods.         *)

\* With g more, the approved proofs of invoice i cover it.
Covers(i, g) == ApprovedTotal(i) + g >= Amount[i]

BalanceTask(t) ==
  /\ t.pc = "session" => Covers(t.inv, t.gross)
  /\ t.pc = "approve" => proofs[t.proof].inv = t.inv
  /\ t.pc = "commit" /\ Credits(t.note) =>
       t.write = "lunas" \/ (t.write = Null /\ t.seen = "lunas")

BalanceInv ==
  /\ \A o \in Order : sessions[o].inv # Null =>
       Covers(sessions[o].inv, sessions[o].gross)
  /\ \A r \in Request : BalanceTask(task[r])

\* An invoice whose approved proofs cover it was lunas, or the approval that
\* covered it is on its way to make it so.
CoveredWasSettled ==
  \A i \in Invoice : ApprovedTotal(i) >= Amount[i] =>
    i \in settledEver \/ \E r \in Request : Settling(task[r], i)

\* Rows keep what they are, and approved rows stay approved.
ApprovalsStay ==
  \A p \in Proof : Exists(p) =>
    /\ proofs'[p].inv = proofs[p].inv
    /\ proofs'[p].amount = proofs[p].amount
    /\ proofs[p].status = "disetujui" => proofs'[p].status = "disetujui"

\* Then the total of an invoice does not fall.
LEMMA TotalHolds ==
  ASSUME TypeInv, TypeInv', CoverInv, CoverInv', ApprovalsStay, NEW i \in Invoice
  PROVE  /\ ApprovedTotal(i) \in Nat
         /\ ApprovedTotal(i)' \in Nat
         /\ ApprovedTotal(i) <= ApprovedTotal(i)'
<1> DEFINE S == NowOf(proofs, i)
           T == NowOf(proofs', i)
<1>1. S \subseteq T /\ \A p \in S : proofs[p].amount = proofs'[p].amount
  BY NullAssumption DEF ApprovalsStay, NowOf, Exists
<1>2. IsFiniteSet(S) /\ \A p \in S : proofs[p].amount \in Nat
  BY NowType DEF TypeInv, CoverInv
<1>3. IsFiniteSet(T) /\ \A p \in T : proofs'[p].amount \in Nat
  <2>1. TypeOK' /\ IsFiniteSet({p \in Proof : proofs'[p].inv # Null})
    BY DEF TypeInv, CoverInv, Exists
  <2>2. T \subseteq {p \in Proof : proofs'[p].inv # Null}
    BY NullAssumption DEF NowOf
  <2>3. \A p \in Proof : proofs'[p].amount \in Nat
    BY <2>1 DEF TypeOK, ProofRow
  <2> QED
    BY <2>1, <2>2, <2>3, FS_Subset DEF NowOf
<1>4. ApprovedTotal(i) = Total(proofs, S) /\ ApprovedTotal(i)' = Total(proofs', T)
  BY TotalNow
<1> HIDE DEF S, T
<1>5. Total(proofs, S) = Total(proofs', S)
  BY <1>1, <1>2, TotalSame
<1>6. Total(proofs', S) <= Total(proofs', T)
  BY <1>1, <1>3, TotalGrows
<1>7. Total(proofs, S) \in Nat /\ Total(proofs', T) \in Nat
  BY <1>2, <1>3, TotalType
<1> QED
  BY <1>4, <1>5, <1>6, <1>7

\* Nothing but a rejection takes an approval away.
LEMMA ApprovalsStep ==
  ASSUME "reject" \notin Desk, TypeInv, LedgerInv, [Next]_vars
  PROVE  ApprovalsStay
<1>t. TypeOK
  BY DEF TypeInv
<1>1. CASE proofs' = proofs
  BY <1>1 DEF ApprovalsStay
<1>2. ASSUME NEW r \in Request, InsertProof(r)
      PROVE  ApprovalsStay
  <2>1. ~Exists(task[r].proof)
    BY <1>2 DEF InsertProof, At, LedgerInv, RowInv, Reserves
  <2> QED
    BY <1>2, <1>t, <2>1 DEF InsertProof, ApprovalsStay, TypeOK
<1>3. ASSUME NEW r \in Request, ApproveProof(r)
      PROVE  ApprovalsStay
  BY <1>3, <1>t DEF ApproveProof, ApprovalsStay, TypeOK, ProofRow
<1>4. ASSUME NEW r \in Request, CommitUnit(r)
      PROVE  ApprovalsStay
  <2>1. \/ proofs' = proofs
        \/ /\ ~Exists(task[r].proof)
           /\ \A q \in Proof : q # task[r].proof => proofs'[q] = proofs[q]
    BY <1>4, CommitFacts
  <2> QED
    BY <2>1 DEF ApprovalsStay
<1>5. ASSUME NEW r \in Request,
             \/ MarkAwaiting(r)
             \/ ListProofs(r)
             \/ MarkPartial(r)
             \/ ConfirmInvoice(r)
             \/ Activate(r)
             \/ RecordPdf(r)
             \/ \E o \in Order : OpenSession(r, o)
             \/ DecideSettlement(r)
             \/ Die(r)
      PROVE  proofs' = proofs
  BY <1>5 DEF MarkAwaiting, ListProofs, MarkPartial, ConfirmInvoice, Activate, RecordPdf,
              OpenSession, DecideSettlement, Die, rows
<1>6. ASSUME NEW r \in Request, NEW i \in Invoice,
             \/ \E p \in Receipt, a \in Claim : StartUpload(r, i, p, a)
             \/ StartConfirm(r, i)
             \/ StartPdf(r, i)
             \/ StartPayment(r, i)
      PROVE  proofs' = proofs
  BY <1>6 DEF StartUpload, StartConfirm, StartPdf, StartPayment, rows
<1>7. ASSUME NEW r \in Request, NEW p \in Proof, StartApprove(r, p)
      PROVE  proofs' = proofs
  BY <1>7 DEF StartApprove, rows
<1>8. ASSUME NEW n \in Notification, Deliver(n)
      PROVE  proofs' = proofs
  BY <1>8 DEF Deliver, ClaimNotification, AcknowledgeRedelivery, rows
<1>9. ASSUME NEW t \in Txn, NEW s \in Stages, Advance(t, s)
      PROVE  proofs' = proofs
  BY <1>9 DEF Advance, rows
<1>10. ASSUME NEW p \in Proof, RejectProof(p)
       PROVE  FALSE
  BY <1>10 DEF RejectProof
<1>11. UNCHANGED vars => proofs' = proofs
  BY DEF vars, rows
<1> QED
  BY <1>1, <1>2, <1>3, <1>4, <1>5, <1>6, <1>7, <1>8, <1>9, <1>10, <1>11 DEF Next, Handle

\* What covered an invoice covers it still.
LEMMA CoversStay ==
  ASSUME TypeInv, TypeInv', CoverInv, CoverInv', ApprovalsStay,
         NEW i \in Invoice, NEW g \in Nat, Covers(i, g)
  PROVE  ApprovedTotal(i)' + g >= Amount[i]
<1>1. /\ ApprovedTotal(i) \in Nat
      /\ ApprovedTotal(i)' \in Nat
      /\ ApprovedTotal(i) <= ApprovedTotal(i)'
      /\ Amount[i] \in Nat
  BY TotalHolds, InvoiceAssumption
<1> QED
  BY <1>1 DEF Covers

\* A step that opens only sessions for the balance and whose handlers account
\* for it keeps BalanceInv.
LEMMA BalanceKept ==
  ASSUME TypeInv, TypeInv', CoverInv, CoverInv', BalanceInv, ApprovalsStay,
         \A o \in Order : \/ sessions'[o] = sessions[o]
                          \/ Covers(sessions[o].inv, sessions[o].gross)',
         \A r \in Request : task'[r] = task[r] \/ BalanceTask(task[r])'
  PROVE  BalanceInv'
<1>1. ASSUME NEW o \in Order, sessions'[o].inv # Null
      PROVE  Covers(sessions[o].inv, sessions[o].gross)'
  <2>1. CASE sessions'[o] = sessions[o]
    <3> DEFINE i == sessions[o].inv
               g == sessions[o].gross
    <3>1. i \in Invoice /\ g \in Nat /\ Covers(i, g)
      BY <1>1, <2>1 DEF TypeInv, TypeOK, BalanceInv
    <3>2. ApprovedTotal(i)' + g >= Amount[i]
      <4> HIDE DEF i, g
      <4>1. \A j \in Invoice : Covers(j, g) => ApprovedTotal(j)' + g >= Amount[j]
        BY <3>1, CoversStay
      <4>2. \A j \in Invoice : j = i' => ApprovedTotal(j)' = ApprovedTotal(i)'
        BY DEF ApprovedTotal, ProofsOf
      <4> QED
        BY <3>1, <4>1, <4>2, <2>1 DEF i
    <3> QED
      BY <2>1, <3>2 DEF Covers
  <2> QED
    BY <1>1, <2>1
<1>2. ASSUME NEW r \in Request
      PROVE  BalanceTask(task[r])'
  <2>1. CASE task'[r] = task[r]
    <3> DEFINE t == task[r]
    <3>1. BalanceTask(t)
      BY DEF BalanceInv
    <3>2. t.pc # "idle" => t.inv \in Invoice
      BY DEF TypeInv, GoodTask
    <3>3. t.gross \in Nat
      BY DEF TypeInv, TypeOK, Task
    <3>4. t.pc = "session" => Covers(t.inv, t.gross)'
      <4>1. \A j \in Invoice : Covers(j, t.gross) => ApprovedTotal(j)' + t.gross >= Amount[j]
        BY <3>3, CoversStay
      <4>2. \A j \in Invoice : j = task'[r].inv => ApprovedTotal(j)' = ApprovedTotal(task[r].inv)'
        BY DEF ApprovedTotal, ProofsOf
      <4> QED
        BY <2>1, <3>1, <3>2, <4>1, <4>2 DEF BalanceTask, Covers
    <3>5. t.pc = "approve" => t.proof \in Proof /\ proofs[t.proof].inv # Null
      BY <3>1, <3>2, NullAssumption DEF BalanceTask, TypeInv, GoodTask
    <3> QED
      BY <2>1, <3>1, <3>4, <3>5 DEF BalanceTask, ApprovalsStay, Exists
  <2> QED
    BY <2>1
<1> QED
  BY <1>1, <1>2 DEF BalanceInv

\* A handler elsewhere has nothing to account for.
LEMMA BalanceElsewhere ==
  ASSUME TypeInv, TypeInv', CoverInv, CoverInv', BalanceInv, ApprovalsStay,
         sessions' = sessions, NEW r \in Request,
         \A q \in Request : q # r => task'[q] = task[q],
         task'[r].pc \notin {"session", "approve", "commit"}
  PROVE  BalanceInv'
<1>1. BalanceTask(task[r])'
  BY DEF BalanceTask
<1>2. \A q \in Request : task'[q] = task[q] \/ BalanceTask(task[q])'
  BY <1>1
<1> QED
  BY <1>2, BalanceKept

\* A payment session asks for what the approved proofs leave open.
LEMMA PaymentBalance ==
  ASSUME TypeInv, TypeInv', CoverInv, CoverInv', BalanceInv, ApprovalsStay,
         NEW r \in Request, NEW i \in Invoice, StartPayment(r, i)
  PROVE  BalanceInv'
<1>t. TypeOK
  BY DEF TypeInv
<1>1. PICK g \in 1..Amount[i] :
        /\ ApprovedTotal(i) + g = Amount[i]
        /\ Start(r, [Read(i, "session") EXCEPT !.gross = g])
  BY DEF StartPayment
<1>2. g \in Nat /\ Amount[i] \in Nat /\ proofs' = proofs /\ sessions' = sessions
  BY InvoiceAssumption DEF StartPayment, rows
<1> DEFINE u == Read(i, "session")
<1>u. u \in Task /\ u.pc = "session" /\ u.inv = i
  BY <1>t, ReadType DEF Labels
<1> HIDE DEF u
<1> DEFINE t == [u EXCEPT !.gross = g]
<1>3. t \in Task /\ t.pc = "session" /\ t.inv = i /\ t.gross = g
  BY <1>u, <1>2 DEF Task
<1>4. Start(r, t)
  BY <1>1 DEF t, u
<1> HIDE DEF t
<1>5. \A q \in Request : task'[q] = IF q = r THEN t ELSE task[q]
  BY <1>t, <1>3, <1>4, StartStep
<1>6. ApprovedTotal(i)' + g >= Amount[i]
  <2>1. ApprovedTotal(i)' = ApprovedTotal(i)
    BY <1>2, TotalNow
  <2> QED
    BY <1>1, <1>2, <2>1
<1>7. Covers(task[r].inv, task[r].gross)'
  <2>1. task'[r].inv = i /\ task'[r].gross = g
    BY <1>3, <1>5
  <2>2. ApprovedTotal(task[r].inv)' = ApprovedTotal(i)'
    BY <2>1 DEF ApprovedTotal, ProofsOf
  <2> QED
    BY <1>6, <2>1, <2>2 DEF Covers
<1>8. BalanceTask(task[r])'
  BY <1>3, <1>5, <1>7 DEF BalanceTask
<1>9. \A q \in Request : task'[q] = task[q] \/ BalanceTask(task[q])'
  BY <1>5, <1>8
<1> QED
  BY <1>2, <1>9, BalanceKept

\* The session is recorded with the balance it was opened for.
LEMMA OpenBalance ==
  ASSUME TypeInv, TypeInv', CoverInv, CoverInv', BalanceInv, ApprovalsStay,
         NEW r \in Request, NEW o \in Order, OpenSession(r, o)
  PROVE  BalanceInv'
<1>t. TypeOK
  BY DEF TypeInv
<1>1. \A q \in Request : task'[q] = IF q = r THEN Idle ELSE task[q]
  BY <1>t, FinishStep DEF OpenSession
<1>2. \A q \in Request : task'[q] = task[q] \/ BalanceTask(task[q])'
  BY <1>1 DEF BalanceTask, Idle
<1>3. /\ \A x \in Order : x # o => sessions'[x] = sessions[x]
      /\ sessions'[o].inv = task[r].inv
      /\ sessions'[o].gross = task[r].gross
      /\ task[r].pc = "session"
      /\ proofs' = proofs
  BY <1>t DEF OpenSession, TypeOK, At
<1>4. Covers(task[r].inv, task[r].gross)
  BY <1>3 DEF BalanceInv, BalanceTask
<1>5. Covers(sessions[o].inv, sessions[o].gross)'
  <2>1. \A j : ApprovedTotal(j)' = ApprovedTotal(j)
    BY <1>3, TotalNow
  <2>2. \A j : j = sessions'[o].inv => ApprovedTotal(sessions[o].inv)' = ApprovedTotal(j)'
    BY DEF ApprovedTotal, ProofsOf
  <2> QED
    BY <1>3, <1>4, <2>1, <2>2 DEF Covers
<1>6. \A x \in Order : \/ sessions'[x] = sessions[x]
                       \/ Covers(sessions[x].inv, sessions[x].gross)'
  BY <1>3, <1>5
<1> QED
  BY <1>2, <1>6, BalanceKept

\* A unit that credits finds its invoice covered.
LEMMA DecideBalance ==
  ASSUME TypeInv, TypeInv', LedgerInv, CoverInv, CoverInv', BalanceInv, ApprovalsStay,
         NEW r \in Request, DecideSettlement(r)
  PROVE  BalanceInv'
<1>t. TypeOK
  BY DEF TypeInv
<1> DEFINE n == task[r].note
           i == task[r].inv
           g == sessions[OrderOf[n.txn]].gross
           full == ApprovedTotal(i) + g >= Amount[i]
           w == IF full /\ task[r].seen # "lunas" THEN "lunas"
                ELSE IF ~full /\ task[r].seen # "dibayar" THEN "dibayar" ELSE Null
<1>1. /\ task[r].pc = "decide"
      /\ i \in Invoice
      /\ n \in Notification
      /\ i = sessions[OrderOf[n.txn]].inv
  BY DEF DecideSettlement, At, TypeInv, GoodTask, LedgerInv, UnitInv, GoodUnit
<1>2. full
  <2>1. OrderOf[n.txn] \in Order /\ i # Null
    BY <1>1, GatewayAssumption, NullAssumption DEF Notification
  <2> QED
    BY <1>1, <2>1 DEF BalanceInv, Covers
<1>3. task'[r].write = w
  <2> HIDE DEF full, g
  <2>1. PICK p \in Proof :
          task' = [task EXCEPT ![r] =
                     [task[r] EXCEPT !.pc = "commit", !.proof = p, !.gross = g, !.write = w]]
    BY DEF DecideSettlement, g, full
  <2> HIDE DEF w
  <2> QED
    BY <1>t, <2>1 DEF TypeOK, Task
<1>4. w = "lunas" \/ (w = Null /\ task[r].seen = "lunas")
  BY <1>2
<1> HIDE DEF w, full, g
<1>5. /\ \A q \in Request : q # r => task'[q] = task[q]
      /\ task'[r].pc = "commit"
      /\ task'[r].seen = task[r].seen
  BY <1>t, <1>1, DecideStep
<1>6. BalanceTask(task[r])'
  BY <1>3, <1>4, <1>5 DEF BalanceTask
<1>7. \A q \in Request : task'[q] = task[q] \/ BalanceTask(task[q])'
  BY <1>5, <1>6
<1>8. sessions' = sessions
  BY DEF DecideSettlement, rows
<1> QED
  BY <1>7, <1>8, BalanceKept

\* Every step of every handler keeps the sessions at the balance or above.
LEMMA BalanceStep ==
  ASSUME "reject" \notin Desk
  PROVE  TypeInv /\ LedgerInv /\ CoverInv /\ BalanceInv /\ [Next]_vars => BalanceInv'
<1> SUFFICES ASSUME TypeInv, LedgerInv, CoverInv, BalanceInv, [Next]_vars
             PROVE  BalanceInv'
  OBVIOUS
<1>t. TypeOK /\ TypeInv' /\ CoverInv' /\ ApprovalsStay
  BY TypeStep, CoverStep, ApprovalsStep DEF TypeInv
<1>1. ASSUME NEW r \in Request, NEW i \in Invoice,
             \/ \E p \in Receipt, a \in Claim : StartUpload(r, i, p, a)
             \/ StartConfirm(r, i)
             \/ StartPdf(r, i)
      PROVE  BalanceInv'
  <2>1. /\ \A q \in Request : q # r => task'[q] = task[q]
        /\ task'[r].pc \in {"mark", "insert", "confirm", "pdf"}
    BY <1>1, <1>t, StartUploadStep, StartConfirmStep, StartPdfStep DEF Became
  <2>2. sessions' = sessions
    BY <1>1 DEF StartUpload, StartConfirm, StartPdf, rows
  <2> QED
    BY <1>t, <2>1, <2>2, BalanceElsewhere
<1>2. ASSUME NEW r \in Request, NEW i \in Invoice, StartPayment(r, i)
      PROVE  BalanceInv'
  BY <1>2, <1>t, PaymentBalance
<1>3. ASSUME NEW r \in Request, NEW p \in Proof, StartApprove(r, p)
      PROVE  BalanceInv'
  <2>1. /\ \A q \in Request : q # r => task'[q] = task[q]
        /\ task'[r].pc = "approve"
        /\ task'[r].inv = proofs[p].inv
        /\ task'[r].proof = p
    BY <1>3, <1>t, StartApproveStep DEF Became
  <2>2. proofs' = proofs /\ sessions' = sessions
    BY <1>3 DEF StartApprove, rows
  <2>3. \A q \in Request : task'[q] = task[q] \/ BalanceTask(task[q])'
    BY <2>1, <2>2 DEF BalanceTask
  <2> QED
    BY <1>t, <2>2, <2>3, BalanceKept
<1>4. ASSUME NEW r \in Request, NEW n \in Notification, ClaimNotification(r, n)
      PROVE  BalanceInv'
  <2>1. /\ \A q \in Request : q # r => task'[q] = task[q]
        /\ task'[r].pc = IF Credits(n) THEN "decide" ELSE "commit"
        /\ task'[r].note = n
    BY <1>4, <1>t, ClaimNotificationStep DEF Became
  <2>2. \A q \in Request : task'[q] = task[q] \/ BalanceTask(task[q])'
    BY <2>1 DEF BalanceTask
  <2>3. sessions' = sessions
    BY <1>4 DEF ClaimNotification, rows
  <2> QED
    BY <1>t, <2>2, <2>3, BalanceKept
<1>5. ASSUME NEW r \in Request, NEW o \in Order, OpenSession(r, o)
      PROVE  BalanceInv'
  BY <1>5, <1>t, OpenBalance
<1>6. ASSUME NEW r \in Request, DecideSettlement(r)
      PROVE  BalanceInv'
  BY <1>6, <1>t, DecideBalance
<1>7. ASSUME NEW r \in Request,
             \/ MarkAwaiting(r)
             \/ ApproveProof(r)
             \/ ListProofs(r)
             \/ ConfirmInvoice(r)
      PROVE  BalanceInv'
  <2>1. \/ Finish(r)
        \/ \E l \in {"insert", "list", "confirm", "partial", "activate"} : Goto(r, l)
    BY <1>7 DEF MarkAwaiting, ApproveProof, ListProofs, ConfirmInvoice
  <2>2. /\ \A q \in Request : q # r => task'[q] = task[q]
        /\ task'[r].pc \notin {"session", "approve", "commit"}
    BY <1>t, <2>1, FinishStep, GotoStep DEF Labels, Idle
  <2>3. sessions' = sessions
    BY <1>7 DEF MarkAwaiting, ApproveProof, ListProofs, ConfirmInvoice, rows
  <2> QED
    BY <1>t, <2>2, <2>3, BalanceElsewhere
<1>8. ASSUME NEW r \in Request,
             \/ InsertProof(r)
             \/ MarkPartial(r)
             \/ Activate(r)
             \/ RecordPdf(r)
             \/ CommitUnit(r)
             \/ Die(r)
      PROVE  BalanceInv'
  <2>1. Finish(r) /\ sessions' = sessions
    BY <1>8 DEF InsertProof, MarkPartial, Activate, RecordPdf, CommitUnit, Die, rows
  <2>2. /\ \A q \in Request : q # r => task'[q] = task[q]
        /\ task'[r].pc = "idle"
    BY <1>t, <2>1, FinishStep DEF Idle
  <2> QED
    BY <1>t, <2>1, <2>2, BalanceElsewhere
<1>9. CASE UNCHANGED <<sessions, task>>
  BY <1>9, <1>t, BalanceKept
<1>10. ASSUME NEW p \in Proof, RejectProof(p)
       PROVE  BalanceInv'
  BY <1>10, <1>9 DEF RejectProof
<1>11. ASSUME NEW n \in Notification, AcknowledgeRedelivery(n)
       PROVE  BalanceInv'
  BY <1>11, <1>9 DEF AcknowledgeRedelivery, rows
<1>12. ASSUME NEW t \in Txn, NEW s \in Stages, Advance(t, s)
       PROVE  BalanceInv'
  BY <1>12, <1>9 DEF Advance, rows
<1>13. CASE UNCHANGED vars
  BY <1>13, <1>9 DEF vars, rows
<1> QED
  BY <1>1, <1>2, <1>3, <1>4, <1>5, <1>6, <1>7, <1>8, <1>10, <1>11, <1>12, <1>13
  DEF Next, Handle, Deliver

\* A step that adds no approval to an invoice and stops no approval on its way,
\* or one that settles it.
LEMMA CoveredKept ==
  ASSUME TypeInv, CoverInv, CoveredWasSettled, settledEver \subseteq settledEver',
         \A i \in Invoice :
           \/ i \in settledEver' \/ \E r \in Request : Settling(task'[r], i)
           \/ /\ \A p \in Proof : proofs'[p].inv = i /\ proofs'[p].status = "disetujui" =>
                   /\ proofs[p].inv = i
                   /\ proofs[p].status = "disetujui"
                   /\ proofs'[p].amount = proofs[p].amount
              /\ \A r \in Request : Settling(task[r], i) =>
                   Settling(task'[r], i) \/ ApprovedTotal(i) < Amount[i]
  PROVE  CoveredWasSettled'
<1> SUFFICES ASSUME NEW i \in Invoice, ApprovedTotal(i)' >= Amount[i]
             PROVE  i \in settledEver' \/ \E r \in Request : Settling(task'[r], i)
  BY DEF CoveredWasSettled, Settling
<1> SUFFICES ASSUME i \notin settledEver', ~ \E r \in Request : Settling(task'[r], i)
             PROVE  FALSE
  OBVIOUS
<1>1. /\ ApprovedTotal(i) \in Nat
      /\ ApprovedTotal(i)' \in Nat
      /\ ApprovedTotal(i)' <= ApprovedTotal(i)
      /\ Amount[i] \in Nat
  BY TotalShrinks, InvoiceAssumption DEF TypeInv, CoverInv
<1>2. ApprovedTotal(i) >= Amount[i] /\ ~ ApprovedTotal(i) < Amount[i]
  BY <1>1
<1>3. PICK r \in Request : Settling(task[r], i)
  BY <1>2 DEF CoveredWasSettled
<1> QED
  BY <1>2, <1>3

\* A step that writes no proof and moves no settlement.
LEMMA CoveredQuiet ==
  ASSUME TypeInv, CoverInv, CoveredWasSettled, proofs' = proofs,
         settledEver \subseteq settledEver',
         \A r \in Request : task'[r] = task[r] \/ task[r].pc \notin {"list", "confirm"}
  PROVE  CoveredWasSettled'
<1>1. \A r \in Request, i \in Invoice : Settling(task[r], i) => task'[r] = task[r]
  BY DEF Settling
<1> QED
  BY <1>1, CoveredKept

\* An approval, or a credit of the gateway, adds to one invoice only.
LEMMA AddedElsewhere ==
  ASSUME TypeInv, LedgerInv, NEW r \in Request, NEW i \in Invoice, i # task[r].inv,
         \/ InsertProof(r)
         \/ ApproveProof(r) /\ proofs[task[r].proof].inv = task[r].inv
         \/ CommitUnit(r)
  PROVE  \A p \in Proof : proofs'[p].inv = i /\ proofs'[p].status = "disetujui" =>
           /\ proofs[p].inv = i
           /\ proofs[p].status = "disetujui"
           /\ proofs'[p].amount = proofs[p].amount
<1>t. TypeOK
  BY DEF TypeInv
<1>1. CASE InsertProof(r)
  BY <1>1, <1>t DEF InsertProof, TypeOK
<1>2. CASE ApproveProof(r) /\ proofs[task[r].proof].inv = task[r].inv
  BY <1>2, <1>t DEF ApproveProof, TypeOK, ProofRow
<1>3. CASE CommitUnit(r)
  <2>1. \/ proofs' = proofs
        \/ /\ proofs'[task[r].proof].inv = task[r].inv
           /\ \A q \in Proof : q # task[r].proof => proofs'[q] = proofs[q]
    BY <1>3, CommitFacts DEF CommitUnit, At, LedgerInv, UnitInv, GoodUnit
  <2> QED
    BY <2>1
<1> QED
  BY <1>1, <1>2, <1>3

\* The approval that covers an invoice goes on to settle it; the credit that
\* does settles it in the same transaction.
LEMMA CoveredStep ==
  ASSUME "list" \notin Fallible, "confirm" \notin Fallible
  PROVE  TypeInv /\ PortalInv /\ LedgerInv /\ CoverInv /\ BalanceInv
           /\ CoveredWasSettled /\ [Next]_vars => CoveredWasSettled'
<1> SUFFICES ASSUME TypeInv, PortalInv, LedgerInv, CoverInv, BalanceInv,
                    CoveredWasSettled, [Next]_vars
             PROVE  CoveredWasSettled'
  OBVIOUS
<1>t. TypeOK
  BY DEF TypeInv
<1>1. ASSUME NEW r \in Request, NEW t, Start(r, t),
             proofs' = proofs, settledEver' = settledEver
      PROVE  CoveredWasSettled'
  <2>1. \A q \in Request : task'[q] = task[q] \/ task[q].pc = "idle"
    BY <1>1, <1>t DEF Start, At, TypeOK
  <2> QED
    BY <1>1, <2>1, CoveredQuiet
<1>2. ASSUME NEW r \in Request, NEW i \in Invoice,
             \/ \E p \in Receipt, a \in Claim : StartUpload(r, i, p, a)
             \/ StartConfirm(r, i)
             \/ StartPdf(r, i)
             \/ StartPayment(r, i)
      PROVE  CoveredWasSettled'
  <2>1. \E t : Start(r, t)
    BY <1>2 DEF StartUpload, StartConfirm, StartPdf, StartPayment
  <2>2. proofs' = proofs /\ settledEver' = settledEver
    BY <1>2 DEF StartUpload, StartConfirm, StartPdf, StartPayment, rows, history
  <2> QED
    BY <1>1, <2>1, <2>2
<1>3. ASSUME NEW r \in Request, NEW p \in Proof, StartApprove(r, p)
      PROVE  CoveredWasSettled'
  BY <1>1, <1>3 DEF StartApprove, rows, history
<1>4. ASSUME NEW r \in Request, NEW n \in Notification, ClaimNotification(r, n)
      PROVE  CoveredWasSettled'
  BY <1>1, <1>4 DEF ClaimNotification, rows, history
<1>5. ASSUME NEW r \in Request,
             \/ MarkAwaiting(r)
             \/ MarkPartial(r)
             \/ Activate(r)
             \/ RecordPdf(r)
             \/ \E o \in Order : OpenSession(r, o)
             \/ DecideSettlement(r)
             \/ Die(r)
      PROVE  CoveredWasSettled'
  <2>1. task[r].pc \notin {"list", "confirm"}
    BY <1>5 DEF MarkAwaiting, MarkPartial, Activate, RecordPdf, OpenSession,
                DecideSettlement, Die, At
  <2>2. \A q \in Request : q # r => task'[q] = task[q]
    <3>1. \E t : task' = [task EXCEPT ![r] = t]
      BY <1>5 DEF MarkAwaiting, MarkPartial, Activate, RecordPdf, OpenSession,
                  DecideSettlement, Die, Goto, Finish
    <3> QED
      BY <1>t, <3>1 DEF TypeOK
  <2>3. proofs' = proofs /\ settledEver' = settledEver
    BY <1>5 DEF MarkAwaiting, MarkPartial, Activate, RecordPdf, OpenSession,
                DecideSettlement, Die, rows, history
  <2> QED
    BY <2>1, <2>2, <2>3, CoveredQuiet
<1>6. ASSUME NEW r \in Request, InsertProof(r)
      PROVE  CoveredWasSettled'
  <2>1. /\ \A q \in Request : q # r => task'[q] = task[q]
        /\ task[r].pc = "insert"
        /\ settledEver' = settledEver
    BY <1>6, <1>t, FinishStep DEF InsertProof, At, history
  <2>2. \A p \in Proof : proofs'[p].status = "disetujui" => proofs'[p] = proofs[p]
    BY <1>6, <1>t DEF InsertProof, TypeOK
  <2>3. \A q \in Request, i \in Invoice : Settling(task[q], i) => Settling(task'[q], i)
    BY <2>1 DEF Settling
  <2> QED
    BY <2>1, <2>2, <2>3, CoveredKept
<1>7. ASSUME NEW r \in Request, ApproveProof(r)
      PROVE  CoveredWasSettled'
  <2>1. /\ \A q \in Request : q # r => task'[q] = task[q]
        /\ task[r].pc = "approve"
        /\ task'[r].pc = "list"
        /\ task'[r].inv = task[r].inv
        /\ settledEver' = settledEver
    BY <1>7, <1>t, GotoStep DEF ApproveProof, At, Labels
  <2>2. proofs[task[r].proof].inv = task[r].inv
    BY <2>1 DEF BalanceInv, BalanceTask
  <2>3. Settling(task'[r], task[r].inv)
    BY <2>1 DEF Settling
  <2>4. \A q \in Request, i \in Invoice : Settling(task[q], i) => Settling(task'[q], i)
    BY <2>1 DEF Settling
  <2> QED
    BY <1>7, <2>1, <2>2, <2>3, <2>4, AddedElsewhere, CoveredKept
<1>8. ASSUME NEW r \in Request, ListProofs(r)
      PROVE  CoveredWasSettled'
  <2> DEFINE i == task[r].inv
             full == ApprovedTotal(i) >= Amount[i]
  <2>1. /\ i \in Invoice
        /\ task[r].pc = "list"
        /\ task[r].seen = "lunas" => i \in settledEver
        /\ proofs' = proofs
        /\ settledEver' = settledEver
    BY <1>8 DEF ListProofs, At, TypeInv, GoodTask, PortalInv, SettledTask, rows
  <2>2. ~full => ApprovedTotal(i) < Amount[i]
    <3>1. ApprovedTotal(i) \in Nat /\ Amount[i] \in Nat
      BY <1>t, <2>1, NowType, InvoiceAssumption DEF CoverInv
    <3> QED
      BY <3>1
  <2>3. Goto(r, "confirm") \/ task[r].seen = "lunas" \/ ~full
    BY <1>8 DEF ListProofs
  <2>4. \A q \in Request : q # r => task'[q] = task[q]
    <3>1. \E t : task' = [task EXCEPT ![r] = t]
      BY <1>8 DEF ListProofs, Goto, Finish
    <3> QED
      BY <1>t, <3>1 DEF TypeOK
  <2>5. Goto(r, "confirm") => task'[r].pc = "confirm" /\ task'[r].inv = i
    BY <1>t, GotoStep DEF Labels
  <2> HIDE DEF i, full
  <2>6. Settling(task'[r], i) \/ i \in settledEver' \/ ApprovedTotal(i) < Amount[i]
    BY <2>1, <2>2, <2>3, <2>5 DEF Settling
  <2>7. \A j \in Invoice, q \in Request : Settling(task[q], j) => q # r \/ j = i
    BY DEF Settling, i
  <2>8. \A j \in Invoice : (j \in settledEver' \/ \E q \in Request : Settling(task'[q], j))
          \/ \A q \in Request : Settling(task[q], j) =>
               Settling(task'[q], j) \/ ApprovedTotal(j) < Amount[j]
    BY <2>4, <2>6, <2>7
  <2> QED
    BY <2>1, <2>8, CoveredKept
<1>9. ASSUME NEW r \in Request, ConfirmInvoice(r)
      PROVE  CoveredWasSettled'
  <2>1. /\ \A q \in Request : q # r => task'[q] = task[q]
        /\ settledEver' = settledEver \cup {task[r].inv}
        /\ proofs' = proofs
    BY <1>9, <1>t, GotoStep DEF ConfirmInvoice, Labels
  <2>2. \A q \in Request, i \in Invoice :
          Settling(task[q], i) => Settling(task'[q], i) \/ i \in settledEver'
    BY <2>1 DEF Settling
  <2>3. \A i \in Invoice : i \in settledEver'
          \/ \A q \in Request : Settling(task[q], i) => Settling(task'[q], i)
    BY <2>2
  <2> QED
    BY <2>1, <2>3, CoveredKept
<1>10. ASSUME NEW r \in Request, CommitUnit(r)
       PROVE  CoveredWasSettled'
  <2>1. /\ \A q \in Request : q # r => task'[q] = task[q]
        /\ task[r].pc = "commit"
        /\ settledEver \subseteq settledEver'
    BY <1>10, <1>t, FinishStep DEF CommitUnit, At
  <2>2. \A q \in Request, i \in Invoice : Settling(task[q], i) => Settling(task'[q], i)
    BY <2>1 DEF Settling
  <2>3. CASE Credits(task[r].note)
    <3>1. task[r].inv \in settledEver'
      <4>1. task[r].write = "lunas" \/ task[r].seen = "lunas"
        BY <2>1, <2>3 DEF BalanceInv, BalanceTask
      <4>2. task[r].seen = "lunas" => task[r].inv \in settledEver
        BY <2>1 DEF PortalInv, SettledTask
      <4> QED
        BY <1>10, <2>1, <4>1, <4>2 DEF CommitUnit
    <3> QED
      BY <1>10, <2>1, <2>2, <3>1, AddedElsewhere, CoveredKept
  <2>4. CASE ~Credits(task[r].note)
    <3>1. proofs' = proofs
      BY <1>10, <2>4 DEF CommitUnit
    <3> QED
      BY <2>1, <3>1, CoveredQuiet
  <2> QED
    BY <2>3, <2>4
<1>11. ASSUME NEW p \in Proof, RejectProof(p)
       PROVE  CoveredWasSettled'
  <2>1. \A q \in Proof : proofs'[q].status = "disetujui" => proofs'[q] = proofs[q]
    BY <1>11, <1>t DEF RejectProof, TypeOK, ProofRow
  <2> QED
    BY <1>11, <2>1, CoveredKept DEF RejectProof, history
<1>12. ASSUME NEW n \in Notification, AcknowledgeRedelivery(n)
       PROVE  CoveredWasSettled'
  BY <1>12, CoveredQuiet DEF AcknowledgeRedelivery, rows
<1>13. ASSUME NEW t \in Txn, NEW s \in Stages, Advance(t, s)
       PROVE  CoveredWasSettled'
  BY <1>13, CoveredQuiet DEF Advance, rows, history
<1>14. CASE UNCHANGED vars
  BY <1>14, CoveredQuiet DEF vars, rows, history
<1> QED
  BY <1>2, <1>3, <1>4, <1>5, <1>6, <1>7, <1>8, <1>9, <1>10, <1>11, <1>12, <1>13, <1>14
  DEF Next, Handle, Deliver

\* No session is open at the start.
LEMMA BalanceInit == Init => BalanceInv
BY DEF Init, BalanceInv, BalanceTask, Idle

\* Whatever the handlers interleave, an invoice that its approved proofs cover
\* was lunas or is about to be, as long as no proof is rejected and no approval
\* dies before its confirmation: two part payments approved at the same moment
\* cannot both take the other to be missing (settleApprovedProof lists after it
\* approves), and no credit of the gateway falls short.
THEOREM CoveredWereSettled ==
  ASSUME "reject" \notin Desk, "list" \notin Fallible, "confirm" \notin Fallible
  PROVE  Spec => []CoveredWasSettled
<1>1. TypeInv /\ LedgerInv /\ CoverInv /\ BalanceInv /\ [Next]_vars => BalanceInv'
  BY BalanceStep
<1>2. TypeInv /\ PortalInv /\ LedgerInv /\ CoverInv /\ BalanceInv
        /\ CoveredWasSettled /\ [Next]_vars => CoveredWasSettled'
  BY CoveredStep
<1>3. Init => CoveredWasSettled
  BY NothingCovered DEF CoveredWasSettled
<1> QED
  BY TypeInit, TypeStep, PortalInit, PortalStep, LedgerInit, LedgerStep, CoverInit,
     CoverStep, BalanceInit, <1>1, <1>2, <1>3, PTL DEF Spec

-----------------------------------------------------------------------------
(* When lunas is terminal.  Three things take an invoice out of it: a      *)
(* report without money, a write of what was read earlier, and the         *)
(* approval of a part after a confirmation by hand or a rejection.         *)

\* The status of every settled invoice stays.
StaysLunas == \A i \in Invoice : status[i] = "lunas" => status'[i] = "lunas"

\* Nobody but the gateway and the confirmation by hand is at work.
GatewayInv ==
  \A r \in Request :
    task[r].pc \in {"idle", "confirm", "activate", "session", "decide", "commit"}

\* Only the gateway's handlers and confirmations start.
LEMMA GatewayStep ==
  ASSUME Desk \subseteq {"pay", "confirm"}
  PROVE  TypeInv /\ GatewayInv /\ [Next]_vars => GatewayInv'
<1> SUFFICES ASSUME TypeInv, GatewayInv, [Next]_vars PROVE GatewayInv'
  OBVIOUS
<1>t. TypeOK
  BY DEF TypeInv
<1>1. ASSUME NEW r \in Request, NEW i \in Invoice, StartConfirm(r, i) \/ StartPayment(r, i)
      PROVE  GatewayInv'
  <2>1. /\ \A q \in Request : q # r => task'[q] = task[q]
        /\ task'[r].pc \in {"confirm", "session"}
    BY <1>1, <1>t, StartConfirmStep, StartPaymentStep DEF Became
  <2> QED
    BY <2>1 DEF GatewayInv
<1>2. ASSUME NEW r \in Request, NEW i \in Invoice,
             (\E p \in Receipt, a \in Claim : StartUpload(r, i, p, a)) \/ StartPdf(r, i)
      PROVE  FALSE
  BY <1>2 DEF StartUpload, StartPdf
<1>3. ASSUME NEW r \in Request, NEW p \in Proof, StartApprove(r, p)
      PROVE  FALSE
  BY <1>3 DEF StartApprove
<1>4. ASSUME NEW r \in Request,
             \/ MarkAwaiting(r)
             \/ InsertProof(r)
             \/ ApproveProof(r)
             \/ ListProofs(r)
             \/ MarkPartial(r)
             \/ RecordPdf(r)
      PROVE  FALSE
  BY <1>4 DEF MarkAwaiting, InsertProof, ApproveProof, ListProofs, MarkPartial, RecordPdf,
              At, GatewayInv
<1>5. ASSUME NEW r \in Request, NEW n \in Notification, ClaimNotification(r, n)
      PROVE  GatewayInv'
  <2>1. /\ \A q \in Request : q # r => task'[q] = task[q]
        /\ task'[r].pc \in {"decide", "commit"}
    BY <1>5, <1>t, ClaimNotificationStep DEF Became
  <2> QED
    BY <2>1 DEF GatewayInv
<1>6. ASSUME NEW r \in Request, ConfirmInvoice(r)
      PROVE  GatewayInv'
  <2>1. /\ \A q \in Request : q # r => task'[q] = task[q]
        /\ task'[r].pc = "activate"
    BY <1>6, <1>t, GotoStep DEF ConfirmInvoice, Labels
  <2> QED
    BY <2>1 DEF GatewayInv
<1>7. ASSUME NEW r \in Request,
             Activate(r) \/ (\E o \in Order : OpenSession(r, o)) \/ CommitUnit(r) \/ Die(r)
      PROVE  GatewayInv'
  <2>1. Finish(r)
    BY <1>7 DEF Activate, OpenSession, CommitUnit, Die
  <2> QED
    BY <1>t, <2>1, FinishStep DEF GatewayInv, Idle
<1>8. ASSUME NEW r \in Request, DecideSettlement(r)
      PROVE  GatewayInv'
  <2>1. task[r].note \in Notification
    BY <1>8 DEF DecideSettlement, At, TypeInv, GoodTask
  <2>2. /\ \A q \in Request : q # r => task'[q] = task[q]
        /\ task'[r].pc = "commit"
    BY <1>8, <1>t, <2>1, DecideStep
  <2> QED
    BY <2>2 DEF GatewayInv
<1>9. CASE task' = task
  BY <1>9 DEF GatewayInv
<1>10. ASSUME NEW p \in Proof, RejectProof(p)
       PROVE  GatewayInv'
  BY <1>9, <1>10 DEF RejectProof
<1>11. ASSUME NEW n \in Notification, AcknowledgeRedelivery(n)
       PROVE  GatewayInv'
  BY <1>9, <1>11 DEF AcknowledgeRedelivery
<1>12. ASSUME NEW t \in Txn, NEW s \in Stages, Advance(t, s)
       PROVE  GatewayInv'
  BY <1>9, <1>12 DEF Advance
<1>13. CASE UNCHANGED vars
  BY <1>9, <1>13 DEF vars
<1> QED
  BY <1>1, <1>2, <1>3, <1>4, <1>5, <1>6, <1>7, <1>8, <1>10, <1>11, <1>12, <1>13
  DEF Next, Handle, Deliver

\* The steps outside the back office's reading and writing keep lunas: a
\* confirmation writes it, and a unit that reports money finds its session's
\* amount enough.
LEMMA UnitsKeepLunas ==
  ASSUME TypeInv, LedgerInv, AckInv, BalanceInv, [Next]_vars,
         \A r \in Request : ~MarkAwaiting(r) /\ ~MarkPartial(r) /\ ~RecordPdf(r)
  PROVE  StaysLunas
<1>t. TypeOK
  BY DEF TypeInv
<1>1. ASSUME NEW r \in Request, ConfirmInvoice(r)
      PROVE  StaysLunas
  BY <1>1, <1>t DEF ConfirmInvoice, StaysLunas, TypeOK
<1>2. ASSUME NEW r \in Request, CommitUnit(r)
      PROVE  StaysLunas
  <2>1. Credits(task[r].note)
    BY <1>2, CommitFacts DEF AckInv
  <2>2. task[r].write = "lunas" \/ task[r].write = Null
    BY <1>2, <2>1 DEF CommitUnit, At, BalanceInv, BalanceTask
  <2> QED
    BY <1>2, <1>t, <2>2 DEF CommitUnit, StaysLunas, TypeOK
<1>3. ASSUME NEW r \in Request,
             \/ InsertProof(r)
             \/ ApproveProof(r)
             \/ ListProofs(r)
             \/ Activate(r)
             \/ \E o \in Order : OpenSession(r, o)
             \/ DecideSettlement(r)
             \/ Die(r)
      PROVE  status' = status
  BY <1>3 DEF InsertProof, ApproveProof, ListProofs, Activate, OpenSession,
              DecideSettlement, Die, rows
<1>4. ASSUME NEW r \in Request, NEW i \in Invoice,
             \/ \E p \in Receipt, a \in Claim : StartUpload(r, i, p, a)
             \/ StartConfirm(r, i)
             \/ StartPdf(r, i)
             \/ StartPayment(r, i)
      PROVE  status' = status
  BY <1>4 DEF StartUpload, StartConfirm, StartPdf, StartPayment, rows
<1>5. ASSUME NEW r \in Request, NEW p \in Proof, StartApprove(r, p)
      PROVE  status' = status
  BY <1>5 DEF StartApprove, rows
<1>6. ASSUME NEW p \in Proof, RejectProof(p)
      PROVE  status' = status
  BY <1>6 DEF RejectProof
<1>7. ASSUME NEW n \in Notification, Deliver(n)
      PROVE  status' = status
  BY <1>7 DEF Deliver, ClaimNotification, AcknowledgeRedelivery, rows
<1>8. ASSUME NEW t \in Txn, NEW s \in Stages, Advance(t, s)
      PROVE  status' = status
  BY <1>8 DEF Advance, rows
<1>9. UNCHANGED vars => status' = status
  BY DEF vars, rows
<1>10. status' = status => StaysLunas
  BY DEF StaysLunas
<1> QED
  BY <1>1, <1>2, <1>3, <1>4, <1>5, <1>6, <1>7, <1>8, <1>9, <1>10 DEF Next, Handle

\* With the gateway's handlers and confirmations by hand alone, any number of
\* them at the same time, lunas is terminal where nothing is reported before
\* the money.
THEOREM GatewayKeepsLunas ==
  ASSUME DirectPayments, Desk \subseteq {"pay", "confirm"}
  PROVE  Spec => SettledIsTerminal
<1>1. Init => AckInv /\ GatewayInv
  BY DEF Init, AckInv, GatewayInv, Idle
<1>2. TypeInv /\ LedgerInv /\ AckInv /\ [Next]_vars => AckInv'
  BY AckStep
<1>3. TypeInv /\ LedgerInv /\ CoverInv /\ BalanceInv /\ [Next]_vars => BalanceInv'
  BY BalanceStep
<1>4. TypeInv /\ GatewayInv /\ [Next]_vars => GatewayInv'
  BY GatewayStep
<1>5. TypeInv /\ LedgerInv /\ AckInv /\ BalanceInv /\ GatewayInv /\ [Next]_vars
        => [StaysLunas]_status
  <2>1. GatewayInv =>
          \A r \in Request : ~MarkAwaiting(r) /\ ~MarkPartial(r) /\ ~RecordPdf(r)
    BY DEF GatewayInv, MarkAwaiting, MarkPartial, RecordPdf, At
  <2> QED
    BY <2>1, UnitsKeepLunas
<1>6. Spec => [][StaysLunas]_status
  BY TypeInit, TypeStep, LedgerInit, LedgerStep, CoverInit, CoverStep, BalanceInit,
     <1>1, <1>2, <1>3, <1>4, <1>5, PTL DEF Spec
<1> QED
  BY <1>6 DEF SettledIsTerminal, StaysLunas

-----------------------------------------------------------------------------
(* One handler at a time, and nobody confirms by hand or rejects: a lunas  *)
(* invoice is a covered one, and no handler finds it short.                *)

TerminalTask(t) ==
  /\ t.pc \in {"mark", "approve", "list", "pdf"} => t.seen = status[t.inv]
  /\ t.pc = "mark" => t.seen = "diterbitkan"
  /\ t.pc = "partial" => ApprovedTotal(t.inv) < Amount[t.inv]
  /\ t.pc = "confirm" => ApprovedTotal(t.inv) >= Amount[t.inv]

TerminalInv ==
  /\ \A i \in Invoice : status[i] = "lunas" => ApprovedTotal(i) >= Amount[i]
  /\ \A r \in Request : TerminalTask(task[r])

\* A step that makes only covered invoices lunas and leaves its handler with
\* what it read.
LEMMA TerminalKept ==
  ASSUME TypeInv, TypeInv', CoverInv, CoverInv', ApprovalsStay, TerminalInv,
         \A i \in Invoice : status'[i] = "lunas" =>
           status[i] = "lunas" \/ ApprovedTotal(i)' >= Amount[i],
         \A r \in Request : TerminalTask(task[r])'
  PROVE  TerminalInv'
<1>1. ASSUME NEW i \in Invoice, status'[i] = "lunas"
      PROVE  ApprovedTotal(i)' >= Amount[i]
  <2>1. /\ ApprovedTotal(i) \in Nat
        /\ ApprovedTotal(i)' \in Nat
        /\ ApprovedTotal(i) <= ApprovedTotal(i)'
        /\ Amount[i] \in Nat
    BY TotalHolds, InvoiceAssumption
  <2>2. status[i] = "lunas" => ApprovedTotal(i) >= Amount[i]
    BY DEF TerminalInv
  <2> QED
    BY <1>1, <2>1, <2>2
<1> QED
  BY <1>1 DEF TerminalInv

\* A listing reads the total it goes on to write for.
LEMMA ListTerminal ==
  ASSUME OneHandler, TypeInv, TypeInv', CoverInv, CoverInv', ApprovalsStay, TerminalInv,
         NEW r \in Request, ListProofs(r)
  PROVE  TerminalInv'
<1>t. TypeOK
  BY DEF TypeInv
<1> DEFINE i == task[r].inv
           full == ApprovedTotal(i) >= Amount[i]
<1>1. i \in Invoice /\ proofs' = proofs /\ status' = status
  BY DEF ListProofs, At, TypeInv, GoodTask, rows
<1>2. ApprovedTotal(i) \in Nat /\ Amount[i] \in Nat
  BY <1>t, <1>1, NowType, InvoiceAssumption DEF CoverInv
<1>3. \/ Finish(r)
      \/ Goto(r, "confirm") /\ full
      \/ Goto(r, "partial") /\ ApprovedTotal(i) < Amount[i]
  BY <1>2 DEF ListProofs
<1>4. \A j : ApprovedTotal(j)' = ApprovedTotal(j)
  BY <1>1, TotalNow
<1>5. \A j : j = task'[r].inv => ApprovedTotal(task[r].inv)' = ApprovedTotal(j)'
  BY DEF ApprovedTotal, ProofsOf
<1>6. TerminalTask(task[r])'
  <2>1. CASE Finish(r)
    BY <1>t, <2>1, FinishStep DEF TerminalTask, Idle
  <2>2. CASE Goto(r, "confirm") /\ full
    <3>1. task'[r].pc = "confirm" /\ task'[r].inv = i
      BY <1>t, <2>2, GotoStep DEF Labels
    <3> QED
      BY <1>4, <1>5, <2>2, <3>1 DEF TerminalTask
  <2>3. CASE Goto(r, "partial") /\ ApprovedTotal(i) < Amount[i]
    <3>1. task'[r].pc = "partial" /\ task'[r].inv = i
      BY <1>t, <2>3, GotoStep DEF Labels
    <3> QED
      BY <1>4, <1>5, <2>3, <3>1 DEF TerminalTask
  <2> QED
    BY <1>3, <2>1, <2>2, <2>3
<1> QED
  BY <1>1, <1>6, TerminalKept DEF OneHandler

\* A unit makes lunas the invoice its credit covers.
LEMMA CommitTerminal ==
  ASSUME OneHandler, TypeInv, TypeInv', LedgerInv, CoverInv, CoverInv', AckInv, BalanceInv,
         ApprovalsStay, TerminalInv, NEW r \in Request, CommitUnit(r)
  PROVE  TerminalInv'
<1>t. TypeOK
  BY DEF TypeInv
<1> DEFINE i == task[r].inv
           n == task[r].note
<1>1. /\ Credits(n)
      /\ n \in Notification
      /\ i \in Invoice
      /\ i = sessions[OrderOf[n.txn]].inv
      /\ task[r].gross = sessions[OrderOf[n.txn]].gross
      /\ task[r].gross \in Nat
  BY CommitFacts DEF CommitUnit, At, TypeInv, TypeOK, Task, GoodTask, LedgerInv, UnitInv,
                     GoodUnit, AckInv
<1>2. ApprovedTotal(i) + task[r].gross >= Amount[i]
  <2>1. OrderOf[n.txn] \in Order /\ i # Null
    BY <1>1, GatewayAssumption, NullAssumption DEF Notification
  <2> QED
    BY <1>1, <2>1 DEF BalanceInv, Covers
<1>3. \A j \in Invoice : j = i => ApprovedTotal(j)' >= Amount[j]
  <2> SUFFICES ASSUME NEW j \in Invoice, j = i PROVE ApprovedTotal(j)' >= Amount[j]
    OBVIOUS
  <2>1. ApprovedTotal(j)' = task[r].gross + ApprovedTotal(j)
    BY <1>1, CommitAdds
  <2>2. ApprovedTotal(j) \in Nat /\ Amount[j] \in Nat
    BY <1>t, NowType, InvoiceAssumption DEF CoverInv
  <2>3. ApprovedTotal(j) + task[r].gross >= Amount[j]
    BY <1>2
  <2> QED
    BY <1>1, <2>1, <2>2, <2>3
<1>4. task'[r] = Idle
  BY <1>t, FinishStep DEF CommitUnit
<1>5. \A j \in Invoice : status'[j] = "lunas" => status[j] = "lunas" \/ j = i
  BY <1>t DEF CommitUnit, TypeOK
<1>6. \A q \in Request : TerminalTask(task[q])'
  BY <1>4 DEF TerminalTask, Idle, OneHandler
<1> QED
  BY <1>3, <1>5, <1>6, TerminalKept

\* Every step of the only handler keeps TerminalInv.
LEMMA TerminalStep ==
  ASSUME OneHandler, DirectPayments, "reject" \notin Desk, "confirm" \notin Desk
  PROVE  TypeInv /\ LedgerInv /\ CoverInv /\ AckInv /\ BalanceInv /\ TerminalInv
           /\ [Next]_vars => TerminalInv'
<1> SUFFICES ASSUME TypeInv, LedgerInv, CoverInv, AckInv, BalanceInv, TerminalInv,
                    [Next]_vars
             PROVE  TerminalInv'
  OBVIOUS
<1>t. TypeOK /\ TypeInv' /\ CoverInv' /\ ApprovalsStay
  BY TypeStep, CoverStep, ApprovalsStep DEF TypeInv
<1>1. ASSUME NEW r \in Request, TerminalTask(task[r])', status' = status
      PROVE  TerminalInv'
  BY <1>1, <1>t, TerminalKept DEF OneHandler
<1>2. ASSUME NEW r \in Request, NEW i \in Invoice,
             \/ \E p \in Receipt, a \in Claim : StartUpload(r, i, p, a)
             \/ StartPdf(r, i)
             \/ StartPayment(r, i)
      PROVE  TerminalInv'
  <2>1. /\ task'[r].pc \in {"mark", "insert", "pdf", "session"}
        /\ task'[r].seen = status[task'[r].inv]
        /\ task'[r].pc = "mark" => status[task'[r].inv] = "diterbitkan"
    BY <1>2, <1>t, StartUploadStep, StartPdfStep, StartPaymentStep DEF Became
  <2>2. status' = status
    BY <1>2 DEF StartUpload, StartPdf, StartPayment, rows
  <2> QED
    BY <1>1, <2>1, <2>2 DEF TerminalTask
<1>3. ASSUME NEW r \in Request, NEW i \in Invoice, StartConfirm(r, i)
      PROVE  FALSE
  BY <1>3 DEF StartConfirm
<1>4. ASSUME NEW r \in Request, NEW p \in Proof, StartApprove(r, p)
      PROVE  TerminalInv'
  <2>1. task'[r].pc = "approve" /\ task'[r].seen = status[task'[r].inv]
    BY <1>4, <1>t, StartApproveStep DEF Became
  <2>2. status' = status
    BY <1>4 DEF StartApprove, rows
  <2> QED
    BY <1>1, <2>1, <2>2 DEF TerminalTask
<1>5. ASSUME NEW r \in Request, NEW n \in Notification, ClaimNotification(r, n)
      PROVE  TerminalInv'
  <2>1. task'[r].pc \in {"decide", "commit"}
    BY <1>5, <1>t, ClaimNotificationStep DEF Became
  <2>2. status' = status
    BY <1>5 DEF ClaimNotification, rows
  <2> QED
    BY <1>1, <2>1, <2>2 DEF TerminalTask
<1>6. ASSUME NEW r \in Request, MarkAwaiting(r)
      PROVE  TerminalInv'
  <2>1. task'[r].pc = "insert"
    BY <1>6, <1>t, GotoStep DEF MarkAwaiting, Labels
  <2>2. TerminalTask(task[r])'
    BY <2>1 DEF TerminalTask
  <2>3. \A i \in Invoice : status'[i] = "lunas" => status[i] = "lunas"
    BY <1>6, <1>t DEF MarkAwaiting, UpdateInvoice, TypeOK
  <2> QED
    BY <1>t, <2>2, <2>3, TerminalKept DEF OneHandler
<1>7. ASSUME NEW r \in Request, ApproveProof(r)
      PROVE  TerminalInv'
  <2>1. task'[r].pc = "list" /\ task'[r].inv = task[r].inv /\ task'[r].seen = task[r].seen
    BY <1>7, <1>t, GotoStep DEF ApproveProof, Labels
  <2>2. task[r].seen = status[task[r].inv] /\ status' = status
    BY <1>7 DEF ApproveProof, At, TerminalInv, TerminalTask
  <2> QED
    BY <1>1, <2>1, <2>2 DEF TerminalTask
<1>8. ASSUME NEW r \in Request, ListProofs(r)
      PROVE  TerminalInv'
  BY <1>8, <1>t, ListTerminal
<1>9. ASSUME NEW r \in Request, MarkPartial(r) \/ RecordPdf(r)
      PROVE  TerminalInv'
  <2>1. task'[r] = Idle
    BY <1>9, <1>t, FinishStep DEF MarkPartial, RecordPdf
  <2>2. \A i \in Invoice : status'[i] = "lunas" => status[i] = "lunas"
    <3>1. CASE MarkPartial(r)
      BY <3>1, <1>t DEF MarkPartial, UpdateInvoice, TypeOK
    <3>2. CASE RecordPdf(r)
      <4>1. task[r].seen = status[task[r].inv]
        BY <3>2 DEF RecordPdf, At, TerminalInv, TerminalTask
      <4> QED
        BY <3>2, <1>t, <4>1 DEF RecordPdf, UpdateInvoice, TypeOK
    <3> QED
      BY <1>9, <3>1, <3>2
  <2>3. TerminalTask(task[r])'
    BY <2>1 DEF TerminalTask, Idle
  <2> QED
    BY <1>t, <2>2, <2>3, TerminalKept DEF OneHandler
<1>10. ASSUME NEW r \in Request, ConfirmInvoice(r)
       PROVE  TerminalInv'
  <2> DEFINE i == task[r].inv
  <2>1. i \in Invoice /\ ApprovedTotal(i) >= Amount[i]
    BY <1>10 DEF ConfirmInvoice, At, TypeInv, GoodTask, TerminalInv, TerminalTask
  <2>2. \A j \in Invoice : ApprovedTotal(j)' = ApprovedTotal(j)
    BY <1>10, TotalNow DEF ConfirmInvoice
  <2>3. \A j \in Invoice : status'[j] = "lunas" => status[j] = "lunas" \/ j = i
    BY <1>10, <1>t DEF ConfirmInvoice, TypeOK
  <2>4. task'[r].pc = "activate"
    BY <1>10, <1>t, GotoStep DEF ConfirmInvoice, Labels
  <2>5. TerminalTask(task[r])'
    BY <2>4 DEF TerminalTask
  <2>6. \A j \in Invoice : j = i => ApprovedTotal(j)' >= Amount[j]
    BY <2>1, <2>2
  <2> QED
    BY <1>t, <2>3, <2>5, <2>6, TerminalKept DEF OneHandler
<1>11. ASSUME NEW r \in Request,
              \/ InsertProof(r)
              \/ Activate(r)
              \/ \E o \in Order : OpenSession(r, o)
              \/ Die(r)
       PROVE  TerminalInv'
  <2>1. Finish(r) /\ status' = status
    BY <1>11 DEF InsertProof, Activate, OpenSession, Die, rows
  <2>2. TerminalTask(task[r])'
    BY <1>t, <2>1, FinishStep DEF TerminalTask, Idle
  <2> QED
    BY <1>1, <2>1, <2>2
<1>12. ASSUME NEW r \in Request, DecideSettlement(r)
       PROVE  TerminalInv'
  <2>1. task[r].note \in Notification /\ status' = status
    BY <1>12 DEF DecideSettlement, At, TypeInv, GoodTask, rows
  <2>2. task'[r].pc = "commit"
    BY <1>12, <1>t, <2>1, DecideStep
  <2> QED
    BY <1>1, <2>1, <2>2 DEF TerminalTask
<1>13. ASSUME NEW r \in Request, CommitUnit(r)
       PROVE  TerminalInv'
  BY <1>13, <1>t, CommitTerminal
<1>14. CASE UNCHANGED <<proofs, status, task>>
  <2>1. \A j : ApprovedTotal(j)' = ApprovedTotal(j)
    BY <1>14, TotalNow
  <2>2. \A r \in Request : \A j : j = task'[r].inv => ApprovedTotal(task[r].inv)' = ApprovedTotal(j)'
    BY DEF ApprovedTotal, ProofsOf
  <2>3. \A r \in Request : TerminalTask(task[r])'
    BY <1>14, <2>1, <2>2 DEF TerminalInv, TerminalTask
  <2> QED
    BY <1>14, <1>t, <2>3, TerminalKept
<1>15. ASSUME NEW p \in Proof, RejectProof(p)
       PROVE  FALSE
  BY <1>15 DEF RejectProof
<1>16. ASSUME NEW n \in Notification, AcknowledgeRedelivery(n)
       PROVE  TerminalInv'
  BY <1>14, <1>16 DEF AcknowledgeRedelivery, rows
<1>17. ASSUME NEW t \in Txn, NEW s \in Stages, Advance(t, s)
       PROVE  TerminalInv'
  BY <1>14, <1>17 DEF Advance, rows
<1>18. CASE UNCHANGED vars
  BY <1>14, <1>18 DEF vars, rows
<1> QED
  BY <1>2, <1>3, <1>4, <1>5, <1>6, <1>7, <1>8, <1>9, <1>10, <1>11, <1>12, <1>13,
     <1>15, <1>16, <1>17, <1>18
  DEF Next, Handle, Deliver

\* No writer of the back office finds a lunas invoice to overwrite.
LEMMA OfficeKeepsLunas ==
  ASSUME TypeInv, CoverInv, TerminalInv, NEW r \in Request,
         MarkAwaiting(r) \/ MarkPartial(r) \/ RecordPdf(r)
  PROVE  StaysLunas
<1>t. TypeOK
  BY DEF TypeInv
<1> DEFINE i == task[r].inv
<1>1. task[r].pc \in {"mark", "partial", "pdf"} /\ i \in Invoice
  BY DEF MarkAwaiting, MarkPartial, RecordPdf, At, TypeInv, GoodTask
<1>2. CASE MarkAwaiting(r)
  <2>1. status[i] = "diterbitkan"
    BY <1>2 DEF MarkAwaiting, At, TerminalInv, TerminalTask
  <2> QED
    BY <1>2, <1>t, <2>1 DEF MarkAwaiting, UpdateInvoice, StaysLunas, TypeOK
<1>3. CASE MarkPartial(r)
  <2>1. ApprovedTotal(i) < Amount[i]
    BY <1>3 DEF MarkPartial, At, TerminalInv, TerminalTask
  <2>2. ApprovedTotal(i) \in Nat /\ Amount[i] \in Nat
    BY <1>t, <1>1, NowType, InvoiceAssumption DEF CoverInv
  <2>3. status[i] # "lunas"
    BY <1>1, <2>1, <2>2 DEF TerminalInv
  <2> QED
    BY <1>3, <1>t, <2>3 DEF MarkPartial, UpdateInvoice, StaysLunas, TypeOK
<1>4. CASE RecordPdf(r)
  <2>1. task[r].seen = status[i]
    BY <1>4 DEF RecordPdf, At, TerminalInv, TerminalTask
  <2> QED
    BY <1>4, <1>t, <2>1 DEF RecordPdf, UpdateInvoice, StaysLunas, TypeOK
<1> QED
  BY <1>2, <1>3, <1>4

\* Lunas is terminal when requests come one at a time, nothing is reported
\* before the money, and nobody rejects a proof or confirms by hand: uploads,
\* reviews, PDFs and credits that come later leave a paid invoice paid,
\* wherever they die.
THEOREM SerialKeepsLunas ==
  ASSUME OneHandler, DirectPayments, "reject" \notin Desk, "confirm" \notin Desk
  PROVE  Spec => SettledIsTerminal
<1>1. Init => AckInv /\ TerminalInv
  BY DEF Init, AckInv, TerminalInv, TerminalTask, Idle
<1>2. TypeInv /\ LedgerInv /\ AckInv /\ [Next]_vars => AckInv'
  BY AckStep
<1>3. TypeInv /\ LedgerInv /\ CoverInv /\ BalanceInv /\ [Next]_vars => BalanceInv'
  BY BalanceStep
<1>4. TypeInv /\ LedgerInv /\ CoverInv /\ AckInv /\ BalanceInv /\ TerminalInv
        /\ [Next]_vars => TerminalInv'
  BY TerminalStep
<1>5. TypeInv /\ LedgerInv /\ CoverInv /\ AckInv /\ BalanceInv /\ TerminalInv
        /\ [Next]_vars => [StaysLunas]_status
  BY UnitsKeepLunas, OfficeKeepsLunas
<1>6. Spec => [][StaysLunas]_status
  BY TypeInit, TypeStep, LedgerInit, LedgerStep, CoverInit, CoverStep, BalanceInit,
     <1>1, <1>2, <1>3, <1>4, <1>5, PTL DEF Spec
<1> QED
  BY <1>6 DEF SettledIsTerminal, StaysLunas

-----------------------------------------------------------------------------
(* What a payment needs to be credited in the end is there: the safety     *)
(* half of ReceivedIsCredited.                                             *)

\* Received money is credited, or the gateway still holds a notification of it
\* that was not answered 200 and whose key no claim blocks.
NothingForgotten ==
  \A t \in Received :
    \/ \E p \in Proof : proofs[p].txn = t
    \/ \E n \in sent : /\ n.txn = t
                       /\ Credits(n)
                       /\ n \notin acked
                       /\ \A c \in claims : Key(c) # Key(n)

\* The gateway reports the money it receives.
Reported == \A t \in Received : \E n \in sent : n.txn = t /\ Credits(n)

\* A transaction becomes received by the step that reports it.
LEMMA ReportedStep == TypeInv /\ Reported /\ [Next]_vars => Reported'
<1> SUFFICES ASSUME TypeInv, Reported, [Next]_vars PROVE Reported'
  OBVIOUS
<1>1. ASSUME NEW t \in Txn, NEW s \in Stages, Advance(t, s)
      PROVE  Reported'
  <2>1. /\ stage' = [stage EXCEPT ![t] = s]
        /\ sent' = sent \cup {Report(t, s)}
    BY <1>1 DEF Advance
  <2>2. s \in {"captured", "settled"} =>
          Report(t, s).txn = t /\ Credits(Report(t, s))
    BY DEF Report, Credits
  <2>3. \A u \in Received' : u \in Received \/ (u = t /\ s \in {"captured", "settled"})
    BY <2>1 DEF TypeInv, TypeOK, Received
  <2> QED
    BY <2>1, <2>2, <2>3 DEF Reported
<1>2. CASE UNCHANGED <<stage, sent>>
  BY <1>2 DEF Reported, Received
<1>3. ASSUME NEW r \in Request, Handle(r) \/ Die(r)
      PROVE  UNCHANGED <<stage, sent>>
  BY <1>3 DEF Handle, MarkAwaiting, InsertProof, ApproveProof, ListProofs, MarkPartial,
              ConfirmInvoice, Activate, RecordPdf, OpenSession, DecideSettlement, CommitUnit,
              Die, gateway
<1>4. ASSUME NEW r \in Request, NEW i \in Invoice,
             \/ \E p \in Receipt, a \in Claim : StartUpload(r, i, p, a)
             \/ StartConfirm(r, i)
             \/ StartPdf(r, i)
             \/ StartPayment(r, i)
      PROVE  UNCHANGED <<stage, sent>>
  BY <1>4 DEF StartUpload, StartConfirm, StartPdf, StartPayment, gateway
<1>5. ASSUME NEW r \in Request, NEW p \in Proof, StartApprove(r, p) \/ RejectProof(p)
      PROVE  UNCHANGED <<stage, sent>>
  BY <1>5 DEF StartApprove, RejectProof, gateway
<1>6. ASSUME NEW p \in Proof, RejectProof(p)
      PROVE  UNCHANGED <<stage, sent>>
  BY <1>6 DEF RejectProof, gateway
<1>7. ASSUME NEW n \in Notification, Deliver(n)
      PROVE  UNCHANGED <<stage, sent>>
  BY <1>7 DEF Deliver, ClaimNotification, AcknowledgeRedelivery, gateway
<1>8. UNCHANGED vars => UNCHANGED <<stage, sent>>
  BY DEF vars, gateway
<1> QED
  BY <1>1, <1>2, <1>3, <1>4, <1>5, <1>6, <1>7, <1>8 DEF Next

\* Where nothing is reported before the money, no received payment can be
\* stranded: as long as it is not credited, some notification of it is still to
\* be answered, and its next delivery is not taken for a repetition, however
\* many deliveries died, repeated or overtook each other.
THEOREM PaymentsNotForgotten ==
  ASSUME DirectPayments
  PROVE  Spec => []NothingForgotten
<1>1. Init => AckInv /\ Reported
  BY DEF Init, AckInv, Reported, Received
<1>2. TypeInv /\ LedgerInv /\ AckInv /\ [Next]_vars => AckInv'
  BY AckStep
<1>3. TypeInv /\ LedgerInv /\ AckInv /\ Reported => NothingForgotten
  <2> SUFFICES ASSUME TypeInv, LedgerInv, AckInv, Reported, NEW t \in Received,
                      ~ \E p \in Proof : proofs[p].txn = t
               PROVE  \E n \in sent : /\ n.txn = t
                                      /\ Credits(n)
                                      /\ n \notin acked
                                      /\ \A c \in claims : Key(c) # Key(n)
    BY DEF NothingForgotten
  <2>1. PICK n \in sent : n.txn = t /\ Credits(n)
    BY DEF Reported
  <2>2. \A c \in claims : Key(c) # Key(n)
    BY <2>1, SharedKey DEF TypeInv
  <2>3. n \notin acked
    BY <2>2 DEF AckInv
  <2> QED
    BY <2>1, <2>2, <2>3
<1> QED
  BY TypeInit, TypeStep, LedgerInit, LedgerStep, ReportedStep, <1>1, <1>2, <1>3, PTL
  DEF Spec
=============================================================================
