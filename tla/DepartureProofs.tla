-------------------------- MODULE DepartureProofs --------------------------
(***************************************************************************)
(* Theorems about Departure, for any number of participants, documents,    *)
(* requests and handlers.                                                  *)
(*                                                                         *)
(* TypeInv says what a handler relies on at each of its steps.  Every      *)
(* property has an invariant of its own on top of it: who holds the row of *)
(* an erasure request, which profile write an erasure overtook, which      *)
(* reading a document still waits for, and which goroutine will give a     *)
(* ready batch its checklist.  The refinement of ErasureQueue is by the    *)
(* invariant of the erasures.                                              *)
(***************************************************************************)
EXTENDS Departure, TLAPS

-----------------------------------------------------------------------------
(* The invariant.                                                          *)

\* What a handler relies on at the step it has come to.
GoodTask(t) ==
  /\ t.pc \in {"extract", "keep", "fill", "reload"} => t.on \in Doc
  /\ t.pc = "profile" => t.on \in Person
  /\ t.pc = "close" => /\ t.on \in Deletion
                       /\ t.to \in {"selesai", "ditolak"}
                       /\ deletions[t.on].who \in Person

TypeInv ==
  /\ TypeOK
  /\ \A r \in Request : GoodTask(task[r])
  /\ \A q \in Deletion : Open(q) => deletions[q].who \in Person

\* A decision under way holds an open request, alone; exactly those whose
\* request was granted are erased.
ErasureInv ==
  /\ \A r \in Request : At(r, "close") => Open(task[r].on)
  /\ \A r, s \in Request :
       At(r, "close") /\ At(s, "close") /\ task[r].on = task[s].on => r = s
  /\ ErasureMatchesRequest

\* A profile change that works on somebody erased was overtaken.
ProfileInv ==
  /\ \A r \in Request :
       At(r, "profile") /\ person[task[r].on].erased => task[r].on \in overlapped
  /\ RestoredByOverlap

\* The handler reads document d and has not stored the result.
Reads(t, d) == t.pc \in {"extract", "keep"} /\ t.on = d

\* What a handler that reads a document, or fills in a number, knows of it.
Knows(t) ==
  /\ t.pc \in {"extract", "keep"}
       => Exists(t.on) /\ docs[t.on].verdict # "passed"
  /\ t.pc = "keep" /\ t.fills => t.passed /\ Kind[t.on] = "ktp"
  /\ t.pc = "fill" => docs[t.on].verdict = "passed" /\ Kind[t.on] = "ktp"

\* A document is read once, so that its verdict is written once.
ReadingInv ==
  /\ \A r \in Request : Knows(task[r])
  /\ \A d \in Doc : docs[d].verdict = "passed" => Exists(d)
  /\ \A d \in Doc, r, s \in Request :
       Reads(task[r], d) /\ Reads(task[s], d) => r = s
  /\ FilledIsVerified

\* Everybody paid for has a row.
Complete == \A p \in ListByBatch : person[p].active => checklist[p] # Null

\* If the batch is ready, this goroutine will find it so.
Decisive(t) ==
  \/ t.pc = "reload" /\ Live(t.on) /\ Found(Owner[t.on])
  \/ t.pc = "list"
  \/ t.pc = "check" /\ \A p \in t.left : Found(p) /\ person[p].active

\* A batch that an approval made ready has its checklist, or a goroutine that
\* will find it ready is under way.
ReadyInv ==
  due /\ BatchReady => Complete \/ \E r \in Request : Decisive(task[r])

-----------------------------------------------------------------------------
(* What a step does to the handler that takes it.                          *)

\* The step leaves every handler but r where it was.
Only(r) ==
  /\ task' \in [Request -> Task]
  /\ \A q \in Request : q # r => task'[q] = task[q]

\* A slot without a handler is well formed and owes nothing.
LEMMA IdleType ==
  /\ Idle \in Task
  /\ Idle.pc = "idle"
  /\ GoodTask(Idle)
BY DEF Idle, Task, Labels, GoodTask

\* Giving a slot a well-formed task touches no other slot.
LEMMA UpdateStep ==
  ASSUME TypeOK, NEW r \in Request, NEW u \in Task, task' = [task EXCEPT ![r] = u]
  PROVE  Only(r) /\ task'[r] = u
BY DEF Only, TypeOK

\* A handler that finishes or dies leaves an idle slot.
LEMMA FinishStep ==
  ASSUME TypeOK, NEW r \in Request, task' = [task EXCEPT ![r] = Idle]
  PROVE  Only(r) /\ task'[r] = Idle /\ task'[r].pc = "idle"
BY IdleType, UpdateStep

\* A handler that has read nothing yet works on the row it was given.
LEMMA FreshStep ==
  ASSUME TypeOK, NEW r \in Request, NEW l \in Labels,
         NEW o \in Doc \cup Person \cup Deletion \cup {Null},
         task' = [task EXCEPT ![r] = [Idle EXCEPT !.pc = l, !.on = o]]
  PROVE  /\ Only(r)
         /\ task'[r].pc = l
         /\ task'[r].on = o
<1> DEFINE u == [Idle EXCEPT !.pc = l, !.on = o]
<1>1. u \in Task /\ u.pc = l /\ u.on = o
  BY DEF Idle, Task
<1> HIDE DEF u
<1> QED
  BY <1>1, UpdateStep DEF u

\* A handler that goes on without a row keeps nothing of what it had read.
LEMMA AdvanceStep ==
  ASSUME TypeOK, NEW r \in Request, NEW l \in Labels, NEW S \in SUBSET Person,
         task' = [task EXCEPT ![r] = [Idle EXCEPT !.pc = l, !.left = S]]
  PROVE  /\ Only(r)
         /\ task'[r].pc = l
         /\ task'[r].left = S
<1> DEFINE u == [Idle EXCEPT !.pc = l, !.left = S]
<1>1. u \in Task /\ u.pc = l /\ u.left = S
  BY DEF Idle, Task
<1> HIDE DEF u
<1> QED
  BY <1>1, UpdateStep DEF u

-----------------------------------------------------------------------------
(* What a reading says.                                                    *)

\* An identity card whose number was found is trusted: half of the confidence
\* comes from the number alone, so that a number is only ever filled in from a
\* reading that has passed, whatever the threshold is set to.
LEMMA FilledPassed ==
  ASSUME NEW k \in Kinds, NEW reading \in Readings(k), NEW lasting \in BOOLEAN,
         Fills(k, reading)
  PROVE  k = "ktp" /\ Validated(k, reading, lasting)
<1>1. k = "ktp" /\ "number" \in reading.fields
  BY DEF Fills
<1>2. PICK f \in SUBSET DOMAIN KtpWeight :
        reading = [fields |-> f, confidence |-> Confidence(KtpWeight, f)]
  BY <1>1 DEF Readings
<1>3. /\ Worth(KtpWeight, f, "number") = 50
      /\ Worth(KtpWeight, f, "name") \in Nat
      /\ Worth(KtpWeight, f, "birth") \in Nat
      /\ Worth(KtpWeight, f, "expiry") \in Nat
  <2>1. DOMAIN KtpWeight = {"number", "name", "birth"}
    BY DEF KtpWeight
  <2>2. /\ KtpWeight["number"] = 50
        /\ KtpWeight["name"] = 30
        /\ KtpWeight["birth"] = 20
    BY DEF KtpWeight
  <2>3. "number" \in f
    BY <1>1, <1>2
  <2> QED
    BY <2>1, <2>2, <2>3 DEF Worth
<1>4. reading.confidence >= 50
  <2>1. reading.confidence = Confidence(KtpWeight, f)
    BY <1>2
  <2> QED
    BY <1>3, <2>1 DEF Confidence
<1> QED
  BY <1>1, <1>4 DEF Validated

-----------------------------------------------------------------------------
(* What each statement of a handler does.                                  *)

\* An upload creates one row, and a reader for it when its kind is read.
LEMMA UploadStep ==
  ASSUME TypeInv, NEW r \in Request, NEW d \in Doc, CreateDocument(d), TriggerOCR(r, d)
  PROVE  /\ ~Exists(d)
         /\ docs' \in [Doc -> DocRow]
         /\ docs'[d].status = "menunggu"
         /\ docs'[d].verdict = "none"
         /\ \A e \in Doc : e # d => docs'[e] = docs[e]
         /\ Only(r)
         /\ \/ task'[r] = task[r]
            \/ /\ task[r].pc = "idle"
               /\ task'[r].pc = "extract"
               /\ task'[r].on = d
<1> DEFINE u == [NoDoc EXCEPT !.status = "menunggu"]
<1>1. u \in DocRow /\ u.status = "menunggu" /\ u.verdict = "none"
  BY DEF NoDoc, DocRow, Statuses
<1>2. ~Exists(d) /\ docs' = [docs EXCEPT ![d] = u]
  BY DEF CreateDocument
<1> HIDE DEF u
<1>3. /\ docs' \in [Doc -> DocRow]
      /\ docs'[d] = u
      /\ \A e \in Doc : e # d => docs'[e] = docs[e]
  BY <1>1, <1>2 DEF TypeInv, TypeOK
<1>4. CASE IsOCRDocType(Kind[d])
  <2>1. /\ task[r].pc = "idle"
        /\ task' = [task EXCEPT ![r] = [Idle EXCEPT !.pc = "extract", !.on = d]]
    BY <1>4 DEF TriggerOCR, Start, At
  <2>2. /\ Only(r)
        /\ task'[r].pc = "extract"
        /\ task'[r].on = d
    BY <2>1, FreshStep DEF TypeInv, Labels
  <2> QED
    BY <1>1, <1>2, <1>3, <2>1, <2>2
<1>5. CASE ~IsOCRDocType(Kind[d])
  <2>1. Only(r) /\ task'[r] = task[r]
    BY <1>5 DEF TriggerOCR, Only, TypeInv, TypeOK
  <2> QED
    BY <1>1, <1>2, <1>3, <2>1
<1> QED
  BY <1>4, <1>5

\* A reading that would fill in a number has passed, and is of an identity card.
LEMMA ExtractStep ==
  ASSUME TypeInv, NEW r \in Request, ExtractDocumentData(r)
  PROVE  /\ task[r].pc = "extract"
         /\ Only(r)
         /\ \/ task'[r] = Idle
            \/ /\ task'[r].pc = "keep"
               /\ task'[r].on = task[r].on
               /\ task'[r].fills => task'[r].passed /\ Kind[task[r].on] = "ktp"
<1> DEFINE t == task[r]
           k == Kind[t.on]
<1>1. t \in Task /\ t.pc = "extract" /\ k \in Kinds
  BY DocAssumption DEF ExtractDocumentData, At, TypeInv, TypeOK, GoodTask
<1>2. CASE task' = [task EXCEPT ![r] = Idle]
  BY <1>1, <1>2, FinishStep DEF TypeInv
<1>3. CASE \E reading \in Readings(k), lasting \in BOOLEAN :
             task' = [task EXCEPT ![r].pc = "keep",
                        ![r].passed = Validated(k, reading, lasting),
                        ![r].fills = Fills(k, reading)]
  <2>1. PICK reading \in Readings(k), lasting \in BOOLEAN :
             task' = [task EXCEPT ![r].pc = "keep",
                        ![r].passed = Validated(k, reading, lasting),
                        ![r].fills = Fills(k, reading)]
    BY <1>3
  <2> DEFINE v == Validated(k, reading, lasting)
             f == Fills(k, reading)
  <2>2. v \in BOOLEAN /\ f \in BOOLEAN /\ (f => v /\ k = "ktp")
    <3>1. f => v /\ k = "ktp"
      BY <1>1, FilledPassed
    <3>2. v \in BOOLEAN /\ f \in BOOLEAN
      BY DEF Validated, Fills
    <3> QED
      BY <3>1, <3>2
  <2> HIDE DEF v, f
  <2> DEFINE u == [t EXCEPT !.pc = "keep", !.passed = v, !.fills = f]
  <2>3. task' = [task EXCEPT ![r] = u]
    BY <2>1 DEF v, f, TypeInv, TypeOK
  <2>4. /\ u \in Task
        /\ u.pc = "keep"
        /\ u.on = t.on
        /\ u.passed = v
        /\ u.fills = f
    BY <1>1, <2>2 DEF Task, Labels
  <2> HIDE DEF u
  <2>5. Only(r) /\ task'[r] = u
    BY <2>3, <2>4, UpdateStep DEF TypeInv
  <2> QED
    BY <1>1, <2>2, <2>4, <2>5
<1> QED
  BY <1>2, <1>3 DEF ExtractDocumentData

\* A result that is stored, is stored for the document that was read.
LEMMA KeepStep ==
  ASSUME TypeInv, NEW r \in Request, ProcessDocument(r), task[r].pc = "keep"
  PROVE  /\ docs' \in [Doc -> DocRow]
         /\ \A d \in Doc : docs'[d].status = docs[d].status
                        /\ docs'[d].deleted = docs[d].deleted
         /\ docs'[task[r].on].verdict = IF task[r].passed THEN "passed" ELSE "failed"
         /\ \A d \in Doc : d # task[r].on => docs'[d] = docs[d]
         /\ Only(r)
         /\ \/ task'[r] = Idle
            \/ /\ task[r].fills
               /\ task'[r].pc = "fill"
               /\ task'[r].on = task[r].on
         /\ UNCHANGED person
<1> DEFINE d == task[r].on
           v == IF task[r].passed THEN "passed" ELSE "failed"
<1>1. /\ d \in Doc
      /\ docs' = [docs EXCEPT ![d].verdict = v]
      /\ UNCHANGED person
      /\ task' = [task EXCEPT ![r] =
                    IF task[r].fills THEN [Idle EXCEPT !.pc = "fill", !.on = d] ELSE Idle]
  BY DEF ProcessDocument, At, TypeInv, GoodTask
<1>2. v \in {"failed", "passed"}
  OBVIOUS
<1> HIDE DEF v
<1>3. /\ docs' \in [Doc -> DocRow]
      /\ docs'[d].verdict = v
      /\ \A e \in Doc : docs'[e].status = docs[e].status /\ docs'[e].deleted = docs[e].deleted
      /\ \A e \in Doc : e # d => docs'[e] = docs[e]
  BY <1>1, <1>2 DEF TypeInv, TypeOK, DocRow
<1>4. CASE task[r].fills
  <2>1. task' = [task EXCEPT ![r] = [Idle EXCEPT !.pc = "fill", !.on = d]]
    BY <1>1, <1>4
  <2>2. Only(r) /\ task'[r].pc = "fill" /\ task'[r].on = d
    BY <1>1, <2>1, FreshStep DEF TypeInv, Labels
  <2> QED
    BY <1>1, <1>3, <1>4, <2>2 DEF v
<1>5. CASE ~task[r].fills
  <2>1. Only(r) /\ task'[r] = Idle
    BY <1>1, <1>5, FinishStep DEF TypeInv
  <2> QED
    BY <1>1, <1>3, <2>1 DEF v
<1> QED
  BY <1>4, <1>5

\* A number that is filled in goes to the owner of the document.
LEMMA FillStep ==
  ASSUME TypeInv, NEW r \in Request, ProcessDocument(r), task[r].pc = "fill"
  PROVE  /\ person' \in [Person -> PersonRow]
         /\ person'[Owner[task[r].on]].nik = "read"
         /\ \A p \in Person : /\ person'[p].active = person[p].active
                              /\ person'[p].erased = person[p].erased
                              /\ person'[p].named = person[p].named
         /\ \A p \in Person : p # Owner[task[r].on] => person'[p] = person[p]
         /\ Only(r)
         /\ task'[r] = Idle
         /\ UNCHANGED docs
<1> DEFINE o == Owner[task[r].on]
<1>1. /\ o \in Person
      /\ person' = [person EXCEPT ![o].nik = "read"]
      /\ task' = [task EXCEPT ![r] = Idle]
      /\ UNCHANGED docs
  BY DocAssumption DEF ProcessDocument, At, TypeInv, GoodTask
<1>2. Only(r) /\ task'[r] = Idle
  BY <1>1, FinishStep DEF TypeInv
<1> QED
  BY <1>1, <1>2 DEF TypeInv, TypeOK, PersonRow

\* The goroutine of an approval goes on while the document and its owner are there.
LEMMA ReloadStep ==
  ASSUME TypeInv, NEW r \in Request, OnDocumentApproved(r)
  PROVE  /\ task[r].pc = "reload"
         /\ Only(r)
         /\ IF Live(task[r].on) /\ Found(Owner[task[r].on])
            THEN task'[r].pc = "list" ELSE task'[r] = Idle
<1>1. CASE Live(task[r].on) /\ Found(Owner[task[r].on])
  <2> DEFINE u == [Idle EXCEPT !.pc = "list"]
  <2>1. u \in Task /\ u.pc = "list"
    BY DEF Idle, Task, Labels
  <2>2. task' = [task EXCEPT ![r] = u]
    BY <1>1 DEF OnDocumentApproved
  <2> HIDE DEF u
  <2> QED
    BY <1>1, <2>1, <2>2, UpdateStep DEF OnDocumentApproved, At, TypeInv
<1>2. CASE ~(Live(task[r].on) /\ Found(Owner[task[r].on]))
  BY <1>2, FinishStep DEF OnDocumentApproved, At, TypeInv
<1> QED
  BY <1>1, <1>2

\* The list is taken once, of those whose payment is confirmed.
LEMMA ListStep ==
  ASSUME TypeInv, NEW r \in Request, ListBatch(r)
  PROVE  /\ task[r].pc = "list"
         /\ Only(r)
         /\ IF ListByBatch = {} THEN task'[r] = Idle
            ELSE /\ task'[r].pc = "check"
                 /\ task'[r].left = {p \in ListByBatch : person[p].active}
<1>1. CASE ListByBatch = {}
  BY <1>1, FinishStep DEF ListBatch, At, TypeInv
<1>2. CASE ListByBatch # {}
  <2> DEFINE S == {p \in ListByBatch : person[p].active}
  <2>1. S \in SUBSET Person
    BY DEF ListByBatch
  <2>2. task' = [task EXCEPT ![r] = [Idle EXCEPT !.pc = "check", !.left = S]]
    BY <1>2 DEF ListBatch
  <2> HIDE DEF S
  <2>3. Only(r) /\ task'[r].pc = "check" /\ task'[r].left = S
    BY <2>1, <2>2, AdvanceStep DEF TypeInv, Labels
  <2> QED
    BY <1>2, <2>3 DEF S, ListBatch, At
<1> QED
  BY <1>1, <1>2

\* A participant who is found complete is not looked at again.
LEMMA CheckStep ==
  ASSUME TypeInv, NEW r \in Request, NEW p \in Person, CheckPerson(r, p)
  PROVE  /\ task[r].pc = "check"
         /\ p \in task[r].left
         /\ Only(r)
         /\ IF AllDocsApproved(p)
            THEN task'[r].pc = "check" /\ task'[r].left = task[r].left \ {p}
            ELSE task'[r] = Idle
<1>1. task[r] \in Task /\ task[r].pc = "check" /\ p \in task[r].left
  BY DEF CheckPerson, At, TypeInv, TypeOK
<1>2. CASE AllDocsApproved(p)
  <2> DEFINE u == [task[r] EXCEPT !.left = @ \ {p}]
  <2>1. u \in Task /\ u.pc = "check" /\ u.left = task[r].left \ {p}
    BY <1>1 DEF Task
  <2>2. task' = [task EXCEPT ![r] = u]
    BY <1>2 DEF CheckPerson
  <2> HIDE DEF u
  <2> QED
    BY <1>1, <1>2, <2>1, <2>2, UpdateStep DEF TypeInv
<1>3. CASE ~AllDocsApproved(p)
  BY <1>1, <1>3, FinishStep DEF CheckPerson, TypeInv
<1> QED
  BY <1>2, <1>3

\* A review writes the status alone; an approval starts a goroutine.
LEMMA ReviewStep ==
  ASSUME TypeInv, NEW r \in Request, NEW d \in Doc, NEW s \in {"disetujui", "ditolak"},
         ReviewDocument(r, d, s)
  PROVE  /\ Exists(d)
         /\ docs' \in [Doc -> DocRow]
         /\ docs'[d].status = s
         /\ \A e \in Doc : docs'[e].deleted = docs[e].deleted
                        /\ docs'[e].verdict = docs[e].verdict
         /\ \A e \in Doc : e # d => docs'[e] = docs[e]
         /\ Only(r)
         /\ IF s = "disetujui"
            THEN task[r].pc = "idle" /\ task'[r].pc = "reload" /\ task'[r].on = d
            ELSE task'[r] = task[r]
         /\ UNCHANGED person
<1>1. docs' = [docs EXCEPT ![d].status = s] /\ Exists(d) /\ UNCHANGED person
  BY DEF ReviewDocument
<1>2. /\ docs' \in [Doc -> DocRow]
      /\ docs'[d].status = s
      /\ \A e \in Doc : docs'[e].deleted = docs[e].deleted
                     /\ docs'[e].verdict = docs[e].verdict
      /\ \A e \in Doc : e # d => docs'[e] = docs[e]
  BY <1>1 DEF TypeInv, TypeOK, DocRow, Statuses
<1>3. CASE s = "disetujui"
  <2>1. /\ task[r].pc = "idle"
        /\ task' = [task EXCEPT ![r] = [Idle EXCEPT !.pc = "reload", !.on = d]]
    BY <1>3 DEF ReviewDocument, Start, At
  <2>2. Only(r) /\ task'[r].pc = "reload" /\ task'[r].on = d
    BY <2>1, FreshStep DEF TypeInv, Labels
  <2> QED
    BY <1>1, <1>2, <1>3, <2>1, <2>2
<1>4. CASE s # "disetujui"
  <2>1. Only(r) /\ task'[r] = task[r]
    BY <1>4 DEF ReviewDocument, Only, TypeInv, TypeOK
  <2> QED
    BY <1>1, <1>2, <1>4, <2>1
<1> QED
  BY <1>3, <1>4

\* A decision holds the request it was made for.
LEMMA ClaimStep ==
  ASSUME TypeInv, NEW r \in Request, NEW q \in Deletion, NEW s \in Decisions,
         ClaimRequest(r, q, FinalStatus(s))
  PROVE  /\ Open(q)
         /\ ~Locked(q)
         /\ Only(r)
         /\ task[r].pc = "idle"
         /\ task'[r].pc = "close"
         /\ task'[r].on = q
         /\ task'[r].to \in {"selesai", "ditolak"}
<1> DEFINE u == [Idle EXCEPT !.pc = "close", !.on = q, !.to = FinalStatus(s)]
<1>1. FinalStatus(s) \in {"selesai", "ditolak"}
  BY DEF FinalStatus
<1>2. u \in Task /\ u.pc = "close" /\ u.on = q /\ u.to = FinalStatus(s)
  BY <1>1 DEF Idle, Task, Labels
<1>3. /\ Open(q)
      /\ ~Locked(q)
      /\ task[r].pc = "idle"
      /\ task' = [task EXCEPT ![r] = u]
  BY DEF ClaimRequest, Start, At
<1> HIDE DEF u
<1> QED
  BY <1>1, <1>2, <1>3, UpdateStep DEF TypeInv

\* The commit of a decision closes the request that was held.
LEMMA CloseStep ==
  ASSUME TypeInv, NEW r \in Request, CloseRequest(r)
  PROVE  LET q == task[r].on IN
         /\ task[r].pc = "close"
         /\ q \in Deletion
         /\ task[r].to \in {"selesai", "ditolak"}
         /\ deletions' \in [Deletion -> Request_]
         /\ deletions'[q].status = task[r].to
         /\ deletions'[q].who = deletions[q].who
         /\ \A o \in Deletion : o # q => deletions'[o] = deletions[o]
         /\ Only(r)
         /\ task'[r] = Idle
         /\ IF task[r].to = "selesai"
            THEN Anonymise(deletions[q].who)
            ELSE UNCHANGED <<person, docs, overlapped, due>>
<1> DEFINE q == task[r].on
<1>1. /\ task[r].pc = "close"
      /\ q \in Deletion
      /\ task[r].to \in {"selesai", "ditolak"}
  BY DEF CloseRequest, At, TypeInv, GoodTask
<1>2. deletions' = [deletions EXCEPT ![q].status = task[r].to]
  BY DEF CloseRequest
<1>3. /\ deletions' \in [Deletion -> Request_]
      /\ deletions'[q].status = task[r].to
      /\ deletions'[q].who = deletions[q].who
      /\ \A o \in Deletion : o # q => deletions'[o] = deletions[o]
  BY <1>1, <1>2 DEF TypeInv, TypeOK, Request_
<1>4. Only(r) /\ task'[r] = Idle
  BY FinishStep DEF TypeInv, CloseRequest
<1> QED
  BY <1>1, <1>3, <1>4 DEF CloseRequest

\* An erasure overwrites one participant, and deletes what belongs to it.
LEMMA AnonymiseStep ==
  ASSUME TypeInv, NEW p \in Person, Anonymise(p)
  PROVE  /\ person' \in [Person -> PersonRow]
         /\ person'[p].erased
         /\ ~person'[p].named
         /\ ~person'[p].active
         /\ person'[p].nik = "none"
         /\ \A o \in Person : o # p => person'[o] = person[o]
         /\ docs' \in [Doc -> DocRow]
         /\ \A d \in Doc : docs'[d].status = docs[d].status
                        /\ docs'[d].verdict = docs[d].verdict
         /\ overlapped \subseteq overlapped'
         /\ overlapped' \subseteq Person
         /\ \A r \in Request : task[r].pc = "profile" /\ task[r].on = p => p \in overlapped'
         /\ due' = FALSE
<1>1. /\ person' \in [Person -> PersonRow]
      /\ person'[p].erased
      /\ ~person'[p].named
      /\ ~person'[p].active
      /\ person'[p].nik = "none"
      /\ \A o \in Person : o # p => person'[o] = person[o]
  BY DEF Anonymise, TypeInv, TypeOK, PersonRow
<1>2. /\ docs' \in [Doc -> DocRow]
      /\ \A d \in Doc : docs'[d].status = docs[d].status
                     /\ docs'[d].verdict = docs[d].verdict
  BY DEF Anonymise, TypeInv, TypeOK, DocRow
<1>3. /\ overlapped \subseteq overlapped'
      /\ overlapped' \subseteq Person
      /\ \A r \in Request : task[r].pc = "profile" /\ task[r].on = p => p \in overlapped'
      /\ due' = FALSE
  BY DEF Anonymise, TypeInv, TypeOK, At
<1> QED
  BY <1>1, <1>2, <1>3

\* A profile change starts for somebody who is found.
LEMMA StartProfileStep ==
  ASSUME TypeInv, NEW r \in Request, NEW p \in Person, PortalUpdateProfile(r, p)
  PROVE  /\ Only(r)
         /\ task[r].pc = "idle"
         /\ task'[r].pc = "profile"
         /\ task'[r].on = p
         /\ ~person[p].erased
<1>1. /\ task[r].pc = "idle"
      /\ task' = [task EXCEPT ![r] = [Idle EXCEPT !.pc = "profile", !.on = p]]
      /\ ~person[p].erased
  BY DEF PortalUpdateProfile, Start, At, Found
<1> QED
  BY <1>1, FreshStep DEF TypeInv, Labels

\* A profile change writes the name of the row it was started for.
LEMMA ProfileStep ==
  ASSUME TypeInv, NEW r \in Request, UpdateProfile(r)
  PROVE  /\ task[r].pc = "profile"
         /\ Only(r)
         /\ task'[r] = Idle
         /\ person' \in [Person -> PersonRow]
         /\ \A p \in Person : /\ person'[p].active = person[p].active
                              /\ person'[p].erased = person[p].erased
                              /\ person'[p].nik = person[p].nik
                              /\ p # task[r].on => person'[p] = person[p]
<1>1. /\ task[r].pc = "profile"
      /\ task[r].on \in Person
      /\ person' = [person EXCEPT ![task[r].on].named = TRUE]
  BY DEF UpdateProfile, At, TypeInv, GoodTask
<1>2. Only(r) /\ task'[r] = Idle
  BY FinishStep DEF TypeInv, UpdateProfile
<1> QED
  BY <1>1, <1>2 DEF TypeInv, TypeOK, PersonRow

\* The initialisation of a checklist takes nothing away.
LEMMA InitForBatchStep ==
  ASSUME TypeInv, InitForBatch
  PROVE  /\ checklist' \in [Person -> (SUBSET Steps) \cup {Null}]
         /\ \A p \in Person : checklist[p] # Null => checklist'[p] = checklist[p]
         /\ \A p \in Person : person[p].active => checklist'[p] # Null
BY RowAssumption DEF InitForBatch, TypeInv, TypeOK

\* A mark completes a row that is there.
LEMMA MarkStep ==
  ASSUME TypeInv, NEW p \in Person, NEW s \in {"baggage", "ticket", "passport"}, Mark(p, s)
  PROVE  /\ checklist' \in [Person -> (SUBSET Steps) \cup {Null}]
         /\ \A o \in Person : checklist[o] # Null => checklist'[o] # Null
         /\ \A o \in Person : checklist[o] = Steps => checklist'[o] = Steps
<1>1. /\ checklist[p] \in SUBSET Steps
      /\ checklist' = [checklist EXCEPT ![p] = checklist[p] \cup {s}]
      /\ s \in Steps
  BY DEF Mark, TypeInv, TypeOK
<1>2. (checklist[p] \cup {s}) \in SUBSET Steps
  BY <1>1
<1> QED
  BY <1>1, <1>2, RowAssumption DEF TypeInv, TypeOK

-----------------------------------------------------------------------------
(* Type correctness.                                                       *)

\* The initial state is well typed and nobody is at work.
LEMMA TypeInit == Init => TypeInv
<1> SUFFICES ASSUME Init PROVE TypeInv
  OBVIOUS
<1>1. TypeOK
  <2>1. person \in [Person -> PersonRow]
    BY DEF Init, PersonRow
  <2>2. docs \in [Doc -> DocRow]
    BY DEF Init, NoDoc, DocRow
  <2>3. deletions \in [Deletion -> Request_]
    BY DEF Init, NoRequest, Request_
  <2>4. task \in [Request -> Task]
    BY IdleType DEF Init
  <2>5. calls \in 0..MaxCalls /\ faults \in 0..MaxFaults
    BY BoundAssumption, FaultAssumption DEF Init
  <2> QED
    BY <2>1, <2>2, <2>3, <2>4, <2>5 DEF Init, TypeOK
<1>2. \A r \in Request : GoodTask(task[r])
  BY IdleType DEF Init
<1>3. \A q \in Deletion : ~Open(q)
  BY NullAssumption DEF Init, Open, NoRequest, Statuses
<1> QED
  BY <1>1, <1>2, <1>3 DEF TypeInv

\* A call stays within its bound.
LEMMA CallStep ==
  ASSUME TypeInv, Call
  PROVE  calls' \in 0..MaxCalls
BY BoundAssumption DEF TypeInv, TypeOK, Call

\* A step of one handler keeps the types when what it writes is well typed.
LEMMA TypeKeeps ==
  ASSUME TypeInv, NEW r \in Request, Only(r), GoodTask(task'[r]),
         person' \in [Person -> PersonRow],
         docs' \in [Doc -> DocRow],
         calls' \in 0..MaxCalls,
         faults' \in 0..MaxFaults,
         UNCHANGED <<desk, erasure>>,
         due' \in BOOLEAN
  PROVE  TypeInv'
BY DEF TypeInv, TypeOK, Only, GoodTask, Open, desk, erasure

\* The steps of uploads, readings and the goroutine of an approval.
LEMMA PapersType ==
  ASSUME TypeInv, NEW r \in Request, Papers(r)
  PROVE  TypeInv'
<1> USE DEF TypeInv, TypeOK
<1>f. UNCHANGED <<desk, erasure, due, faults>>
  BY DEF Papers
<1>1. ASSUME NEW d \in Doc, UploadDocument(r, d) \/ PortalUploadDocument(r, d)
      PROVE  TypeInv'
  <2>1. /\ CreateDocument(d)
        /\ TriggerOCR(r, d)
        /\ UNCHANGED person
        /\ calls' \in 0..MaxCalls
    BY <1>1, CallStep DEF UploadDocument, PortalUploadDocument
  <2>2. /\ docs' \in [Doc -> DocRow]
        /\ Only(r)
        /\ GoodTask(task'[r])
    BY <2>1, UploadStep DEF GoodTask
  <2> QED
    BY <1>f, <2>1, <2>2, TypeKeeps
<1>2. CASE ExtractDocumentData(r)
  <2>1. /\ Only(r)
        /\ GoodTask(task'[r])
        /\ UNCHANGED <<person, docs, calls>>
    BY <1>2, ExtractStep, IdleType DEF GoodTask, ExtractDocumentData
  <2> QED
    BY <1>f, <2>1, TypeKeeps
<1>3. CASE ProcessDocument(r) /\ task[r].pc = "keep"
  <2>1. /\ Only(r)
        /\ GoodTask(task'[r])
        /\ docs' \in [Doc -> DocRow]
        /\ UNCHANGED <<person, calls>>
    BY <1>3, KeepStep, IdleType DEF GoodTask, ProcessDocument
  <2> QED
    BY <1>f, <2>1, TypeKeeps
<1>4. CASE ProcessDocument(r) /\ task[r].pc = "fill"
  <2>1. /\ Only(r)
        /\ GoodTask(task'[r])
        /\ person' \in [Person -> PersonRow]
        /\ UNCHANGED <<docs, calls>>
    BY <1>4, FillStep, IdleType DEF ProcessDocument
  <2> QED
    BY <1>f, <2>1, TypeKeeps
<1>5. CASE OnDocumentApproved(r)
  <2>1. /\ Only(r)
        /\ GoodTask(task'[r])
        /\ UNCHANGED <<person, docs, calls>>
    BY <1>5, ReloadStep, IdleType DEF GoodTask, OnDocumentApproved
  <2> QED
    BY <1>f, <2>1, TypeKeeps
<1>6. CASE ListBatch(r)
  <2>1. /\ Only(r)
        /\ GoodTask(task'[r])
        /\ UNCHANGED <<person, docs, calls>>
    BY <1>6, ListStep, IdleType DEF GoodTask, ListBatch
  <2> QED
    BY <1>f, <2>1, TypeKeeps
<1>7. ASSUME NEW p \in Person, CheckPerson(r, p)
      PROVE  TypeInv'
  <2>1. /\ Only(r)
        /\ GoodTask(task'[r])
        /\ UNCHANGED <<person, docs, calls>>
    BY <1>7, CheckStep, IdleType DEF GoodTask, CheckPerson
  <2> QED
    BY <1>f, <2>1, TypeKeeps
<1>8. ASSUME NEW p \in Person, SetNIK(p)
      PROVE  TypeInv'
  <2>1. /\ Only(r)
        /\ GoodTask(task'[r])
        /\ UNCHANGED docs
        /\ calls' \in 0..MaxCalls
    BY <1>8, CallStep DEF SetNIK, Only
  <2>2. person' \in [Person -> PersonRow]
    BY <1>8 DEF SetNIK, PersonRow
  <2> QED
    BY <1>f, <2>1, <2>2, TypeKeeps
<1>9. ProcessDocument(r) => task[r].pc = "keep" \/ task[r].pc = "fill"
  BY DEF ProcessDocument, At
<1> QED
  BY <1>1, <1>2, <1>3, <1>4, <1>5, <1>6, <1>7, <1>8, <1>9 DEF Papers

\* Every step keeps the types, and what the handlers rely on.
LEMMA TypeStep == TypeInv /\ [Next]_vars => TypeInv'
<1> SUFFICES ASSUME TypeInv, [Next]_vars PROVE TypeInv'
  OBVIOUS
<1> USE DEF TypeInv, TypeOK
<1>1. ASSUME NEW r \in Request, Papers(r)
      PROVE  TypeInv'
  BY <1>1, PapersType
<1>2. ASSUME NEW r \in Request, NEW d \in Doc, NEW s \in {"disetujui", "ditolak"},
             Approve(r, d, s)
      PROVE  TypeInv'
  <2>1. /\ Only(r)
        /\ GoodTask(task'[r])
        /\ docs' \in [Doc -> DocRow]
        /\ UNCHANGED person
    BY <1>2, ReviewStep DEF GoodTask, Approve
  <2>2. /\ calls' \in 0..MaxCalls
        /\ due' \in BOOLEAN
        /\ UNCHANGED <<desk, erasure, faults>>
    BY <1>2, CallStep DEF Approve, ReviewDocument, Live, Exists, Found, PersonRow
  <2> QED
    BY <2>1, <2>2, TypeKeeps
<1>3. ASSUME NEW r \in Request, GenerateChecklist(r)
      PROVE  TypeInv'
  <2>1. Only(r) /\ task'[r] = Idle
    BY <1>3, FinishStep DEF GenerateChecklist
  <2>2. checklist' \in [Person -> (SUBSET Steps) \cup {Null}]
    BY <1>3, InitForBatchStep DEF GenerateChecklist
  <2>3. UNCHANGED <<person, docs, calls, cleared, deletions, overlapped, due, faults>>
    BY <1>3 DEF GenerateChecklist, erasure
  <2> QED
    BY <2>1, <2>2, <2>3, IdleType DEF Only, GoodTask, Open
<1>4. ASSUME NEW r \in Request, ConfirmDeparture(r)
      PROVE  TypeInv'
  <2> DEFINE u == [Idle EXCEPT !.pc = "progress"]
  <2>1. u \in Task /\ GoodTask(u)
    BY DEF Idle, Task, Labels, GoodTask
  <2>2. task' = [task EXCEPT ![r] = u]
    BY <1>4 DEF ConfirmDeparture, Start
  <2> HIDE DEF u
  <2>3. Only(r) /\ GoodTask(task'[r])
    BY <2>1, <2>2, UpdateStep
  <2>4. /\ calls' \in 0..MaxCalls
        /\ UNCHANGED <<person, docs, desk, erasure, due, faults>>
    BY <1>4, CallStep DEF ConfirmDeparture
  <2> QED
    BY <2>3, <2>4, TypeKeeps
<1>5. ASSUME NEW r \in Request, GetBatchProgress(r)
      PROVE  TypeInv'
  <2>1. Only(r) /\ task'[r] = Idle
    BY <1>5, FinishStep DEF GetBatchProgress
  <2>2. cleared' \subseteq Person /\ faults' \in 0..MaxFaults
    BY <1>5, FaultAssumption DEF GetBatchProgress
  <2>3. UNCHANGED <<person, docs, calls, checklist, deletions, overlapped, due>>
    BY <1>5 DEF GetBatchProgress, erasure
  <2> QED
    BY <2>1, <2>2, <2>3, IdleType DEF Only, GoodTask, Open
<1>6. ASSUME NEW r \in Request, NEW q \in Deletion, NEW s \in Decisions,
             ClaimRequest(r, q, FinalStatus(s))
      PROVE  TypeInv'
  <2>1. Only(r) /\ GoodTask(task'[r])
    BY <1>6, ClaimStep DEF GoodTask
  <2>2. /\ calls' \in 0..MaxCalls
        /\ UNCHANGED <<person, docs, desk, erasure, due, faults>>
    BY <1>6, CallStep DEF ClaimRequest
  <2> QED
    BY <2>1, <2>2, TypeKeeps
<1>7. ASSUME NEW r \in Request, CloseRequest(r)
      PROVE  TypeInv'
  <2> DEFINE q == task[r].on
  <2>1. /\ Only(r)
        /\ task'[r] = Idle
        /\ deletions' \in [Deletion -> Request_]
        /\ \A o \in Deletion : deletions'[o].who = deletions[o].who
        /\ \A o \in Deletion : Open(o)' => Open(o)
    BY <1>7, CloseStep DEF Open
  <2>2. UNCHANGED <<calls, checklist, cleared, faults>>
    BY <1>7 DEF CloseRequest, desk
  <2>3. /\ person' \in [Person -> PersonRow]
        /\ docs' \in [Doc -> DocRow]
        /\ overlapped' \subseteq Person
        /\ due' \in BOOLEAN
    <3>1. deletions[q].who \in Person
      BY <1>7, CloseStep DEF GoodTask
    <3>2. CASE task[r].to = "selesai"
      BY <1>7, <3>1, <3>2, CloseStep, AnonymiseStep
    <3>3. CASE task[r].to # "selesai"
      BY <1>7, <3>3, CloseStep
    <3> QED
      BY <3>2, <3>3
  <2>4. TypeOK'
    BY <2>1, <2>2, <2>3 DEF Only
  <2>5. \A o \in Request : GoodTask(task[o])'
    BY <2>1, IdleType DEF Only, GoodTask
  <2> QED
    BY <2>1, <2>4, <2>5
<1>8. ASSUME NEW r \in Request, NEW p \in Person, PortalUpdateProfile(r, p)
      PROVE  TypeInv'
  <2>1. Only(r) /\ GoodTask(task'[r])
    BY <1>8, StartProfileStep DEF GoodTask
  <2>2. /\ calls' \in 0..MaxCalls
        /\ UNCHANGED <<person, docs, desk, erasure, due, faults>>
    BY <1>8, CallStep DEF PortalUpdateProfile
  <2> QED
    BY <2>1, <2>2, TypeKeeps
<1>9. ASSUME NEW r \in Request, UpdateProfile(r)
      PROVE  TypeInv'
  <2>1. Only(r) /\ GoodTask(task'[r]) /\ person' \in [Person -> PersonRow]
    BY <1>9, ProfileStep, IdleType
  <2>2. UNCHANGED <<docs, calls, desk, erasure, due, faults>>
    BY <1>9 DEF UpdateProfile
  <2> QED
    BY <2>1, <2>2, TypeKeeps
<1>10. ASSUME NEW r \in Request, Die(r)
       PROVE  TypeInv'
  <2>1. Only(r) /\ GoodTask(task'[r])
    BY <1>10, FinishStep, IdleType DEF Die
  <2>2. faults' \in 0..MaxFaults
    BY <1>10, FaultAssumption DEF Die
  <2>3. due' \in BOOLEAN /\ UNCHANGED <<person, docs, calls, desk, erasure>>
    BY <1>10 DEF Die
  <2> QED
    BY <2>1, <2>2, <2>3, TypeKeeps
<1>11. ASSUME NEW d \in Doc, Remove(d)
       PROVE  TypeInv'
  <2>1. docs' \in [Doc -> DocRow] /\ calls' \in 0..MaxCalls
    BY <1>11, CallStep DEF Remove, DeleteDocument, DocRow
  <2>2. UNCHANGED <<person, task, desk, erasure, faults>> /\ due' = FALSE
    BY <1>11 DEF Remove, DeleteDocument
  <2> QED
    BY <2>1, <2>2 DEF GoodTask, Open, desk, erasure
<1>12. CASE InitChecklist
  <2>1. checklist' \in [Person -> (SUBSET Steps) \cup {Null}] /\ calls' \in 0..MaxCalls
    BY <1>12, CallStep, InitForBatchStep DEF InitChecklist
  <2>2. UNCHANGED <<person, docs, task, cleared, erasure, due, faults>>
    BY <1>12 DEF InitChecklist
  <2> QED
    BY <2>1, <2>2 DEF GoodTask, Open, erasure
<1>13. ASSUME NEW p \in Person, NEW s \in {"baggage", "ticket", "passport"}, Mark(p, s)
       PROVE  TypeInv'
  <2>1. checklist' \in [Person -> (SUBSET Steps) \cup {Null}] /\ calls' \in 0..MaxCalls
    BY <1>13, CallStep, MarkStep DEF Mark
  <2>2. UNCHANGED <<person, docs, task, cleared, erasure, due, faults>>
    BY <1>13 DEF Mark
  <2> QED
    BY <2>1, <2>2 DEF GoodTask, Open, erasure
<1>14. ASSUME NEW p \in Person, NEW q \in Deletion, PortalRequestDeletion(q, p)
       PROVE  TypeInv'
  <2>1. /\ deletions[q].who = Null
        /\ deletions' \in [Deletion -> Request_]
        /\ deletions'[q].who = p
        /\ \A o \in Deletion : o # q => deletions'[o] = deletions[o]
        /\ UNCHANGED <<person, docs, task, desk, overlapped, due, faults>>
    BY <1>14 DEF PortalRequestDeletion, Request_, NoRequest
  <2>2. calls' \in 0..MaxCalls
    BY <1>14, CallStep DEF PortalRequestDeletion
  <2>3. TypeOK'
    BY <2>1, <2>2 DEF desk
  <2>4. \A r \in Request : GoodTask(task[r])'
    BY <2>1, NullAssumption DEF GoodTask
  <2>5. \A o \in Deletion : Open(o)' => deletions'[o].who \in Person
    BY <2>1 DEF Open
  <2> QED
    BY <2>3, <2>4, <2>5
<1>15. ASSUME NEW p \in Person, Activate(p)
       PROVE  TypeInv'
  <2>1. person' \in [Person -> PersonRow] /\ calls' \in 0..MaxCalls
    BY <1>15, CallStep DEF Activate, PersonRow
  <2>2. UNCHANGED <<docs, task, desk, erasure, faults>> /\ due' = FALSE
    BY <1>15 DEF Activate
  <2> QED
    BY <2>1, <2>2 DEF GoodTask, Open, desk, erasure
<1>16. CASE UNCHANGED vars
  BY <1>16 DEF vars, desk, erasure, GoodTask, Open
<1> QED
  BY <1>1, <1>2, <1>3, <1>4, <1>5, <1>6, <1>7, <1>8, <1>9, <1>10, <1>11, <1>12, <1>13,
     <1>14, <1>15, <1>16
  DEF Next, UpdateBaggage, UpdateTicket, UpdatePassport

\* The state has its types, and a handler works on a row of the kind its step
\* needs: a reading on a document, a profile change on a participant, a
\* decision on a request that names one.
THEOREM TypeCorrect == Spec => []TypeInv
<1>1. Init => TypeInv
  BY TypeInit
<1>2. TypeInv /\ [Next]_vars => TypeInv'
  BY TypeStep
<1> QED
  BY <1>1, <1>2, PTL DEF Spec

\* The variables of the batch and its departure keep their types.
THEOREM TypeOKHolds == Spec => []TypeOK
<1>1. TypeInv => TypeOK
  BY DEF TypeInv
<1> QED
  BY <1>1, TypeCorrect, PTL

-----------------------------------------------------------------------------
(* Which steps a handler can come to.                                      *)

\* A handler that a step does not leave alone ends, or comes to one of L.
ComesTo(L) ==
  \A r \in Request : task'[r] = task[r] \/ task'[r].pc \in L \cup {"idle"}

\* Uploads, readings and the goroutines of approvals stay among themselves,
\* and write no more of a participant than the NIK.
LEMMA PapersFrame ==
  ASSUME TypeInv, NEW r \in Request, Papers(r)
  PROVE  /\ ComesTo({"extract", "keep", "fill", "list", "check"})
         /\ UNCHANGED <<checklist, cleared, deletions, overlapped, due>>
         /\ \A p \in Person : /\ person'[p].active = person[p].active
                              /\ person'[p].erased = person[p].erased
                              /\ person'[p].named = person[p].named
<1>f. UNCHANGED <<checklist, cleared, deletions, overlapped, due>>
  BY DEF Papers, desk, erasure
<1>1. ASSUME NEW d \in Doc, UploadDocument(r, d) \/ PortalUploadDocument(r, d)
      PROVE  ComesTo({"extract"}) /\ UNCHANGED person
  BY <1>1, UploadStep DEF UploadDocument, PortalUploadDocument, Only, ComesTo
<1>2. CASE ExtractDocumentData(r)
  BY <1>2, <1>f, ExtractStep, IdleType DEF ExtractDocumentData, Only, ComesTo
<1>3. CASE ProcessDocument(r) /\ task[r].pc = "keep"
  BY <1>3, <1>f, KeepStep, IdleType DEF Only, ComesTo
<1>4. CASE ProcessDocument(r) /\ task[r].pc = "fill"
  BY <1>4, <1>f, FillStep, IdleType DEF Only, ComesTo
<1>5. CASE OnDocumentApproved(r)
  BY <1>5, <1>f, ReloadStep, IdleType DEF OnDocumentApproved, Only, ComesTo
<1>6. CASE ListBatch(r)
  BY <1>6, <1>f, ListStep, IdleType DEF ListBatch, Only, ComesTo
<1>7. ASSUME NEW p \in Person, CheckPerson(r, p)
      PROVE  ComesTo({"check"}) /\ UNCHANGED person
  BY <1>7, CheckStep, IdleType DEF CheckPerson, Only, ComesTo
<1>8. ASSUME NEW p \in Person, SetNIK(p)
      PROVE  /\ UNCHANGED task
             /\ \A o \in Person : /\ person'[o].active = person[o].active
                                  /\ person'[o].erased = person[o].erased
                                  /\ person'[o].named = person[o].named
  BY <1>8 DEF SetNIK, TypeInv, TypeOK, PersonRow
<1>9. ProcessDocument(r) => task[r].pc = "keep" \/ task[r].pc = "fill"
  BY DEF ProcessDocument, At
<1>10. CASE \E d \in Doc : UploadDocument(r, d) \/ PortalUploadDocument(r, d)
  BY <1>f, <1>1, <1>10 DEF ComesTo
<1>11. CASE \E p \in Person : CheckPerson(r, p)
  BY <1>f, <1>7, <1>11 DEF ComesTo
<1>12. CASE \E p \in Person : SetNIK(p)
  BY <1>f, <1>8, <1>12 DEF ComesTo
<1> QED
  BY <1>2, <1>3, <1>4, <1>5, <1>6, <1>9, <1>10, <1>11, <1>12 DEF Papers

\* A handler that starts comes to its first step, one that ends to none.
LEMMA ComesStep ==
  ASSUME TypeInv, NEW r \in Request
  PROVE  /\ \A d \in Doc, s \in {"disetujui", "ditolak"} :
              Approve(r, d, s) => ComesTo({"reload"})
         /\ GenerateChecklist(r) => ComesTo({})
         /\ ConfirmDeparture(r) => ComesTo({"progress"})
         /\ GetBatchProgress(r) => ComesTo({})
         /\ \A q \in Deletion, s \in Decisions :
              ClaimRequest(r, q, FinalStatus(s)) => ComesTo({"close"})
         /\ CloseRequest(r) => ComesTo({})
         /\ \A p \in Person : PortalUpdateProfile(r, p) => ComesTo({"profile"})
         /\ UpdateProfile(r) => ComesTo({})
         /\ Die(r) => ComesTo({})
<1> USE DEF ComesTo, Only
<1>1. ASSUME NEW d \in Doc, NEW s \in {"disetujui", "ditolak"}, Approve(r, d, s)
      PROVE  ComesTo({"reload"})
  BY <1>1, ReviewStep DEF Approve
<1>2. CASE task' = [task EXCEPT ![r] = Idle]
  BY <1>2, FinishStep DEF TypeInv
<1>3. ConfirmDeparture(r) => ComesTo({"progress"})
  <2> DEFINE u == [Idle EXCEPT !.pc = "progress"]
  <2>1. u \in Task /\ u.pc = "progress"
    BY DEF Idle, Task, Labels
  <2>2. ConfirmDeparture(r) => task' = [task EXCEPT ![r] = u]
    BY DEF ConfirmDeparture, Start
  <2> HIDE DEF u
  <2> QED
    BY <2>1, <2>2, UpdateStep DEF TypeInv
<1>4. ASSUME NEW q \in Deletion, NEW s \in Decisions, ClaimRequest(r, q, FinalStatus(s))
      PROVE  ComesTo({"close"})
  BY <1>4, ClaimStep
<1>5. ASSUME NEW p \in Person, PortalUpdateProfile(r, p)
      PROVE  ComesTo({"profile"})
  BY <1>5, StartProfileStep
<1> QED
  BY <1>1, <1>2, <1>3, <1>4, <1>5
  DEF GenerateChecklist, GetBatchProgress, CloseRequest, UpdateProfile, Die

-----------------------------------------------------------------------------
(* Requests to be forgotten.                                               *)

\* Nobody is erased, no request is touched, no decision begins.
NoDecision ==
  /\ UNCHANGED deletions
  /\ \A p \in Person : person'[p].erased = person[p].erased
  /\ ComesTo(Labels \ {"close"})

\* Only three actions decide or make a request.
LEMMA WhoDecides ==
  ASSUME TypeInv, [Next]_vars
  PROVE  \/ NoDecision
         \/ \E r \in Request, q \in Deletion, s \in Decisions :
              ClaimRequest(r, q, FinalStatus(s))
         \/ \E r \in Request : CloseRequest(r)
         \/ \E p \in Person, q \in Deletion : PortalRequestDeletion(q, p)
<1> USE DEF Labels
<1>1. ASSUME NEW r \in Request, Papers(r)
      PROVE  NoDecision
  BY <1>1, PapersFrame DEF NoDecision, ComesTo
<1>2. ASSUME NEW r \in Request,
             \/ \E d \in Doc, s \in {"disetujui", "ditolak"} : Approve(r, d, s)
             \/ GenerateChecklist(r)
             \/ ConfirmDeparture(r)
             \/ GetBatchProgress(r)
             \/ \E p \in Person : PortalUpdateProfile(r, p)
             \/ UpdateProfile(r)
             \/ Die(r)
      PROVE  NoDecision
  <2>1. ComesTo({"reload"}) \/ ComesTo({}) \/ ComesTo({"progress"}) \/ ComesTo({"profile"})
    BY <1>2, ComesStep
  <2>2. ComesTo(Labels \ {"close"})
    BY <2>1 DEF ComesTo
  <2>3. /\ UNCHANGED deletions
        /\ \A p \in Person : person'[p].erased = person[p].erased
    <3>1. CASE UpdateProfile(r)
      BY <3>1, ProfileStep DEF UpdateProfile, erasure
    <3>2. CASE ~UpdateProfile(r)
      BY <1>2, <3>2 DEF Approve, ReviewDocument, GenerateChecklist, ConfirmDeparture,
                        GetBatchProgress, PortalUpdateProfile, Die, erasure
    <3> QED
      BY <3>1, <3>2
  <2> QED
    BY <2>2, <2>3 DEF NoDecision
<1>3. CASE \/ \E d \in Doc : Remove(d)
           \/ InitChecklist
           \/ \E p \in Person : UpdateBaggage(p) \/ UpdateTicket(p) \/ UpdatePassport(p)
           \/ UNCHANGED vars
  BY <1>3 DEF NoDecision, ComesTo, Remove, DeleteDocument, InitChecklist, UpdateBaggage,
              UpdateTicket, UpdatePassport, Mark, vars, erasure
<1>4. ASSUME NEW p \in Person, Activate(p)
      PROVE  NoDecision
  BY <1>4 DEF NoDecision, ComesTo, Activate, erasure, TypeInv, TypeOK, PersonRow
<1> QED
  BY <1>1, <1>2, <1>3, <1>4 DEF Next

\* At most one decision is open on a request, it finds the request open, and
\* exactly those whose request was granted are erased.
LEMMA ErasureStep == TypeInv /\ ErasureInv /\ [Next]_vars => ErasureInv'
<1> SUFFICES ASSUME TypeInv, ErasureInv, [Next]_vars PROVE ErasureInv'
  OBVIOUS
<1> USE DEF TypeInv
<1>1. CASE NoDecision
  <2>1. \A r \in Request : task'[r].pc = "close" => task'[r] = task[r]
    BY <1>1 DEF NoDecision, ComesTo
  <2>2. ErasureMatchesRequest'
    BY <1>1 DEF NoDecision, ErasureInv, ErasureMatchesRequest
  <2> QED
    BY <1>1, <2>1, <2>2 DEF NoDecision, ErasureInv, At, Open
<1>2. ASSUME NEW r \in Request, NEW q \in Deletion, NEW s \in Decisions,
             ClaimRequest(r, q, FinalStatus(s))
      PROVE  ErasureInv'
  <2>1. /\ Open(q)
        /\ \A o \in Request : task[o].pc = "close" => task[o].on # q
        /\ Only(r)
        /\ task'[r].on = q
        /\ UNCHANGED <<person, deletions>>
    BY <1>2, ClaimStep DEF Locked, At, ClaimRequest, erasure
  <2>2. ErasureMatchesRequest'
    BY <2>1 DEF ErasureInv, ErasureMatchesRequest
  <2>3. \A o \in Request : At(o, "close")' => Open(task[o].on)'
    BY <2>1 DEF ErasureInv, At, Open, Only
  <2>4. \A o, x \in Request :
          At(o, "close")' /\ At(x, "close")' /\ task'[o].on = task'[x].on => o = x
    BY <2>1 DEF ErasureInv, At, Only
  <2> QED
    BY <2>2, <2>3, <2>4 DEF ErasureInv
<1>3. ASSUME NEW r \in Request, CloseRequest(r)
      PROVE  ErasureInv'
  <2> DEFINE q == task[r].on
             p == deletions[q].who
  <2>1. /\ task[r].pc = "close"
        /\ q \in Deletion
        /\ p \in Person
        /\ deletions[q].status = "menunggu"
        /\ deletions'[q].status = task[r].to
        /\ deletions'[q].who = p
        /\ deletions' \in [Deletion -> Request_]
        /\ \A o \in Deletion : o # q => deletions'[o] = deletions[o]
        /\ Only(r)
        /\ task'[r].pc = "idle"
    BY <1>3, CloseStep, IdleType DEF ErasureInv, At, Open, GoodTask
  <2>2. \A o \in Request : At(o, "close")' => Open(task[o].on)'
    <3> SUFFICES ASSUME NEW o \in Request, At(o, "close")' PROVE Open(task[o].on)'
      OBVIOUS
    <3>1. o # r /\ task'[o] = task[o] /\ task[o].pc = "close"
      BY <2>1 DEF At, Only
    <3>2. /\ task[o].on # q
          /\ task[o].on \in Deletion
          /\ Open(task[o].on)
      BY <2>1, <3>1 DEF ErasureInv, At, GoodTask
    <3> QED
      BY <2>1, <3>1, <3>2 DEF Open
  <2>3. \A o, x \in Request :
          At(o, "close")' /\ At(x, "close")' /\ task'[o].on = task'[x].on => o = x
    BY <2>1 DEF ErasureInv, At, Only
  <2>4. ASSUME NEW o \in Person
        PROVE  person'[o].erased
                 <=> \E x \in Deletion : deletions'[x] = [who |-> o, status |-> "selesai"]
    <3>1. person[o].erased
            <=> \E x \in Deletion : deletions[x] = [who |-> o, status |-> "selesai"]
      BY DEF ErasureInv, ErasureMatchesRequest
    <3>2. deletions[q] # [who |-> o, status |-> "selesai"]
      BY <2>1
    <3>3. CASE task[r].to = "selesai"
      <4>1. /\ person'[p].erased
            /\ \A x \in Person : x # p => person'[x] = person[x]
        BY <1>3, <2>1, <3>3, CloseStep, AnonymiseStep
      <4>2. deletions'[q] = [who |-> p, status |-> "selesai"]
        BY <2>1, <3>3 DEF Request_
      <4>3. CASE o = p
        BY <2>1, <4>1, <4>2, <4>3
      <4>4. CASE o # p
        <5>1. person'[o] = person[o]
          BY <4>1, <4>4
        <5>2. deletions'[q] # [who |-> o, status |-> "selesai"]
          BY <2>1, <4>4
        <5> QED
          BY <2>1, <3>1, <3>2, <5>1, <5>2
      <4> QED
        BY <4>3, <4>4
    <3>4. CASE task[r].to # "selesai"
      <4>1. person' = person
        BY <1>3, <3>4, CloseStep
      <4>2. deletions'[q] # [who |-> o, status |-> "selesai"]
        BY <2>1, <3>4
      <4> QED
        BY <2>1, <3>1, <3>2, <4>1, <4>2
    <3> QED
      BY <3>3, <3>4
  <2> QED
    BY <2>2, <2>3, <2>4 DEF ErasureInv, ErasureMatchesRequest
<1>4. ASSUME NEW p \in Person, NEW q \in Deletion, PortalRequestDeletion(q, p)
      PROVE  ErasureInv'
  <2>1. /\ deletions[q].status = Null
        /\ deletions'[q] = [who |-> p, status |-> "menunggu"]
        /\ \A o \in Deletion : o # q => deletions'[o] = deletions[o]
        /\ UNCHANGED <<person, task>>
    BY <1>4 DEF PortalRequestDeletion, NoRequest, TypeOK
  <2>2. \A r \in Request : At(r, "close")' => Open(task[r].on)'
    BY <2>1, NullAssumption DEF ErasureInv, At, Open, GoodTask, Statuses
  <2>3. ASSUME NEW o \in Person
        PROVE  person'[o].erased
                 <=> \E x \in Deletion : deletions'[x] = [who |-> o, status |-> "selesai"]
    <3>1. person[o].erased
            <=> \E x \in Deletion : deletions[x] = [who |-> o, status |-> "selesai"]
      BY DEF ErasureInv, ErasureMatchesRequest
    <3>2. /\ deletions[q] # [who |-> o, status |-> "selesai"]
          /\ deletions'[q] # [who |-> o, status |-> "selesai"]
      BY <2>1, RowAssumption
    <3> QED
      BY <2>1, <3>1, <3>2
  <2> QED
    BY <2>1, <2>2, <2>3 DEF ErasureInv, ErasureMatchesRequest, At
<1> QED
  BY <1>1, <1>2, <1>3, <1>4, WhoDecides

\* The erasure requests and the anonymised participants agree in every state.
LEMMA ErasureInvariant == Spec => [](TypeInv /\ ErasureInv)
<1>1. Init => ErasureInv
  BY NullAssumption, RowAssumption, IdleType
  DEF Init, ErasureInv, ErasureMatchesRequest, At, NoRequest
<1>2. Init => TypeInv
  BY TypeInit
<1>3. TypeInv /\ ErasureInv /\ [Next]_vars => (TypeInv /\ ErasureInv)'
  BY TypeStep, ErasureStep
<1> QED
  BY <1>1, <1>2, <1>3, PTL DEF Spec

\* Exactly those whose request was granted are anonymised, whatever dies half
\* way through a decision: the two are written by one transaction.
THEOREM ErasureMatches == Spec => []ErasureMatchesRequest
<1>1. ErasureInv => ErasureMatchesRequest
  BY DEF ErasureInv
<1> QED
  BY <1>1, ErasureInvariant, PTL

\* A decision on a request to be forgotten is final: who decides holds the
\* request, and nobody else then finds it open.
THEOREM DecisionsAreFinal == Spec => DecisionsStand
<1>1. TypeInv /\ ErasureInv /\ [Next]_vars
        => [\A q \in Deletion :
              deletions[q].status \in {"selesai", "ditolak"}
                => deletions'[q] = deletions[q]]_vars
  <2> SUFFICES ASSUME TypeInv, ErasureInv, [Next]_vars,
                      NEW q \in Deletion, deletions[q].status \in {"selesai", "ditolak"}
               PROVE  deletions'[q] = deletions[q]
    OBVIOUS
  <2>1. CASE NoDecision
    BY <2>1 DEF NoDecision
  <2>2. ASSUME NEW r \in Request, NEW o \in Deletion, NEW s \in Decisions,
               ClaimRequest(r, o, FinalStatus(s))
        PROVE  deletions'[q] = deletions[q]
    BY <2>2 DEF ClaimRequest, erasure
  <2>3. ASSUME NEW r \in Request, CloseRequest(r)
        PROVE  deletions'[q] = deletions[q]
    <3>1. /\ task[r].pc = "close"
          /\ \A o \in Deletion : o # task[r].on => deletions'[o] = deletions[o]
      BY <2>3, CloseStep
    <3>2. deletions[task[r].on].status = "menunggu"
      BY <3>1 DEF ErasureInv, At, Open
    <3> QED
      BY <3>1, <3>2
  <2>4. ASSUME NEW p \in Person, NEW o \in Deletion, PortalRequestDeletion(o, p)
        PROVE  deletions'[q] = deletions[q]
    <3>1. deletions[o].status = Null
      BY <2>4 DEF PortalRequestDeletion, NoRequest
    <3>2. o # q
      BY <3>1, NullAssumption, RowAssumption DEF Statuses
    <3> QED
      BY <2>4, <3>2 DEF PortalRequestDeletion, TypeInv, TypeOK
  <2> QED
    BY <2>1, <2>2, <2>3, <2>4, WhoDecides
<1>2. Spec => [][\A q \in Deletion :
                   deletions[q].status \in {"selesai", "ditolak"}
                     => deletions'[q] = deletions[q]]_vars
  BY <1>1, ErasureInvariant, PTL DEF Spec
<1> QED
  BY <1>2 DEF DecisionsStand

\* Before anybody has asked, the queue is empty and nobody is forgotten.
LEMMA QueueInit == Init => Queue!Init
BY DEF Init, Queue!Init

\* The commit of a decision grants or refuses the request; whoever asks is
\* queued; no other step touches a request or forgets anybody.
LEMMA QueueStep == TypeInv /\ ErasureInv /\ [Next]_vars => [Queue!Next]_(Queue!vars)
<1> DEFINE Gone == {p \in Person : person[p].erased}
<1> SUFFICES ASSUME TypeInv, ErasureInv, [Next]_vars
             PROVE  Queue!Next \/ UNCHANGED <<deletions, Gone>>
  BY DEF Queue!vars
<1>1. CASE NoDecision
  BY <1>1 DEF NoDecision
<1>2. CASE \E r \in Request, q \in Deletion, s \in Decisions : ClaimRequest(r, q, FinalStatus(s))
  BY <1>2 DEF ClaimRequest, erasure
<1>3. ASSUME NEW r \in Request, CloseRequest(r)
      PROVE  Queue!Next
  <2>0. task[r].on \in Deletion /\ deletions[task[r].on].who \in Person
    BY <1>3, CloseStep DEF TypeInv, GoodTask
  <2> PICK q \in Deletion, p \in Person : q = task[r].on /\ p = deletions[q].who
    BY <2>0
  <2>1. /\ task[r].pc = "close"
        /\ task[r].to \in {"selesai", "ditolak"}
        /\ deletions'[q].status = task[r].to
        /\ deletions'[q].who = p
        /\ deletions' \in [Deletion -> Request_]
        /\ \A o \in Deletion : o # q => deletions'[o] = deletions[o]
    BY <1>3, CloseStep
  <2>2. deletions[q].status = "menunggu"
    BY <2>1 DEF ErasureInv, At, Open
  <2>3. deletions[q] = Queue!Waiting(p)
    BY <2>1, <2>2 DEF Queue!Waiting, TypeInv, TypeOK, Request_
  <2>4. deletions' = [deletions EXCEPT ![q] = [who |-> p, status |-> task[r].to]]
    <3>1. deletions'[q] = [who |-> p, status |-> task[r].to]
      BY <2>1 DEF Request_
    <3> QED
      BY <2>1, <3>1 DEF TypeInv, TypeOK
  <2>5. CASE task[r].to = "selesai"
    <3>1. /\ person'[p].erased
          /\ \A o \in Person : o # p => person'[o] = person[o]
      BY <1>3, <2>5, CloseStep, AnonymiseStep
    <3>2. Gone' = Gone \cup {p}
      BY <3>1
    <3>3. Queue!Grant(q, p)
      BY <2>3, <2>4, <2>5, <3>2 DEF Queue!Grant, Queue!Granted
    <3> QED
      BY <3>3 DEF Queue!Next
  <2>6. CASE task[r].to = "ditolak"
    <3>1. UNCHANGED person
      BY <1>3, <2>6, CloseStep
    <3>2. Queue!Refuse(q, p)
      BY <2>3, <2>4, <2>6, <3>1 DEF Queue!Refuse, Queue!Refused
    <3> QED
      BY <3>2 DEF Queue!Next
  <2> QED
    BY <2>1, <2>5, <2>6
<1>4. ASSUME NEW p \in Person, NEW q \in Deletion, PortalRequestDeletion(q, p)
      PROVE  Queue!Next
  <2>1. /\ deletions[q] = NoRequest
        /\ deletions' = [deletions EXCEPT ![q] = Queue!Waiting(p)]
        /\ UNCHANGED person
    BY <1>4 DEF PortalRequestDeletion, Queue!Waiting
  <2>2. \A o \in Deletion : deletions[o] # Queue!Waiting(p)
    BY <1>4 DEF PortalRequestDeletion, Open, Queue!Waiting
  <2>3. Queue!Ask(q, p)
    BY <2>1, <2>2 DEF Queue!Ask
  <2> QED
    BY <2>3 DEF Queue!Next
<1> QED
  BY <1>1, <1>2, <1>3, <1>4, WhoDecides

\* The handlers, transactions and deaths behind it do not show in the queue:
\* a request is decided once, and granted together with the erasure.
THEOREM QueueRefined == Spec => ImplementsQueue
<1> QED
  BY ErasureInvariant, QueueInit, QueueStep, PTL
  DEF Spec, ImplementsQueue, Queue!Spec

-----------------------------------------------------------------------------
(* Profile changes.                                                        *)

\* No profile change begins, and none is written.
NoProfile ==
  /\ UNCHANGED overlapped
  /\ \A p \in Person : /\ person'[p].erased = person[p].erased
                       /\ person'[p].named = person[p].named
  /\ ComesTo(Labels \ {"profile"})

\* Only three actions write a name, or are about to.
LEMMA WhoWritesNames ==
  ASSUME TypeInv, [Next]_vars
  PROVE  \/ NoProfile
         \/ \E r \in Request, p \in Person : PortalUpdateProfile(r, p)
         \/ \E r \in Request : UpdateProfile(r)
         \/ \E r \in Request : CloseRequest(r)
<1> USE DEF Labels
<1>1. ASSUME NEW r \in Request, Papers(r)
      PROVE  NoProfile
  BY <1>1, PapersFrame DEF NoProfile, ComesTo
<1>2. ASSUME NEW r \in Request,
             \/ \E d \in Doc, s \in {"disetujui", "ditolak"} : Approve(r, d, s)
             \/ GenerateChecklist(r)
             \/ ConfirmDeparture(r)
             \/ GetBatchProgress(r)
             \/ \E q \in Deletion, s \in Decisions : ClaimRequest(r, q, FinalStatus(s))
             \/ Die(r)
      PROVE  NoProfile
  <2>1. ComesTo({"reload"}) \/ ComesTo({}) \/ ComesTo({"progress"}) \/ ComesTo({"close"})
    BY <1>2, ComesStep
  <2>2. ComesTo(Labels \ {"profile"})
    BY <2>1 DEF ComesTo
  <2>3. UNCHANGED <<person, overlapped>>
    BY <1>2 DEF Approve, ReviewDocument, GenerateChecklist, ConfirmDeparture,
                GetBatchProgress, ClaimRequest, Die, erasure
  <2> QED
    BY <2>2, <2>3 DEF NoProfile
<1>3. CASE \/ \E d \in Doc : Remove(d)
           \/ InitChecklist
           \/ \E p \in Person : UpdateBaggage(p) \/ UpdateTicket(p) \/ UpdatePassport(p)
           \/ \E p \in Person, q \in Deletion : PortalRequestDeletion(q, p)
           \/ UNCHANGED vars
  BY <1>3 DEF NoProfile, ComesTo, Remove, DeleteDocument, InitChecklist, UpdateBaggage,
              UpdateTicket, UpdatePassport, Mark, PortalRequestDeletion, vars, erasure
<1>4. ASSUME NEW p \in Person, Activate(p)
      PROVE  NoProfile
  BY <1>4 DEF NoProfile, ComesTo, Activate, erasure, TypeInv, TypeOK, PersonRow
<1> QED
  BY <1>1, <1>2, <1>3, <1>4 DEF Next

\* An erasure notes the profile change it overtakes; one that begins later
\* does not find the participant.
LEMMA ProfileInvStep == TypeInv /\ ProfileInv /\ [Next]_vars => ProfileInv'
<1> SUFFICES ASSUME TypeInv, ProfileInv, [Next]_vars PROVE ProfileInv'
  OBVIOUS
<1> USE DEF TypeInv
<1>1. CASE NoProfile
  <2>1. \A r \in Request : task'[r].pc = "profile" => task'[r] = task[r]
    BY <1>1 DEF NoProfile, ComesTo
  <2> QED
    BY <1>1, <2>1 DEF NoProfile, ProfileInv, RestoredByOverlap, At, GoodTask
<1>2. ASSUME NEW r \in Request, NEW p \in Person, PortalUpdateProfile(r, p)
      PROVE  ProfileInv'
  <2>1. /\ Only(r)
        /\ task'[r].on = p
        /\ ~person[p].erased
        /\ UNCHANGED <<person, overlapped>>
    BY <1>2, StartProfileStep DEF PortalUpdateProfile, erasure
  <2> QED
    BY <2>1 DEF ProfileInv, RestoredByOverlap, At, Only
<1>3. ASSUME NEW r \in Request, UpdateProfile(r)
      PROVE  ProfileInv'
  <2>1. /\ task[r].pc = "profile"
        /\ task[r].on \in Person
        /\ Only(r)
        /\ task'[r].pc = "idle"
        /\ \A p \in Person : /\ person'[p].erased = person[p].erased
                             /\ p # task[r].on => person'[p] = person[p]
        /\ UNCHANGED overlapped
    BY <1>3, ProfileStep, IdleType DEF UpdateProfile, erasure, GoodTask
  <2>2. \A o \in Request :
          At(o, "profile")' /\ person'[task'[o].on].erased => task'[o].on \in overlapped'
    BY <2>1 DEF ProfileInv, At, Only, GoodTask
  <2>3. ASSUME NEW p \in Person, person'[p].erased, person'[p].named
        PROVE  p \in overlapped'
    <3>1. CASE p = task[r].on
      BY <2>1, <2>3, <3>1 DEF ProfileInv, At
    <3>2. CASE p # task[r].on
      BY <2>1, <2>3, <3>2 DEF ProfileInv, RestoredByOverlap
    <3> QED
      BY <3>1, <3>2
  <2> QED
    BY <2>2, <2>3 DEF ProfileInv, RestoredByOverlap
<1>4. ASSUME NEW r \in Request, CloseRequest(r)
      PROVE  ProfileInv'
  <2> DEFINE p == deletions[task[r].on].who
  <2>1. Only(r) /\ task'[r].pc = "idle" /\ p \in Person
    BY <1>4, CloseStep, IdleType DEF GoodTask
  <2>2. CASE task[r].to = "selesai"
    <3>1. /\ ~person'[p].named
          /\ \A o \in Person : o # p => person'[o] = person[o]
          /\ overlapped \subseteq overlapped'
          /\ \A o \in Request : task[o].pc = "profile" /\ task[o].on = p => p \in overlapped'
      BY <1>4, <2>1, <2>2, CloseStep, AnonymiseStep
    <3>2. ASSUME NEW o \in Request, At(o, "profile")', person'[task'[o].on].erased
          PROVE  task'[o].on \in overlapped'
      <4>1. task'[o] = task[o] /\ At(o, "profile") /\ task[o].on \in Person
        BY <2>1, <3>2 DEF At, Only, GoodTask
      <4> QED
        BY <3>1, <3>2, <4>1 DEF ProfileInv, At
    <3>3. RestoredByOverlap'
      BY <3>1 DEF ProfileInv, RestoredByOverlap
    <3> QED
      BY <3>2, <3>3 DEF ProfileInv
  <2>3. CASE task[r].to # "selesai"
    <3>1. UNCHANGED <<person, overlapped>>
      BY <1>4, <2>3, CloseStep
    <3> QED
      BY <2>1, <3>1 DEF ProfileInv, RestoredByOverlap, At, Only
  <2> QED
    BY <2>2, <2>3
<1> QED
  BY <1>1, <1>2, <1>3, <1>4, WhoWritesNames

\* The name of somebody erased comes back only by a profile change that was
\* under way when the erasure was committed; a later one is refused.
THEOREM RestoredOnlyByOverlap == Spec => []RestoredByOverlap
<1>1. Init => TypeInv /\ ProfileInv
  BY TypeInit, IdleType DEF Init, ProfileInv, RestoredByOverlap, At
<1>2. TypeInv /\ ProfileInv /\ [Next]_vars => (TypeInv /\ ProfileInv)'
  BY TypeStep, ProfileInvStep
<1>3. ProfileInv => RestoredByOverlap
  BY DEF ProfileInv
<1> QED
  BY <1>1, <1>2, <1>3, PTL DEF Spec

-----------------------------------------------------------------------------
(* The handling desk.                                                      *)

\* A row that is there stays, and a complete one stays complete.
LEMMA RowsStay ==
  ASSUME TypeInv, [Next]_vars
  PROVE  /\ \A p \in Person : checklist[p] # Null => checklist'[p] # Null
         /\ \A p \in Person : checklist[p] = Steps => checklist'[p] = Steps
<1>1. Steps # Null
  BY RowAssumption
<1>2. CASE InitForBatch
  BY <1>1, <1>2, InitForBatchStep
<1>3. ASSUME NEW p \in Person, NEW s \in {"baggage", "ticket", "passport"}, Mark(p, s)
      PROVE  /\ \A o \in Person : checklist[o] # Null => checklist'[o] # Null
             /\ \A o \in Person : checklist[o] = Steps => checklist'[o] = Steps
  BY <1>3, MarkStep
<1>4. \/ UNCHANGED checklist
      \/ InitForBatch
      \/ \E p \in Person, s \in {"baggage", "ticket", "passport"} : Mark(p, s)
  BY DEF Next, vars, desk, Papers, Approve, GenerateChecklist, ConfirmDeparture,
         GetBatchProgress, ClaimRequest, CloseRequest, PortalUpdateProfile, UpdateProfile,
         Die, Remove, InitChecklist, UpdateBaggage, UpdateTicket, UpdatePassport,
         PortalRequestDeletion, Activate
<1> QED
  BY <1>2, <1>3, <1>4

\* Whoever was found handled when a departure was confirmed stays handled: the
\* initialisations of approvals and of the desk leave a row that exists alone.
THEOREM ClearedStays == Spec => []ClearedStaysHandled
<1>1. Init => TypeInv /\ ClearedStaysHandled
  BY TypeInit DEF Init, ClearedStaysHandled
<1>2. TypeInv /\ ClearedStaysHandled /\ [Next]_vars => (TypeInv /\ ClearedStaysHandled)'
  <2> SUFFICES ASSUME TypeInv, ClearedStaysHandled, [Next]_vars
               PROVE  ClearedStaysHandled'
    BY TypeStep
  <2>1. \/ UNCHANGED cleared
        \/ \E r \in Request : GetBatchProgress(r)
    BY DEF Next, vars, desk, Papers, Approve, GenerateChecklist, ConfirmDeparture,
           ClaimRequest, CloseRequest, PortalUpdateProfile, UpdateProfile,
           Die, Remove, InitChecklist, UpdateBaggage, UpdateTicket, UpdatePassport, Mark,
           PortalRequestDeletion, Activate
  <2>2. CASE UNCHANGED cleared
    BY <2>2, RowsStay DEF ClearedStaysHandled, TypeInv, TypeOK
  <2>3. ASSUME NEW r \in Request, GetBatchProgress(r)
        PROVE  ClearedStaysHandled'
    BY <2>3 DEF GetBatchProgress, Pending, ClearedStaysHandled
  <2> QED
    BY <2>1, <2>2, <2>3
<1> QED
  BY <1>1, <1>2, PTL DEF Spec

-----------------------------------------------------------------------------
(* Readings.                                                               *)

\* No document is created or read, and no number filled in.
NoReading ==
  /\ \A d \in Doc : (Exists(d)' <=> Exists(d)) /\ docs'[d].verdict = docs[d].verdict
  /\ \A p \in Person : person'[p].nik = "read" => person[p].nik = "read"
  /\ ComesTo(Labels \ {"extract", "keep", "fill"})

\* Only uploads, readings and what is stored of them touch a verdict or fill in
\* a number.
LEMMA WhoReads ==
  ASSUME TypeInv, [Next]_vars
  PROVE  \/ NoReading
         \/ \E r \in Request, d \in Doc :
              CreateDocument(d) /\ TriggerOCR(r, d) /\ UNCHANGED person
         \/ \E r \in Request : ExtractDocumentData(r)
         \/ \E r \in Request : ProcessDocument(r)
<1> USE DEF Labels
<1>1. ASSUME NEW r \in Request,
             \/ OnDocumentApproved(r)
             \/ ListBatch(r)
             \/ \E p \in Person : CheckPerson(r, p)
      PROVE  NoReading
  <2>1. \/ ComesTo({"list"})
        \/ ComesTo({"check"})
    BY <1>1, ReloadStep, ListStep, CheckStep, IdleType DEF ComesTo, Only
  <2>2. ComesTo(Labels \ {"extract", "keep", "fill"})
    BY <2>1 DEF ComesTo
  <2>3. UNCHANGED <<person, docs>>
    BY <1>1 DEF OnDocumentApproved, ListBatch, CheckPerson
  <2> QED
    BY <2>2, <2>3 DEF NoReading, Exists
<1>2. ASSUME NEW p \in Person, SetNIK(p)
      PROVE  NoReading
  BY <1>2 DEF SetNIK, NoReading, Exists, ComesTo, TypeInv, TypeOK, PersonRow
<1>3. ASSUME NEW r \in Request, NEW d \in Doc, NEW s \in {"disetujui", "ditolak"},
             Approve(r, d, s)
      PROVE  NoReading
  <2>1. /\ Exists(d)
        /\ docs'[d].status = s
        /\ \A e \in Doc : docs'[e].verdict = docs[e].verdict
        /\ \A e \in Doc : e # d => docs'[e] = docs[e]
        /\ UNCHANGED person
    BY <1>3, ReviewStep DEF Approve
  <2>2. ComesTo(Labels \ {"extract", "keep", "fill"})
    BY <1>3, ComesStep DEF ComesTo
  <2>3. s # Null
    BY NullAssumption DEF Statuses
  <2> QED
    BY <2>1, <2>2, <2>3 DEF NoReading, Exists
<1>4. ASSUME NEW r \in Request,
             \/ GenerateChecklist(r)
             \/ ConfirmDeparture(r)
             \/ GetBatchProgress(r)
             \/ \E q \in Deletion, s \in Decisions : ClaimRequest(r, q, FinalStatus(s))
             \/ \E p \in Person : PortalUpdateProfile(r, p)
             \/ Die(r)
      PROVE  NoReading
  <2>1. ComesTo({}) \/ ComesTo({"progress"}) \/ ComesTo({"close"}) \/ ComesTo({"profile"})
    BY <1>4, ComesStep
  <2>2. ComesTo(Labels \ {"extract", "keep", "fill"})
    BY <2>1 DEF ComesTo
  <2>3. UNCHANGED <<person, docs>>
    BY <1>4 DEF GenerateChecklist, ConfirmDeparture, GetBatchProgress, ClaimRequest,
                PortalUpdateProfile, Die
  <2> QED
    BY <2>2, <2>3 DEF NoReading, Exists
<1>5. ASSUME NEW r \in Request, CloseRequest(r)
      PROVE  NoReading
  <2>1. ComesTo(Labels \ {"extract", "keep", "fill"})
    BY <1>5, ComesStep DEF ComesTo
  <2>2. deletions[task[r].on].who \in Person
    BY <1>5, CloseStep DEF TypeInv, GoodTask
  <2>3. CASE task[r].to = "selesai"
    <3>1. Anonymise(deletions[task[r].on].who)
      BY <1>5, <2>3, CloseStep
    <3>2. /\ \A d \in Doc : docs'[d].status = docs[d].status
                         /\ docs'[d].verdict = docs[d].verdict
          /\ \A p \in Person : person'[p].nik = "none" \/ person'[p] = person[p]
      BY <2>2, <3>1, AnonymiseStep
    <3> QED
      BY <2>1, <3>2 DEF NoReading, Exists
  <2>4. CASE task[r].to # "selesai"
    <3>1. UNCHANGED <<person, docs>>
      BY <1>5, <2>4, CloseStep
    <3> QED
      BY <2>1, <3>1 DEF NoReading, Exists
  <2> QED
    BY <2>3, <2>4
<1>6. ASSUME NEW r \in Request, UpdateProfile(r)
      PROVE  NoReading
  <2>1. ComesTo(Labels \ {"extract", "keep", "fill"})
    BY <1>6, ComesStep DEF ComesTo
  <2>2. /\ \A p \in Person : person'[p].nik = person[p].nik
        /\ UNCHANGED docs
    BY <1>6, ProfileStep DEF UpdateProfile
  <2> QED
    BY <2>1, <2>2 DEF NoReading, Exists
<1>7. CASE \/ InitChecklist
           \/ \E p \in Person : UpdateBaggage(p) \/ UpdateTicket(p) \/ UpdatePassport(p)
           \/ \E p \in Person, q \in Deletion : PortalRequestDeletion(q, p)
           \/ UNCHANGED vars
  BY <1>7 DEF NoReading, Exists, ComesTo, InitChecklist, UpdateBaggage, UpdateTicket,
              UpdatePassport, Mark, PortalRequestDeletion, vars
<1>8. ASSUME NEW d \in Doc, Remove(d)
      PROVE  NoReading
  BY <1>8 DEF Remove, DeleteDocument, NoReading, Exists, ComesTo, TypeInv, TypeOK, DocRow
<1>9. ASSUME NEW p \in Person, Activate(p)
      PROVE  NoReading
  BY <1>9 DEF Activate, NoReading, Exists, ComesTo, TypeInv, TypeOK, PersonRow
<1>10. ASSUME NEW r \in Request, Papers(r)
       PROVE  \/ NoReading
              \/ \E d \in Doc : CreateDocument(d) /\ TriggerOCR(r, d) /\ UNCHANGED person
              \/ ExtractDocumentData(r)
              \/ ProcessDocument(r)
  BY <1>1, <1>2, <1>10 DEF Papers, UploadDocument, PortalUploadDocument
<1> QED
  BY <1>3, <1>4, <1>5, <1>6, <1>7, <1>8, <1>9, <1>10 DEF Next

\* A document is created once and read by one goroutine, whose verdict is
\* stored before the number is filled in.
LEMMA ReadingStep == TypeInv /\ ReadingInv /\ [Next]_vars => ReadingInv'
<1> SUFFICES ASSUME TypeInv, ReadingInv, [Next]_vars PROVE ReadingInv'
  OBVIOUS
<1>t. /\ TypeOK
      /\ \A r \in Request : GoodTask(task[r]) /\ Knows(task[r])
      /\ \A d \in Doc : docs[d].verdict = "passed" => Exists(d)
      /\ \A d \in Doc, r, s \in Request : Reads(task[r], d) /\ Reads(task[s], d) => r = s
      /\ FilledIsVerified
  BY DEF TypeInv, ReadingInv
<1>1. CASE NoReading
  <2>1. \A r \in Request :
          task'[r].pc \in {"extract", "keep", "fill"} => task'[r] = task[r]
    BY <1>1 DEF NoReading, ComesTo
  <2>2. \A r \in Request : Knows(task[r])'
    BY <1>1, <1>t, <2>1 DEF Knows, NoReading, GoodTask
  <2>3. \A d \in Doc, r, s \in Request : Reads(task'[r], d) /\ Reads(task'[s], d) => r = s
    BY <1>t, <2>1 DEF Reads
  <2>4. FilledIsVerified'
    BY <1>1, <1>t DEF NoReading, FilledIsVerified
  <2> QED
    BY <1>1, <1>t, <2>2, <2>3, <2>4 DEF NoReading, ReadingInv, Reads
<1>2. ASSUME NEW r \in Request, NEW d \in Doc,
             CreateDocument(d), TriggerOCR(r, d), UNCHANGED person
      PROVE  ReadingInv'
  <2>1. /\ ~Exists(d)
        /\ docs'[d].verdict = "none"
        /\ docs'[d].status = "menunggu"
        /\ \A e \in Doc : e # d => docs'[e] = docs[e]
        /\ Only(r)
        /\ \/ task'[r] = task[r]
           \/ task'[r].pc = "extract" /\ task'[r].on = d
    BY <1>2, UploadStep
  <2>2. \A o \in Request : task[o].pc \in {"extract", "keep", "fill"} => task[o].on # d
    BY <1>t, <2>1 DEF Knows, GoodTask
  <2>3. Exists(d)' /\ \A e \in Doc : e # d => (Exists(e)' <=> Exists(e))
    BY <2>1, NullAssumption DEF Exists, Statuses
  <2>4. ASSUME NEW o \in Request
        PROVE  Knows(task[o])'
    <3>1. CASE task'[o] = task[o]
      BY <1>t, <2>1, <2>2, <2>3, <3>1 DEF Knows, GoodTask
    <3>2. CASE task'[o] # task[o]
      <4>1. task'[o].pc = "extract" /\ task'[o].on = d
        BY <2>1, <3>2 DEF Only
      <4> QED
        BY <2>1, <2>3, <4>1 DEF Knows
    <3> QED
      BY <3>1, <3>2
  <2>5. ASSUME NEW e \in Doc, NEW o \in Request, NEW s \in Request,
               Reads(task'[o], e), Reads(task'[s], e)
        PROVE  o = s
    BY <1>t, <2>1, <2>2, <2>5 DEF Reads, Only
  <2>6. \A e \in Doc : docs'[e].verdict = "passed" => Exists(e)'
    BY <1>t, <2>1, <2>3
  <2>7. FilledIsVerified'
    BY <1>t, <1>2, <2>1 DEF FilledIsVerified
  <2> QED
    BY <2>4, <2>5, <2>6, <2>7 DEF ReadingInv, Reads
<1>3. ASSUME NEW r \in Request, ExtractDocumentData(r)
      PROVE  ReadingInv'
  <2>1. /\ task[r].pc = "extract"
        /\ Only(r)
        /\ \/ task'[r].pc = "idle"
           \/ /\ task'[r].pc = "keep"
              /\ task'[r].on = task[r].on
              /\ task'[r].fills => task'[r].passed /\ Kind[task[r].on] = "ktp"
        /\ UNCHANGED <<person, docs>>
    BY <1>3, ExtractStep, IdleType DEF ExtractDocumentData
  <2>2. \A o \in Request : Knows(task[o])'
    BY <1>t, <2>1 DEF Knows, Only, Exists
  <2>3. \A d \in Doc, o, s \in Request : Reads(task'[o], d) /\ Reads(task'[s], d) => o = s
    BY <1>t, <2>1 DEF Reads, Only
  <2> QED
    BY <1>t, <2>1, <2>2, <2>3 DEF ReadingInv, Reads, Exists, FilledIsVerified
<1>4. ASSUME NEW r \in Request, ProcessDocument(r), task[r].pc = "keep"
      PROVE  ReadingInv'
  <2> DEFINE d == task[r].on
  <2>1. /\ d \in Doc
        /\ Exists(d)
        /\ docs[d].verdict # "passed"
        /\ task[r].fills => task[r].passed /\ Kind[d] = "ktp"
    BY <1>t, <1>4 DEF Knows, GoodTask
  <2>2. /\ docs'[d].verdict = IF task[r].passed THEN "passed" ELSE "failed"
        /\ \A e \in Doc : e # d => docs'[e] = docs[e]
        /\ Only(r)
        /\ \/ task'[r].pc = "idle"
           \/ task[r].fills /\ task'[r].pc = "fill" /\ task'[r].on = d
        /\ UNCHANGED person
    BY <1>4, KeepStep, IdleType
  <2>3. \A e \in Doc : Exists(e)' <=> Exists(e)
    BY <1>4, KeepStep DEF Exists
  <2>4. \A o \in Request : o # r => ~Reads(task[o], d)
    BY <1>t, <1>4 DEF Reads, GoodTask
  <2>5. ASSUME NEW o \in Request
        PROVE  Knows(task[o])'
    <3>1. CASE o = r
      BY <2>1, <2>2, <3>1 DEF Knows
    <3>2. CASE o # r
      <4>1. task'[o] = task[o] /\ Knows(task[o]) /\ GoodTask(task[o]) /\ ~Reads(task[o], d)
        BY <1>t, <2>2, <2>4, <3>2 DEF Only
      <4>2. task[o].pc = "fill" => task[o].on # d
        BY <2>1, <4>1 DEF Knows
      <4> QED
        BY <2>2, <2>3, <4>1, <4>2 DEF Knows, Reads, GoodTask
    <3> QED
      BY <3>1, <3>2
  <2>6. \A e \in Doc, o, s \in Request : Reads(task'[o], e) /\ Reads(task'[s], e) => o = s
    BY <1>t, <2>2 DEF Reads, Only
  <2>7. \A e \in Doc : docs[e].verdict = "passed" => docs'[e].verdict = "passed"
    BY <2>1, <2>2
  <2>8. FilledIsVerified'
    BY <1>t, <2>2, <2>7 DEF FilledIsVerified
  <2>9. \A e \in Doc : docs'[e].verdict = "passed" => Exists(e)'
    BY <1>t, <2>1, <2>2, <2>3
  <2> QED
    BY <2>5, <2>6, <2>8, <2>9 DEF ReadingInv, Reads
<1>5. ASSUME NEW r \in Request, ProcessDocument(r), task[r].pc = "fill"
      PROVE  ReadingInv'
  <2>1. /\ Only(r)
        /\ task'[r].pc = "idle"
        /\ \A p \in Person : p # Owner[task[r].on] => person'[p] = person[p]
        /\ UNCHANGED docs
    BY <1>5, FillStep, IdleType
  <2>2. /\ task[r].on \in Doc
        /\ docs[task[r].on].verdict = "passed"
        /\ Kind[task[r].on] = "ktp"
    BY <1>t, <1>5 DEF Knows, GoodTask
  <2>3. \A o \in Request : Knows(task[o])'
    BY <1>t, <2>1 DEF Knows, Only, Exists
  <2>4. \A d \in Doc, o, s \in Request : Reads(task'[o], d) /\ Reads(task'[s], d) => o = s
    BY <1>t, <2>1 DEF Reads, Only
  <2>5. FilledIsVerified'
    BY <1>t, <2>1, <2>2 DEF FilledIsVerified
  <2> QED
    BY <1>t, <2>1, <2>3, <2>4, <2>5 DEF ReadingInv, Reads, Exists
<1>6. \A r \in Request : ProcessDocument(r) => task[r].pc = "keep" \/ task[r].pc = "fill"
  BY DEF ProcessDocument, At
<1> QED
  BY <1>1, <1>2, <1>3, <1>4, <1>5, <1>6, WhoReads

\* A NIK that the machine filled in was read from an identity card of that
\* person, and the verdict that says so is stored: for every threshold, and
\* although reading, storing and filling in are statements of their own.
THEOREM FilledVerified == Spec => []FilledIsVerified
<1>1. Init => TypeInv /\ ReadingInv
  BY TypeInit, IdleType
  DEF Init, ReadingInv, Knows, Reads, FilledIsVerified, NoDoc
<1>2. TypeInv /\ ReadingInv /\ [Next]_vars => (TypeInv /\ ReadingInv)'
  BY TypeStep, ReadingStep
<1>3. ReadingInv => FilledIsVerified
  BY DEF ReadingInv
<1> QED
  BY <1>1, <1>2, <1>3, PTL DEF Spec

-----------------------------------------------------------------------------
(* The checklist of a ready batch.                                         *)

\* The step changes nothing the rules about a ready batch look at, and leaves
\* the goroutines of approvals where they are.
Aside ==
  /\ due' => due
  /\ \A p \in Person : /\ person'[p].active = person[p].active
                       /\ person'[p].erased = person[p].erased
  /\ \A d \in Doc : /\ docs'[d].status = docs[d].status
                    /\ docs'[d].deleted = docs[d].deleted
  /\ \A r \in Request : task[r].pc \in {"reload", "list", "check"} => task'[r] = task[r]

\* A participant's documents are judged by their status alone.
LEMMA ApprovedByStatus ==
  ASSUME NEW p \in Person,
         \A d \in Doc : Owner[d] = p => docs'[d].status = docs[d].status
  PROVE  AllDocsApproved(p)' <=> AllDocsApproved(p)
<1>1. ListByParticipant(p)' = ListByParticipant(p)
  BY DEF ListByParticipant, Exists
<1> QED
  BY <1>1 DEF AllDocsApproved, ListByParticipant

\* Such a step disturbs neither the batch nor the goroutine that will find it
\* ready.
LEMMA AsideKeeps ==
  ASSUME TypeInv, ReadyInv, [Next]_vars, Aside
  PROVE  ReadyInv'
<1> SUFFICES ASSUME due', BatchReady'
             PROVE  Complete' \/ \E r \in Request : Decisive(task[r])'
  BY DEF ReadyInv
<1>1. ListByBatch' = ListByBatch
  BY DEF Aside, ListByBatch, Found
<1>2. BatchReady
  BY <1>1, ApprovedByStatus DEF Aside, BatchReady, ListByBatch
<1>3. CASE Complete
  BY <1>1, <1>3, RowsStay DEF Aside, Complete, ListByBatch
<1>4. ASSUME NEW r \in Request, Decisive(task[r])
      PROVE  Decisive(task[r])'
  <2>1. /\ task'[r] = task[r]
        /\ task[r].pc = "reload" => task[r].on \in Doc /\ Owner[task[r].on] \in Person
        /\ task[r].left \subseteq Person
    BY <1>4, DocAssumption DEF Aside, Decisive, TypeInv, TypeOK, Task, GoodTask
  <2> QED
    BY <1>4, <2>1 DEF Aside, Decisive, Live, Exists, Found
<1> QED
  BY <1>2, <1>3, <1>4 DEF Aside, ReadyInv

\* The steps outside the goroutines of approvals, other than uploads and
\* reviews, pass the batch by, or leave it owed nothing.
LEMMA WhoDisturbs ==
  ASSUME TypeInv, [Next]_vars
  PROVE  \/ Aside
         \/ due' = FALSE
         \/ InitForBatch /\ UNCHANGED person
         \/ \E r \in Request, d \in Doc :
              /\ CreateDocument(d)
              /\ TriggerOCR(r, d)
              /\ UNCHANGED <<person, checklist, due>>
         \/ \E r \in Request : OnDocumentApproved(r) /\ UNCHANGED <<checklist, due>>
         \/ \E r \in Request : ListBatch(r) /\ UNCHANGED <<checklist, due>>
         \/ \E r \in Request, p \in Person :
              CheckPerson(r, p) /\ UNCHANGED <<checklist, due>>
         \/ \E r \in Request, d \in Doc, s \in {"disetujui", "ditolak"} : Approve(r, d, s)
<1>1. ASSUME NEW r \in Request, ExtractDocumentData(r), UNCHANGED due
      PROVE  Aside
  BY <1>1, ExtractStep DEF ExtractDocumentData, Aside, Only
<1>2. ASSUME NEW r \in Request, ProcessDocument(r), UNCHANGED due
      PROVE  Aside
  <2>1. CASE task[r].pc = "keep"
    BY <1>2, <2>1, KeepStep DEF Aside, Only
  <2>2. CASE task[r].pc = "fill"
    BY <1>2, <2>2, FillStep DEF Aside, Only
  <2> QED
    BY <1>2, <2>1, <2>2 DEF ProcessDocument, At
<1>3. ASSUME NEW p \in Person, SetNIK(p), UNCHANGED due
      PROVE  Aside
  BY <1>3 DEF SetNIK, Aside, TypeInv, TypeOK, PersonRow
<1>4. ASSUME NEW r \in Request, Papers(r)
      PROVE  \/ Aside
             \/ \E d \in Doc : /\ CreateDocument(d)
                               /\ TriggerOCR(r, d)
                               /\ UNCHANGED <<person, checklist, due>>
             \/ OnDocumentApproved(r) /\ UNCHANGED <<checklist, due>>
             \/ ListBatch(r) /\ UNCHANGED <<checklist, due>>
             \/ \E p \in Person : CheckPerson(r, p) /\ UNCHANGED <<checklist, due>>
  <2>1. UNCHANGED <<checklist, due>>
    BY <1>4 DEF Papers, desk
  <2> QED
    BY <1>1, <1>2, <1>3, <1>4, <2>1 DEF Papers, UploadDocument, PortalUploadDocument
<1>5. ASSUME NEW r \in Request, ConfirmDeparture(r)
      PROVE  Aside
  BY <1>5 DEF ConfirmDeparture, Start, At, Aside, TypeInv, TypeOK
<1>6. ASSUME NEW r \in Request, GetBatchProgress(r)
      PROVE  Aside
  <2>1. task[r].pc = "progress" /\ Only(r)
    BY <1>6, FinishStep DEF GetBatchProgress, At, TypeInv
  <2> QED
    BY <1>6, <2>1 DEF GetBatchProgress, Aside, Only
<1>7. ASSUME NEW r \in Request, NEW q \in Deletion, NEW s \in Decisions,
             ClaimRequest(r, q, FinalStatus(s))
      PROVE  Aside
  BY <1>7, ClaimStep DEF ClaimRequest, Aside, Only
<1>8. ASSUME NEW r \in Request, CloseRequest(r)
      PROVE  Aside \/ due' = FALSE
  <2>1. CASE task[r].to = "selesai"
    BY <1>8, <2>1, CloseStep DEF Anonymise
  <2>2. CASE task[r].to # "selesai"
    BY <1>8, <2>2, CloseStep DEF Aside, Only
  <2> QED
    BY <2>1, <2>2
<1>9. ASSUME NEW r \in Request, NEW p \in Person, PortalUpdateProfile(r, p)
      PROVE  Aside
  BY <1>9, StartProfileStep DEF PortalUpdateProfile, Aside, Only
<1>10. ASSUME NEW r \in Request, UpdateProfile(r)
       PROVE  Aside
  BY <1>10, ProfileStep DEF UpdateProfile, Aside, Only
<1>11. CASE \/ \E p \in Person : UpdateBaggage(p) \/ UpdateTicket(p) \/ UpdatePassport(p)
            \/ \E p \in Person, q \in Deletion : PortalRequestDeletion(q, p)
            \/ UNCHANGED vars
  BY <1>11 DEF Aside, UpdateBaggage, UpdateTicket, UpdatePassport, Mark,
               PortalRequestDeletion, vars
<1> QED
  BY <1>4, <1>5, <1>6, <1>7, <1>8, <1>9, <1>10, <1>11
  DEF Next, GenerateChecklist, InitChecklist, Die, Remove, Activate

\* An unapproved document of somebody who counts keeps the batch from being
\* ready: when it is ready after the step, it was before.
LEMMA ReadyBefore ==
  ASSUME TypeInv, NEW d \in Doc,
         docs'[d].status \notin {"disetujui", Null},
         \A e \in Doc : e # d => docs'[e] = docs[e],
         UNCHANGED person,
         BatchReady'
  PROVE  BatchReady
<1> SUFFICES ASSUME NEW p \in ListByBatch, person[p].active
             PROVE  AllDocsApproved(p)
  BY DEF BatchReady, ListByBatch, Found
<1>1. p \in Person /\ AllDocsApproved(p)'
  BY DEF BatchReady, ListByBatch, Found
<1>2. Owner[d] # p
  BY <1>1 DEF AllDocsApproved, ListByParticipant, Exists
<1> QED
  BY <1>1, <1>2, ApprovedByStatus

\* The goroutine of the approval that made the batch ready finds it so, and
\* gives everybody paid for a row.
LEMMA ReadyStep == TypeInv /\ ReadyInv /\ [Next]_vars => ReadyInv'
<1> SUFFICES ASSUME TypeInv, ReadyInv, [Next]_vars PROVE ReadyInv'
  OBVIOUS
<1>t. \A r \in Request : task[r] \in Task /\ GoodTask(task[r])
  BY DEF TypeInv, TypeOK
<1>1. CASE Aside
  BY <1>1, AsideKeeps
<1>2. CASE due' = FALSE
  BY <1>2 DEF ReadyInv
<1>3. CASE InitForBatch /\ UNCHANGED person
  <2>1. Complete'
    BY <1>3, InitForBatchStep DEF Complete, ListByBatch
  <2> QED
    BY <2>1 DEF ReadyInv
<1>4. ASSUME NEW r \in Request, NEW d \in Doc,
             CreateDocument(d), TriggerOCR(r, d), UNCHANGED <<person, checklist, due>>
      PROVE  ReadyInv'
  <2> SUFFICES ASSUME due', BatchReady'
               PROVE  Complete' \/ \E o \in Request : Decisive(task[o])'
    BY DEF ReadyInv
  <2>1. /\ ~Exists(d)
        /\ docs'[d].status = "menunggu"
        /\ \A e \in Doc : e # d => docs'[e] = docs[e]
        /\ Only(r)
        /\ task'[r] = task[r] \/ task[r].pc = "idle"
    BY <1>4, UploadStep
  <2>2. BatchReady
    BY <1>4, <2>1, ReadyBefore, NullAssumption DEF Statuses
  <2>3. CASE Complete
    BY <1>4, <2>3 DEF Complete, ListByBatch, Found
  <2>4. ASSUME NEW o \in Request, Decisive(task[o])
        PROVE  Decisive(task[o])'
    <3>1. task'[o] = task[o]
      BY <2>1, <2>4 DEF Decisive, Only
    <3>2. task[o].pc = "reload" /\ Live(task[o].on) => task[o].on \in Doc \ {d}
      BY <1>t, <2>1 DEF GoodTask, Live
    <3> QED
      BY <1>4, <2>1, <2>4, <3>1, <3>2 DEF Decisive, Live, Exists, Found
  <2> QED
    BY <1>4, <2>2, <2>3, <2>4 DEF ReadyInv
<1>5. ASSUME NEW r \in Request, UNCHANGED <<person, docs, checklist, due>>,
             Only(r),
             BatchReady /\ Decisive(task[r]) => Decisive(task'[r])
      PROVE  ReadyInv'
  <2> SUFFICES ASSUME due', BatchReady'
               PROVE  Complete' \/ \E o \in Request : Decisive(task[o])'
    BY DEF ReadyInv
  <2>1. BatchReady /\ due
    BY <1>5 DEF BatchReady, ListByBatch, Found, AllDocsApproved, ListByParticipant, Exists
  <2>2. CASE Complete
    BY <1>5, <2>2 DEF Complete, ListByBatch, Found
  <2>3. ASSUME NEW o \in Request, Decisive(task[o])
        PROVE  Decisive(task[o])'
    <3>1. Decisive(task'[o])
      BY <1>5, <2>1, <2>3 DEF Only
    <3> QED
      BY <1>5, <3>1 DEF Decisive, Live, Exists, Found
  <2> QED
    BY <2>1, <2>2, <2>3 DEF ReadyInv
<1>6. ASSUME NEW r \in Request, OnDocumentApproved(r), UNCHANGED <<checklist, due>>
      PROVE  ReadyInv'
  <2>1. BatchReady /\ Decisive(task[r]) => Decisive(task'[r])
    BY <1>6, ReloadStep DEF Decisive
  <2> QED
    BY <1>5, <1>6, <2>1, ReloadStep DEF OnDocumentApproved
<1>7. ASSUME NEW r \in Request, ListBatch(r), UNCHANGED <<checklist, due>>
      PROVE  ReadyInv'
  <2>1. BatchReady /\ Decisive(task[r]) => Decisive(task'[r])
    BY <1>7, ListStep DEF Decisive, BatchReady, ListByBatch
  <2> QED
    BY <1>5, <1>7, <2>1, ListStep DEF ListBatch
<1>8. ASSUME NEW r \in Request, NEW p \in Person, CheckPerson(r, p),
             UNCHANGED <<checklist, due>>
      PROVE  ReadyInv'
  <2>1. BatchReady /\ Decisive(task[r]) => AllDocsApproved(p)
    BY <1>8, CheckStep DEF Decisive, BatchReady, ListByBatch
  <2>2. BatchReady /\ Decisive(task[r]) => Decisive(task'[r])
    BY <1>8, <2>1, CheckStep DEF Decisive
  <2> QED
    BY <1>5, <1>8, <2>2, CheckStep DEF CheckPerson
<1>9. ASSUME NEW r \in Request, NEW d \in Doc, NEW s \in {"disetujui", "ditolak"},
             Approve(r, d, s)
      PROVE  ReadyInv'
  <2> SUFFICES ASSUME due', BatchReady'
               PROVE  Complete' \/ \E o \in Request : Decisive(task[o])'
    BY DEF ReadyInv
  <2>1. /\ Exists(d)
        /\ docs'[d].status = s
        /\ docs'[d].deleted = docs[d].deleted
        /\ \A e \in Doc : e # d => docs'[e] = docs[e]
        /\ Only(r)
        /\ UNCHANGED <<person, checklist>>
    BY <1>9, ReviewStep DEF Approve, desk
  <2>2. s # Null
    BY NullAssumption DEF Statuses
  <2>3. CASE s = "disetujui"
    <3>1. task'[r].pc = "reload" /\ task'[r].on = d /\ Live(d) /\ Found(Owner[d])
      BY <1>9, <2>3, ReviewStep DEF Approve
    <3>2. Live(d)' /\ Found(Owner[d])'
      BY <2>1, <2>2, <3>1 DEF Live, Exists, Found
    <3> QED
      BY <3>1, <3>2 DEF Decisive
  <2>4. CASE s # "disetujui"
    <3>1. due /\ task'[r] = task[r]
      BY <1>9, <2>4, ReviewStep DEF Approve
    <3>2. BatchReady
      BY <2>1, <2>2, <2>4, ReadyBefore
    <3>3. CASE Complete
      BY <2>1, <3>3 DEF Complete, ListByBatch, Found
    <3>4. ASSUME NEW o \in Request, Decisive(task[o])
          PROVE  Decisive(task[o])'
      <4>1. task'[o] = task[o]
        BY <2>1, <3>1 DEF Only
      <4>2. task[o].pc = "reload" => task[o].on \in Doc
        BY <1>t DEF GoodTask
      <4> QED
        BY <2>1, <2>2, <3>4, <4>1, <4>2 DEF Decisive, Live, Exists, Found
    <3> QED
      BY <3>1, <3>2, <3>3, <3>4 DEF ReadyInv
  <2> QED
    BY <2>3, <2>4
<1> QED
  BY <1>1, <1>2, <1>3, <1>4, <1>6, <1>7, <1>8, <1>9, WhoDisturbs

\* A batch that became ready by an approval is given its checklist by the time
\* no goroutine of an approval is left, however many approvals raced: whoever
\* wrote last finds the others' documents approved.
THEOREM ReadyGenerated == Spec => []ReadyIsGenerated
<1>1. Init => TypeInv /\ ReadyInv
  BY TypeInit DEF Init, ReadyInv
<1>2. TypeInv /\ ReadyInv /\ [Next]_vars => (TypeInv /\ ReadyInv)'
  BY TypeStep, ReadyStep
<1>3. ReadyInv => ReadyIsGenerated
  BY DEF ReadyInv, ReadyIsGenerated, Decisive, Answering, Complete
<1> QED
  BY <1>1, <1>2, <1>3, PTL DEF Spec

-----------------------------------------------------------------------------
(* One handler at a time.                                                  *)

\* The name, phone and e-mail of everybody erased are gone.
NamesGone == \A p \in Person : person[p].erased => ~person[p].named

\* With one handler at a time no profile change is under way when an erasure is
\* committed, so that what privacy_repo.go promises of name, phone and e-mail
\* holds.  Of the NIK it does not: a scan may be uploaded, and a number typed
\* in, after the erasure.
THEOREM SerialErasureTakesNames ==
  ASSUME \A q, r \in Request : q = r
  PROVE  Spec => []NamesGone
<1> DEFINE NoOverlap == overlapped = {}
<1>1. Init => NoOverlap
  BY DEF Init
<1>2. TypeInv /\ NoOverlap /\ [Next]_vars => NoOverlap'
  <2> SUFFICES ASSUME TypeInv, overlapped = {}, [Next]_vars PROVE overlapped' = {}
    OBVIOUS
  <2>1. ASSUME NEW r \in Request, CloseRequest(r)
        PROVE  overlapped' = {}
    <3>1. \A q \in Request : task[q].pc # "profile"
      BY <2>1 DEF CloseRequest, At
    <3>2. UNCHANGED overlapped
      BY <2>1, <3>1, CloseStep DEF Anonymise, At
    <3> QED
      BY <3>2
  <2>2. ASSUME NEW r \in Request, UpdateProfile(r) \/ \E p \in Person : PortalUpdateProfile(r, p)
        PROVE  overlapped' = {}
    BY <2>2 DEF UpdateProfile, PortalUpdateProfile, erasure
  <2> QED
    BY <2>1, <2>2, WhoWritesNames DEF NoProfile
<1>3. RestoredByOverlap /\ NoOverlap => NamesGone
  BY DEF RestoredByOverlap, NamesGone
<1> HIDE DEF NoOverlap
<1> QED
  BY <1>1, <1>2, <1>3, TypeCorrect, RestoredOnlyByOverlap, PTL DEF Spec
=============================================================================
