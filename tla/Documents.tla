----------------------------- MODULE Documents -----------------------------
(***************************************************************************)
(* The documents of the participants of one batch: what is uploaded, what  *)
(* the machine reads from it, and what the reviewer decides.               *)
(*                                                                         *)
(* An upload starts a goroutine that reads the scan; an approval starts    *)
(* one that asks whether the whole batch is ready.  Both outlive the       *)
(* request that started them, and everything they read may have changed    *)
(* when they use it: each of their statements is an action of its own.     *)
(* What a ready batch leads to is in module Departure.                     *)
(***************************************************************************)
EXTENDS Naturals, FiniteSets

CONSTANTS
  Person,        \* the participants of the batch
  Paid,          \* those whose payment has been confirmed already
  Doc,           \* identifiers of document rows
  Owner,         \* whose document it is
  Kind,          \* what it is
  Threshold,     \* the confidence, in hundredths, a reading is trusted from
  Typing,        \* participants whose NIK staff type in
  Request,       \* handlers and goroutines that can be in flight
  MaxCalls,      \* bound on what people ask of the system
  Null

Statuses == {"menunggu", "disetujui", "ditolak"}

Kinds == {"ktp", "passport", "lainnya"}

ASSUME PeopleAssumption == Paid \subseteq Person /\ Typing \subseteq Person
ASSUME DocAssumption == Owner \in [Doc -> Person] /\ Kind \in [Doc -> Kinds]
ASSUME BoundAssumption == Threshold \in Nat /\ MaxCalls \in Nat
ASSUME NullAssumption == Null \notin Doc \cup Person \cup Statuses

VARIABLES
  person,        \* participants: payment confirmed, anonymised, personal data
  docs,          \* documents, with the verdict of document_ocr_results
  task,          \* the handlers and goroutines in flight
  calls          \* what people have asked

PersonRow == [active : BOOLEAN, erased : BOOLEAN, named : BOOLEAN,
              nik : {"none", "read", "typed"}]

DocRow == [status : Statuses \cup {Null}, deleted : BOOLEAN,
           verdict : {"none", "failed", "passed"}]

NoDoc == [status |-> Null, deleted |-> FALSE, verdict |-> "none"]

-----------------------------------------------------------------------------
\* "on" is the row a handler works on; the other fields are what it has read.
Idle == [pc |-> "idle", on |-> Null, left |-> {}, passed |-> FALSE,
         fills |-> FALSE, to |-> Null]

At(r, s) == task[r].pc = s
Call == calls < MaxCalls /\ calls' = calls + 1

Start(r, t) == At(r, "idle") /\ task' = [task EXCEPT ![r] = t]

Exists(d) == docs[d].status # Null

Live(d) == Exists(d) /\ ~docs[d].deleted

\* A participant read by its id: an anonymised one is not found.
Found(p) == ~person[p].erased

\* The list the rules below are applied to has the deleted documents in it.
ListByParticipant(p) == {d \in Doc : Exists(d) /\ Owner[d] = p}

AllDocsApproved(p) ==
  /\ ListByParticipant(p) # {}
  /\ \A d \in ListByParticipant(p) : docs[d].status = "disetujui"

ListByBatch == {p \in Person : Found(p)}

-----------------------------------------------------------------------------
(* What the machine reads from a scan: the fields it found, and the        *)
(* confidence they add up to.                                              *)

KtpWeight == [number |-> 50, name |-> 30, birth |-> 20]

MrzWeight == [number |-> 40, expiry |-> 15, birth |-> 15, name |-> 30]

PlainWeight == [number |-> 30, name |-> 20]

\* What a field adds to the confidence when it was found.
Worth(weight, fields, f) == IF f \in fields \cap DOMAIN weight THEN weight[f] ELSE 0

Confidence(weight, fields) ==
  Worth(weight, fields, "number") + Worth(weight, fields, "name")
    + Worth(weight, fields, "birth") + Worth(weight, fields, "expiry")

\* The readings a scan of a kind can give: of a passport either the two lines
\* made for machines are found, or the page is read as text.
Readings(k) ==
  IF k = "ktp"
  THEN {[fields |-> f, confidence |-> Confidence(KtpWeight, f)]
          : f \in SUBSET DOMAIN KtpWeight}
  ELSE UNION {{[fields |-> f, confidence |-> Confidence(w, f)]
                 : f \in SUBSET DOMAIN w} : w \in {MrzWeight, PlainWeight}}

\* "lasting": the passport is valid six months past the departure.
Validated(k, reading, lasting) ==
  /\ reading.confidence >= 50
  /\ IF k = "ktp" THEN "number" \in reading.fields
                  ELSE "expiry" \in reading.fields /\ lasting

IsOCRDocType(k) == k \in {"ktp", "passport"}

Fills_AnyKind(k, reading) ==
  reading.confidence >= Threshold /\ "number" \in reading.fields

\* Whether the number that was read is stored as the participant's NIK.
Fills(k, reading) ==
  /\ k = "ktp"
  /\ reading.confidence >= Threshold
  /\ "number" \in reading.fields

-----------------------------------------------------------------------------
(* Uploads and the reading of scans.                                       *)

CreateDocument(d) ==
  /\ ~Exists(d)
  /\ docs' = [docs EXCEPT ![d] = [NoDoc EXCEPT !.status = "menunggu"]]

\* The goroutine of a kind that is not read ends at once.
TriggerOCR(r, d) ==
  IF IsOCRDocType(Kind[d])
  THEN Start(r, [Idle EXCEPT !.pc = "extract", !.on = d])
  ELSE UNCHANGED task

\* An admin uploads for a participant.
UploadDocument(r, d) ==
  /\ Call
  /\ CreateDocument(d)
  /\ TriggerOCR(r, d)
  /\ UNCHANGED person

\* A participant uploads; the session is not compared with the participant's
\* row, so one who has been anonymised may still do it.
PortalUploadDocument(r, d) ==
  /\ Call
  /\ CreateDocument(d)
  /\ TriggerOCR(r, d)
  /\ UNCHANGED person

\* The scan is fetched and read; when either fails the goroutine ends.
ExtractDocumentData(r) ==
  /\ At(r, "extract")
  /\ LET k == Kind[task[r].on] IN
     \/ task' = [task EXCEPT ![r] = Idle]
     \/ \E reading \in Readings(k), lasting \in BOOLEAN :
          task' = [task EXCEPT ![r].pc = "keep",
                     ![r].passed = Validated(k, reading, lasting),
                     ![r].fills = Fills(k, reading)]
  /\ UNCHANGED <<person, docs, calls>>

\* The result is stored, and then, by a statement of its own, the NIK.
ProcessDocument(r) ==
  /\ \/ /\ At(r, "keep")
        /\ docs' = [docs EXCEPT ![task[r].on].verdict =
                      IF task[r].passed THEN "passed" ELSE "failed"]
        /\ task' = [task EXCEPT ![r] =
                      IF task[r].fills THEN [Idle EXCEPT !.pc = "fill", !.on = task[r].on]
                                       ELSE Idle]
        /\ UNCHANGED person
     \/ /\ At(r, "fill")
        /\ person' = [person EXCEPT ![Owner[task[r].on]].nik = "read"]
        /\ task' = [task EXCEPT ![r] = Idle]
        /\ UNCHANGED docs
  /\ UNCHANGED calls

\* Staff type the NIK in.
SetNIK(p) ==
  /\ p \in Typing
  /\ Call
  /\ person' = [person EXCEPT ![p].nik = "typed"]
  /\ UNCHANGED <<docs, task>>

-----------------------------------------------------------------------------
(* Reviews.                                                                *)

\* A document may be decided again, and one that was deleted as well.  A
\* rejection says why; the message it sends changes nothing here.
ReviewDocument(r, d, s) ==
  /\ Exists(d)
  /\ Call
  /\ docs' = [docs EXCEPT ![d].status = s]
  /\ IF s = "disetujui"
     THEN Start(r, [Idle EXCEPT !.pc = "reload", !.on = d])
     ELSE UNCHANGED task
  /\ UNCHANGED person

\* The document and its participant are read again; either may be gone.
OnDocumentApproved(r) ==
  /\ At(r, "reload")
  /\ task' = [task EXCEPT ![r] =
                IF Live(task[r].on) /\ Found(Owner[task[r].on])
                THEN [Idle EXCEPT !.pc = "list"] ELSE Idle]
  /\ UNCHANGED <<person, docs, calls>>

ListBatch_Everyone(r) ==
  /\ At(r, "list")
  /\ task' = [task EXCEPT ![r] =
                IF ListByBatch = {} THEN Idle
                ELSE [Idle EXCEPT !.pc = "check", !.left = ListByBatch]]
  /\ UNCHANGED <<person, docs, calls>>

\* The batch is listed once; those whose payment is confirmed by then count.
ListBatch(r) ==
  /\ At(r, "list")
  /\ task' = [task EXCEPT ![r] =
                IF ListByBatch = {} THEN Idle
                ELSE [Idle EXCEPT !.pc = "check",
                        !.left = {p \in ListByBatch : person[p].active}]]
  /\ UNCHANGED <<person, docs, calls>>

\* One read of the documents per participant, and none after the first "no".
CheckPerson(r, p) ==
  /\ At(r, "check")
  /\ p \in task[r].left
  /\ task' = IF AllDocsApproved(p) THEN [task EXCEPT ![r].left = @ \ {p}]
                                   ELSE [task EXCEPT ![r] = Idle]
  /\ UNCHANGED <<person, docs, calls>>

DeleteDocument(d) ==
  /\ Live(d)
  /\ Call
  /\ docs' = [docs EXCEPT ![d].deleted = TRUE]
  /\ UNCHANGED <<person, task>>
=============================================================================
