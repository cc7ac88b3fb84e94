----------------------------- MODULE Departure -----------------------------
(***************************************************************************)
(* One batch on its way to the airport: the documents of its participants, *)
(* the checklist that a ready batch is given, the handling desk, the       *)
(* confirmation of the departure, and the requests of participants to be   *)
(* forgotten, which cut across all of it.                                  *)
(*                                                                         *)
(* An erasure is one transaction: the decision takes the request's row,    *)
(* another decision of the same request waits for it, and what the         *)
(* transaction writes appears at its commit.                               *)
(***************************************************************************)
EXTENDS Documents

CONSTANTS
  Deletion,      \* identifiers of erasure requests
  Steps,         \* the steps of the handling desk this instance goes through
  Fallible,      \* the points at which a handler may die
  MaxFaults      \* bound on the handlers that die and the reads that fail

ASSUME StepAssumption == Steps \subseteq {"baggage", "ticket", "passport"}

Labels == {"idle", "extract", "keep", "fill", "reload", "list", "check",
           "profile", "close", "progress"}

ASSUME RowAssumption == Null # "selesai" /\ \A done \in SUBSET Steps : done # Null

ASSUME FaultAssumption == Fallible \subseteq Labels /\ MaxFaults \in Nat

VARIABLES
  checklist,     \* airport_checklists: the steps done, Null without a row
  deletions,     \* data_deletion_requests
  due,           \* history: a batch that became ready by an approval is owed rows
  cleared,       \* history: whom a successful progress read found handled
  overlapped,    \* history: erased while a profile write was under way
  faults

desk == <<checklist, cleared>>
erasure == <<deletions, overlapped>>
vars == <<person, docs, task, calls, desk, erasure, due, faults>>

Task == [pc : Labels, on : Doc \cup Person \cup Deletion \cup {Null},
         left : SUBSET Person, passed : BOOLEAN, fills : BOOLEAN,
         to : {"selesai", "ditolak", Null}]

Request_ == [who : Person \cup {Null}, status : {"menunggu", "selesai", "ditolak", Null}]

NoRequest == [who |-> Null, status |-> Null]

TypeOK ==
  /\ person \in [Person -> PersonRow]
  /\ docs \in [Doc -> DocRow]
  /\ task \in [Request -> Task]
  /\ calls \in 0..MaxCalls
  /\ checklist \in [Person -> (SUBSET Steps) \cup {Null}]
  /\ deletions \in [Deletion -> Request_]
  /\ due \in BOOLEAN
  /\ cleared \subseteq Person
  /\ overlapped \subseteq Person
  /\ faults \in 0..MaxFaults

Init ==
  /\ person = [p \in Person |-> [active |-> p \in Paid, erased |-> FALSE,
                                 named |-> TRUE, nik |-> "none"]]
  /\ docs = [d \in Doc |-> NoDoc]
  /\ task = [r \in Request |-> Idle]
  /\ calls = 0
  /\ checklist = [p \in Person |-> Null]
  /\ deletions = [q \in Deletion |-> NoRequest]
  /\ due = FALSE
  /\ cleared = {}
  /\ overlapped = {}
  /\ faults = 0

-----------------------------------------------------------------------------
(* The checklist of the batch.                                             *)

InitForBatch_Resets ==
  checklist' = [p \in Person |-> IF person[p].active THEN {} ELSE checklist[p]]

\* A row for everybody whose payment is confirmed; a row that exists stays.
\* Whether a participant has been anonymised is not asked.
InitForBatch ==
  checklist' = [p \in Person |->
                  IF person[p].active /\ checklist[p] = Null THEN {} ELSE checklist[p]]

\* The goroutine of an approval found every participant complete.
GenerateChecklist(r) ==
  /\ At(r, "check")
  /\ task[r].left = {}
  /\ InitForBatch
  /\ task' = [task EXCEPT ![r] = Idle]
  /\ UNCHANGED <<person, docs, calls, cleared, erasure, due, faults>>

\* Staff open the handling desk.
InitChecklist ==
  /\ Call
  /\ InitForBatch
  /\ UNCHANGED <<person, docs, task, cleared, erasure, due, faults>>

Mark(p, s) ==
  /\ Call
  /\ s \in Steps
  /\ checklist[p] # Null
  /\ checklist' = [checklist EXCEPT ![p] = @ \cup {s}]
  /\ UNCHANGED <<person, docs, task, cleared, erasure, due, faults>>

UpdateBaggage(p) == Mark(p, "baggage")

UpdateTicket(p) == Mark(p, "ticket")

UpdatePassport(p) == Mark(p, "passport")

\* The rows that are not complete; a participant without a row is none.
Pending == {p \in Person : checklist[p] # Null /\ checklist[p] # Steps}

\* The participants to be told are listed first, the progress is read after;
\* when that read fails the confirmation goes out as if nothing were pending.
ConfirmDeparture(r) ==
  /\ Call
  /\ Start(r, [Idle EXCEPT !.pc = "progress"])
  /\ UNCHANGED <<person, docs, desk, erasure, due, faults>>

GetBatchProgress(r) ==
  /\ At(r, "progress")
  /\ \/ /\ cleared' = IF Pending = {} THEN {p \in Person : checklist[p] # Null}
                                      ELSE cleared
        /\ UNCHANGED faults
     \/ faults < MaxFaults /\ faults' = faults + 1 /\ UNCHANGED cleared
  /\ task' = [task EXCEPT ![r] = Idle]
  /\ UNCHANGED <<person, docs, calls, checklist, erasure, due>>

-----------------------------------------------------------------------------
(* Requests to be forgotten.                                               *)

Decisions == {"setujui", "tolak"}

FinalStatus_Verbatim(decision) == decision

\* The status a reviewer's decision closes the request with.
FinalStatus(decision) == IF decision = "tolak" THEN "ditolak" ELSE "selesai"

Open(q) == deletions[q].status = "menunggu"

Locked(q) == \E r \in Request : At(r, "close") /\ task[r].on = q

\* Asking again while a request is open finds that one.
PortalRequestDeletion(q, p) ==
  /\ Call
  /\ deletions[q] = NoRequest
  /\ ~\E o \in Deletion : Open(o) /\ deletions[o].who = p
  /\ deletions' = [deletions EXCEPT ![q] = [who |-> p, status |-> "menunggu"]]
  /\ UNCHANGED <<person, docs, task, desk, overlapped, due, faults>>

ClaimRequest_AnyStatus(r, q, s) ==
  /\ Call
  /\ deletions[q] # NoRequest
  /\ ~Locked(q)
  /\ Start(r, [Idle EXCEPT !.pc = "close", !.on = q, !.to = s])
  /\ UNCHANGED <<person, docs, desk, erasure, due, faults>>

ClaimRequest_CommitsAtOnce(r, q, s) ==
  /\ Call
  /\ Open(q)
  /\ Start(r, [Idle EXCEPT !.pc = "close", !.on = q, !.to = s])
  /\ deletions' = [deletions EXCEPT ![q].status = s]
  /\ UNCHANGED <<person, docs, desk, overlapped, due, faults>>

\* A decision takes the row while it is open; a second one waits for the first
\* and then finds it processed.
ClaimRequest(r, q, s) ==
  /\ Call
  /\ Open(q)
  /\ ~Locked(q)
  /\ Start(r, [Idle EXCEPT !.pc = "close", !.on = q, !.to = s])
  /\ UNCHANGED <<person, docs, desk, erasure, due, faults>>

\* What of a participant is overwritten; the row, its invoices and its
\* checklist row stay.
Anonymise(p) ==
  /\ person' = [person EXCEPT ![p] = [active |-> FALSE, erased |-> TRUE,
                                      named |-> FALSE, nik |-> "none"]]
  /\ docs' = [d \in Doc |-> IF Owner[d] = p /\ Exists(d)
                            THEN [docs[d] EXCEPT !.deleted = TRUE] ELSE docs[d]]
  /\ overlapped' = IF \E r \in Request : At(r, "profile") /\ task[r].on = p
                   THEN overlapped \cup {p} ELSE overlapped
  /\ due' = FALSE

CloseRequest(r) ==
  /\ At(r, "close")
  /\ LET q == task[r].on IN
     /\ deletions' = [deletions EXCEPT ![q].status = task[r].to]
     /\ IF task[r].to = "selesai"
        THEN Anonymise(deletions[q].who)
        ELSE UNCHANGED <<person, docs, overlapped, due>>
  /\ task' = [task EXCEPT ![r] = Idle]
  /\ UNCHANGED <<calls, desk, faults>>

PortalUpdateProfile_Unfiltered(r, p) ==
  /\ Call
  /\ Start(r, [Idle EXCEPT !.pc = "profile", !.on = p])
  /\ UNCHANGED <<person, docs, desk, erasure, due, faults>>

\* A participant changes name or e-mail: the row is read, if it is found, ...
PortalUpdateProfile(r, p) ==
  /\ Call
  /\ Found(p)
  /\ Start(r, [Idle EXCEPT !.pc = "profile", !.on = p])
  /\ UNCHANGED <<person, docs, desk, erasure, due, faults>>

\* ... and its name, phone and e-mail are written back whole.
UpdateProfile(r) ==
  /\ At(r, "profile")
  /\ person' = [person EXCEPT ![task[r].on].named = TRUE]
  /\ task' = [task EXCEPT ![r] = Idle]
  /\ UNCHANGED <<docs, calls, desk, erasure, due, faults>>

\* A payment is confirmed; the row may have been anonymised meanwhile.
Activate(p) ==
  /\ ~person[p].active
  /\ Call
  /\ person' = [person EXCEPT ![p].active = TRUE]
  /\ due' = FALSE
  /\ UNCHANGED <<docs, task, desk, erasure, faults>>

\* The goroutine of an approval is owed the checklist from the approval on.
Approve(r, d, s) ==
  /\ ReviewDocument(r, d, s)
  /\ due' = IF s = "disetujui" THEN Live(d) /\ Found(Owner[d]) ELSE due
  /\ UNCHANGED <<desk, erasure, faults>>

Remove(d) ==
  /\ DeleteDocument(d)
  /\ due' = FALSE
  /\ UNCHANGED <<desk, erasure, faults>>

\* A handler or goroutine dies, or its statement fails; an open transaction is
\* rolled back.
Die(r) ==
  /\ task[r].pc \in Fallible \ {"idle"}
  /\ faults < MaxFaults
  /\ faults' = faults + 1
  /\ task' = [task EXCEPT ![r] = Idle]
  /\ due' = FALSE
  /\ UNCHANGED <<person, docs, calls, desk, erasure>>

-----------------------------------------------------------------------------
Papers(r) ==
  /\ \/ \E d \in Doc : UploadDocument(r, d) \/ PortalUploadDocument(r, d)
     \/ ExtractDocumentData(r)
     \/ ProcessDocument(r)
     \/ OnDocumentApproved(r)
     \/ ListBatch(r)
     \/ \E p \in Person : CheckPerson(r, p)
     \/ \E p \in Person : SetNIK(p)
  /\ UNCHANGED <<desk, erasure, due, faults>>

Next ==
  \/ \E r \in Request :
       \/ Papers(r)
       \/ \E d \in Doc, s \in {"disetujui", "ditolak"} : Approve(r, d, s)
       \/ GenerateChecklist(r)
       \/ ConfirmDeparture(r)
       \/ GetBatchProgress(r)
       \/ \E q \in Deletion, s \in Decisions : ClaimRequest(r, q, FinalStatus(s))
       \/ CloseRequest(r)
       \/ \E p \in Person : PortalUpdateProfile(r, p)
       \/ UpdateProfile(r)
       \/ Die(r)
  \/ \E d \in Doc : Remove(d)
  \/ InitChecklist
  \/ \E p \in Person : UpdateBaggage(p) \/ UpdateTicket(p) \/ UpdatePassport(p)
  \/ \E p \in Person, q \in Deletion : PortalRequestDeletion(q, p)
  \/ \E p \in Person : Activate(p)

Spec == Init /\ [][Next]_vars

-----------------------------------------------------------------------------
BatchReady ==
  /\ ListByBatch # {}
  /\ \A p \in ListByBatch : person[p].active => AllDocsApproved(p)

Answering == \E r \in Request : task[r].pc \in {"reload", "list", "check"}

\* The approval that completes the batch leads to its checklist: with several
\* approvals under way at once, the goroutine of the last to be written sees
\* the others and gives everybody paid for a row.
ReadyIsGenerated ==
  due /\ BatchReady /\ ~Answering
    => \A p \in ListByBatch : person[p].active => checklist[p] # Null

\* Exactly those whose request was granted are anonymised: a decision that dies
\* half way leaves neither an erased participant with an open request nor a
\* closed request whose data is still there.
ErasureMatchesRequest ==
  \A p \in Person :
    person[p].erased
      <=> \E q \in Deletion : deletions[q] = [who |-> p, status |-> "selesai"]

\* A decision on a request is final: of two admins with the same entry of the
\* queue the second neither repeats nor overturns what the first decided.
DecisionsStand ==
  [][\A q \in Deletion :
       deletions[q].status \in {"selesai", "ditolak"} => deletions'[q] = deletions[q]]_vars

Queue == INSTANCE ErasureQueue WITH
  request <- deletions, forgotten <- {p \in Person : person[p].erased}

\* Seen through its requests and whom it has anonymised, the system is the
\* queue: a decision is taken once and with all of its effect or none, whoever
\* else decides, dies, uploads or changes a profile meanwhile.
ImplementsQueue == Queue!Spec

\* Whoever was found handled when a departure was confirmed stays handled,
\* whatever approvals and desk openings initialise the checklist again.
ClearedStaysHandled == \A p \in cleared : checklist[p] = Steps

\* A NIK the machine filled in was read from an identity card of that person,
\* and the reading that says so has been stored.
FilledIsVerified ==
  \A p \in Person :
    person[p].nik = "read"
      => \E d \in Doc : Owner[d] = p /\ Kind[d] = "ktp" /\ docs[d].verdict = "passed"

\* The name, phone and e-mail of somebody erased come back only by a profile
\* change that was under way when the erasure was committed.
RestoredByOverlap ==
  \A p \in Person : person[p].erased /\ person[p].named => p \in overlapped

\* What privacy_repo.go promises: name, phone, e-mail and NIK are gone.
ErasedIsForgotten ==
  \A p \in Person : person[p].erased => ~person[p].named /\ person[p].nik = "none"
=============================================================================
