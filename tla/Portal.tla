------------------------------- MODULE Portal -------------------------------
(***************************************************************************)
(* The participants' portal: who a session belongs to, what of a tour it   *)
(* shows before the payment is confirmed, and which stored files it opens. *)
(*                                                                         *)
(* A session is a signed token of a day that names one tour and, since     *)
(* there are portal accounts, an account.  A person may have several       *)
(* tours; an old one was booked before accounts existed and is found by    *)
(* its phone number alone.  The rows of files are written by participants  *)
(* and name a path in a private bucket, which is where ownership of the    *)
(* row and of what it points to may come apart.                            *)
(***************************************************************************)
EXTENDS Naturals, FiniteSets

CONSTANTS
  Tour,          \* participants, one for each journey of a person
  Phone,
  BookedBy,      \* the phone a tour was booked with
  LeavesOn,      \* the day a tour departs
  Old,           \* tours that were booked before there were accounts
  LastDay,       \* bound on the days that pass
  BriefingWindowDays,
  File,          \* identifiers of rows of documents and payment proofs
  StorageEnabled,
  Nobody

ASSUME TourAssumption == /\ BookedBy \in [Tour -> Phone]
                         /\ LeavesOn \in [Tour -> Nat]
                         /\ Old \subseteq Tour
ASSUME DayAssumption == LastDay \in Nat /\ BriefingWindowDays \in Nat
ASSUME NobodyAssumption == Nobody \notin Phone \cup Tour

VARIABLES
  tour,          \* participants: booked, paid for, anonymised
  account,       \* the phones that have a portal account
  portal,        \* the portal sessions that are out
  file,          \* rows of documents and payment_proofs
  stored,        \* the owners' directories in the private buckets
  today,
  shown,         \* history: tours whose travel content was shown
  opened         \* history: directories opened by a signed URL, and for whom

portalVars == <<tour, account, portal, file, stored, today, shown, opened>>

FileKinds == {"document", "payment_proof"}

TourRow == [booked : BOOLEAN, paid : BOOLEAN, gone : BOOLEAN]

\* An object path: the owner's directory it starts with, and the one it leads
\* to.  A path that leads nowhere in the buckets is an address of the web.
Paths == [under : Tour, leadsTo : Tour] \cup {[under |-> Nobody, leadsTo |-> Nobody]}

FileRow == [owner : Tour, kind : FileKinds, path : Paths, deleted : BOOLEAN]

NoFile == [owner |-> Nobody]

Session == [tour : Tour, account : Phone \cup {Nobody}]

PortalTypeOK ==
  /\ tour \in [Tour -> TourRow]
  /\ account \subseteq Phone
  /\ portal \subseteq Session
  /\ \A f \in File : file[f] = NoFile \/ file[f] \in FileRow
  /\ stored \subseteq FileKinds \X Tour
  /\ today \in 0..LastDay
  /\ shown \subseteq Tour
  /\ opened \subseteq [by : Phone \cup {Nobody}, of : Tour]

PortalInit ==
  /\ tour = [t \in Tour |-> [booked |-> t \in Old, paid |-> FALSE, gone |-> FALSE]]
  /\ account = {}
  /\ portal = {}
  /\ file = [f \in File |-> NoFile]
  /\ stored = {}
  /\ today = 0
  /\ shown = {}
  /\ opened = {}

-----------------------------------------------------------------------------
(* Tours and who owns them.                                                *)

\* An anonymised tour is not found, by whatever it is looked up.
FoundTour(t) == tour[t].booked /\ ~tour[t].gone

\* The tours of an account, or with a phone: one that was booked without an
\* account is found by the phone it shares.
ListByPortalUser(a, phone) ==
  {t \in Tour : /\ FoundTour(t)
                /\ (t \notin Old /\ BookedBy[t] = a) \/ BookedBy[t] = phone}

Newest(tours) == {t \in tours : \A u \in tours : LeavesOn[u] <= LeavesOn[t]}

\* The phone a session's tours are looked up by: the account's, or that of the
\* tour it names.
SessionPhone(s) ==
  IF s.account # Nobody THEN s.account
  ELSE IF FoundTour(s.tour) THEN BookedBy[s.tour] ELSE Nobody

ListTrips(s) == ListByPortalUser(s.account, SessionPhone(s))

\* The tour a session names is its own without a lookup.
Owns(s, t) == t = s.tour \/ t \in ListTrips(s)

\* A conversion books a tour; a new phone gets its account.
Book(t) ==
  /\ ~tour[t].booked
  /\ tour' = [tour EXCEPT ![t].booked = TRUE]
  /\ account' = account \cup {BookedBy[t]}
  /\ UNCHANGED <<portal, file, stored, today, shown, opened>>

\* The statement that opens the portal names the row and asks nothing else: it
\* reaches an anonymised one too.
ConfirmPaid(t) ==
  /\ tour[t].booked
  /\ ~tour[t].paid
  /\ tour' = [tour EXCEPT ![t].paid = TRUE]
  /\ UNCHANGED <<account, portal, file, stored, today, shown, opened>>

\* An erasure: the documents go with the tour, the payment proofs stay.
Erase(t) ==
  /\ FoundTour(t)
  /\ tour' = [tour EXCEPT ![t] = [@ EXCEPT !.paid = FALSE, !.gone = TRUE]]
  /\ file' = [f \in File |->
                IF file[f] # NoFile /\ file[f].owner = t /\ file[f].kind = "document"
                THEN [file[f] EXCEPT !.deleted = TRUE] ELSE file[f]]
  /\ UNCHANGED <<account, portal, stored, today, shown, opened>>

NextDay ==
  /\ today < LastDay
  /\ today' = today + 1
  /\ UNCHANGED <<tour, account, portal, file, stored, shown, opened>>

-----------------------------------------------------------------------------
(* Signing in.  A session that has expired is one nobody uses any more.    *)

WithAccount_NoTour(phone) ==
  /\ phone \in account
  /\ LET trips == Newest(ListByPortalUser(phone, phone)) IN
     \E t \in IF trips = {} THEN {Nobody} ELSE trips :
       portal' = portal \cup {[tour |-> t, account |-> phone]}

\* With an account the newest departure is the tour of the session, paid for or
\* not; an account without a tour is refused.
WithAccount(phone) ==
  /\ phone \in account
  /\ \E t \in Newest(ListByPortalUser(phone, phone)) :
       portal' = portal \cup {[tour |-> t, account |-> phone]}

\* Before accounts the password was the participant's: any row of the phone.
WithoutAccount(phone) ==
  /\ phone \notin account
  /\ \E t \in Tour : /\ FoundTour(t)
                     /\ BookedBy[t] = phone
                     /\ portal' = portal \cup {[tour |-> t, account |-> Nobody]}

PortalLogin(phone) ==
  /\ WithAccount(phone) \/ WithoutAccount(phone)
  /\ UNCHANGED <<tour, account, file, stored, today, shown, opened>>

-----------------------------------------------------------------------------
(* Travel content behind the payment.                                      *)

ContentLocked_PastOpen(t) == ~tour[t].paid /\ today <= LeavesOn[t]

\* Nothing but the payment opens it; that the journey is over does not.
ContentLocked(t) == ~tour[t].paid

IsBriefingActive(t) == LeavesOn[t] <= today + BriefingWindowDays

ItineraryOf(t) ==
  /\ shown' = shown \cup {t}
  /\ UNCHANGED <<tour, account, portal, file, stored, today, opened>>

PortalItinerary(s) ==
  /\ FoundTour(s.tour)
  /\ ~ContentLocked(s.tour)
  /\ ItineraryOf(s.tour)

\* Any tour of the session's person, past ones too.
PortalTripItinerary(s, t) ==
  /\ Owns(s, t)
  /\ FoundTour(t)
  /\ ~ContentLocked(t)
  /\ ItineraryOf(t)

\* The tour leader and the group of the batch.
PortalBatchLeader(s) ==
  /\ FoundTour(s.tour)
  /\ ~ContentLocked(s.tour)
  /\ ItineraryOf(s.tour)

PortalBriefingPDF(s) ==
  /\ FoundTour(s.tour)
  /\ ~ContentLocked(s.tour)
  /\ IsBriefingActive(s.tour)
  /\ ItineraryOf(s.tour)

-----------------------------------------------------------------------------
(* Private files.                                                          *)

IsAbsoluteURL(path) == path.under = Nobody

\* An upload is filed under the tour of the session.
Upload(kind, t) ==
  /\ StorageEnabled
  /\ stored' = stored \cup {<<kind, t>>}
  /\ UNCHANGED <<tour, account, portal, file, today, shown, opened>>

UploadScan(s) == Upload("document", s.tour)

UploadPaymentProof(s) == Upload("payment_proof", s.tour)

PathBelongsToParticipant_ByPrefix(path, t) == IsAbsoluteURL(path) \/ path.under = t

\* Paths that climb out of their directory are refused.
PathBelongsToParticipant(path, t) ==
  \/ IsAbsoluteURL(path)
  \/ path = [under |-> t, leadsTo |-> t]

RecordFile(s, f, kind, path) ==
  /\ file[f] = NoFile
  /\ PathBelongsToParticipant(path, s.tour)
  /\ file' = [file EXCEPT ![f] = [owner |-> s.tour, kind |-> kind,
                                  path |-> path, deleted |-> FALSE]]
  /\ UNCHANGED <<tour, account, portal, stored, today, shown, opened>>

RecordDocument(s, f, path) == RecordFile(s, f, "document", path)

PortalUploadProof(s, f, path) == RecordFile(s, f, "payment_proof", path)

\* A row is found by its id unless it is a deleted document.
Resolve(f) == file[f] # NoFile /\ ~file[f].deleted

\* An address of the web is handed back as it is; for anything else the bucket
\* of the row's kind is asked.
SignPrivateFile(f, by) ==
  /\ StorageEnabled
  /\ ~IsAbsoluteURL(file[f].path)
  /\ <<file[f].kind, file[f].path.leadsTo>> \in stored
  /\ opened' = opened \cup {[by |-> by, of |-> file[f].path.leadsTo]}
  /\ UNCHANGED <<tour, account, portal, file, stored, today, shown>>

SignedURLForPortal(s, f) ==
  /\ Resolve(f)
  /\ Owns(s, file[f].owner)
  /\ SignPrivateFile(f, BookedBy[s.tour])

SignedURLForStaff(f) == Resolve(f) /\ SignPrivateFile(f, Nobody)

-----------------------------------------------------------------------------
\* Travel content is shown of a tour only once its payment has been confirmed:
\* neither the archive nor a departure that went by is a way around it.
PaidContent == \A t \in shown : tour[t].paid \/ tour[t].gone

\* What a session opens was stored for a tour of the same person, whatever path
\* the row that led there was recorded with and whichever of the person's tours
\* the session was issued for.
SignedIsOwn == \A o \in opened : o.by = Nobody \/ BookedBy[o.of] = o.by
=============================================================================
