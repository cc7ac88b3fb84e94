---------------------------- MODULE ServerProofs ----------------------------
(***************************************************************************)
(* Theorems about the portal of Server, and about the whole of it, for any *)
(* number of people, journeys and files.                                   *)
(*                                                                         *)
(* PortalInv says what a session and a row of a file carry with them: a    *)
(* session with an account names a tour of that account, and what a row    *)
(* points to is its owner's or an address of the web.                      *)
(***************************************************************************)
EXTENDS MigrationsProofs, AccountsProofs

-----------------------------------------------------------------------------
(* The invariant.                                                          *)

\* A row of a file leads to its owner's directory, or out of the buckets.
OwnPath(row) ==
  \/ IsAbsoluteURL(row.path)
  \/ row.path = [under |-> row.owner, leadsTo |-> row.owner]

\* A session with an account was issued for a tour of the account's phone.
OwnSession(s) == s.account # Nobody => BookedBy[s.tour] = s.account

PortalInv ==
  /\ PortalTypeOK
  /\ DOMAIN file = File
  /\ \A f \in File : file[f] # NoFile => OwnPath(file[f])
  /\ \A s \in portal : OwnSession(s)

-----------------------------------------------------------------------------
(* What a step can be to the portal.                                       *)

\* The steps of the portal, one line for each group of columns they write.
PortalMove ==
  \/ \E t \in Tour : Book(t) \/ ConfirmPaid(t) \/ Erase(t)
  \/ NextDay
  \/ \E p \in Phone : PortalLogin(p)
  \/ \E t \in Tour : FoundTour(t) /\ ~ContentLocked(t) /\ ItineraryOf(t)
  \/ \E kind \in FileKinds, t \in Tour : Upload(kind, t)
  \/ \E s \in portal, f \in File, kind \in FileKinds, path \in Paths : RecordFile(s, f, kind, path)
  \/ \E s \in portal, f \in File : SignedURLForPortal(s, f)
  \/ \E f \in File : SignedURLForStaff(f)

\* Every step makes one move of the portal, or passes it by.
LEMMA PortalMoves ==
  ASSUME PortalInv, [Next]_vars
  PROVE  PortalMove \/ UNCHANGED portalVars
<1>1. CASE PortalCalls
  <2>1. CASE \/ \E t \in Tour : Book(t) \/ ConfirmPaid(t) \/ Erase(t)
             \/ \E p \in Phone : PortalLogin(p)
             \/ \E s \in staff, f \in File : RequireRole(s, Ops) /\ SignedURLForStaff(f)
    BY <2>1 DEF PortalMove
  <2>2. ASSUME NEW s \in portal,
               \/ PortalItinerary(s) \/ PortalBatchLeader(s) \/ PortalBriefingPDF(s)
               \/ \E t \in Tour : PortalTripItinerary(s, t)
        PROVE  PortalMove
    <3>1. s.tour \in Tour
      BY DEF PortalInv, PortalTypeOK, Session
    <3> QED
      BY <2>2, <3>1 DEF PortalMove, PortalItinerary, PortalBatchLeader, PortalBriefingPDF,
                        PortalTripItinerary
  <2>3. ASSUME NEW s \in portal, UploadScan(s) \/ UploadPaymentProof(s)
        PROVE  PortalMove
    <3>1. s.tour \in Tour
      BY DEF PortalInv, PortalTypeOK, Session
    <3> QED
      BY <2>3, <3>1 DEF PortalMove, UploadScan, UploadPaymentProof, FileKinds
  <2>4. ASSUME NEW s \in portal, NEW f \in File, NEW path \in Paths,
               RecordDocument(s, f, path) \/ PortalUploadProof(s, f, path)
        PROVE  PortalMove
    BY <2>4 DEF PortalMove, RecordDocument, PortalUploadProof, FileKinds
  <2>5. ASSUME NEW s \in portal, NEW f \in File, SignedURLForPortal(s, f)
        PROVE  PortalMove
    BY <2>5 DEF PortalMove
  <2> QED
    BY <1>1, <2>1, <2>2, <2>3, <2>4, <2>5 DEF PortalCalls
<1>2. CASE PortalSteps
  BY <1>2 DEF PortalSteps, PortalMove
<1>3. CASE \/ Migrating \/ Seeding \/ StaffCalls \/ StaffSteps
           \/ \E p \in Process : Die(p)
  BY <1>3 DEF Migrating, Seeding, StaffCalls, StaffSteps, Die
<1> QED
  BY <1>1, <1>2, <1>3 DEF Next, vars, portalVars

-----------------------------------------------------------------------------
(* The invariant is kept.                                                  *)

\* Nothing is booked, signed in or filed at first.
LEMMA PortalInvInit == PortalInit => PortalInv
BY TourAssumption, DayAssumption
   DEF PortalInit, PortalInv, PortalTypeOK, TourRow, NoFile, FileKinds

\* A path a participant may record is the participant's own.
LEMMA RecordedIsOwn ==
  ASSUME NEW t \in Tour, NEW path \in Paths, NEW kind \in FileKinds,
         PathBelongsToParticipant(path, t)
  PROVE  LET row == [owner |-> t, kind |-> kind, path |-> path, deleted |-> FALSE]
         IN  row \in FileRow /\ OwnPath(row)
BY DEF PathBelongsToParticipant, OwnPath, FileRow, IsAbsoluteURL

\* A file that is opened is one of the buckets.
LEMMA SignedDirectory ==
  ASSUME PortalInv, NEW f \in File, Resolve(f), ~IsAbsoluteURL(file[f].path)
  PROVE  /\ file[f] \in FileRow
         /\ file[f].owner \in Tour
         /\ file[f].path.leadsTo = file[f].owner
<1>1. file[f] \in FileRow
  BY DEF PortalInv, PortalTypeOK, Resolve
<1>2. file[f].path = [under |-> file[f].owner, leadsTo |-> file[f].owner]
  BY DEF PortalInv, OwnPath, Resolve
<1> QED
  BY <1>1, <1>2 DEF FileRow

\* No step records a path that is not its owner's, or a session of somebody
\* else's tour.
LEMMA PortalStep == PortalInv /\ [Next]_vars => PortalInv'
<1> SUFFICES ASSUME PortalInv, [Next]_vars PROVE PortalInv'
  OBVIOUS
<1> USE DEF PortalInv, PortalTypeOK
<1>1. ASSUME NEW t \in Tour, Book(t) \/ ConfirmPaid(t)
      PROVE  PortalInv'
  <2>1. tour' \in [Tour -> TourRow]
    BY <1>1 DEF Book, ConfirmPaid, TourRow
  <2>2. account' \subseteq Phone
    BY <1>1, TourAssumption DEF Book, ConfirmPaid
  <2> QED
    BY <1>1, <2>1, <2>2 DEF Book, ConfirmPaid
<1>2. ASSUME NEW t \in Tour, Erase(t)
      PROVE  PortalInv'
  <2>1. tour' \in [Tour -> TourRow]
    BY <1>2 DEF Erase, TourRow
  <2>2. ASSUME NEW f \in File
        PROVE  /\ file'[f] = NoFile \/ file'[f] \in FileRow
               /\ file'[f] # NoFile => OwnPath(file'[f])
    <3>1. \/ file'[f] = file[f]
          \/ file[f] # NoFile /\ file'[f] = [file[f] EXCEPT !.deleted = TRUE]
      BY <1>2 DEF Erase
    <3>2. CASE file[f] # NoFile /\ file'[f] = [file[f] EXCEPT !.deleted = TRUE]
      <4>1. file[f] \in FileRow /\ OwnPath(file[f])
        BY <3>2
      <4>2. /\ file'[f] \in FileRow
            /\ file'[f].path = file[f].path
            /\ file'[f].owner = file[f].owner
        BY <3>2, <4>1 DEF FileRow
      <4> QED
        BY <4>1, <4>2 DEF OwnPath
    <3> QED
      BY <3>1, <3>2
  <2>3. DOMAIN file' = File
    BY <1>2 DEF Erase
  <2> QED
    BY <1>2, <2>1, <2>2, <2>3 DEF Erase
<1>3. CASE NextDay
  BY <1>3, DayAssumption DEF NextDay
<1>4. ASSUME NEW p \in Phone, PortalLogin(p)
      PROVE  PortalInv'
  <2>1. PICK t \in Tour, a \in {p, Nobody} :
          /\ BookedBy[t] = p
          /\ portal' = portal \cup {[tour |-> t, account |-> a]}
    BY <1>4 DEF PortalLogin, WithAccount, WithoutAccount, Newest, ListByPortalUser
  <2>2. portal' \subseteq Session
    BY <2>1 DEF Session
  <2>3. \A s \in portal' : OwnSession(s)
    BY <2>1 DEF OwnSession
  <2> QED
    BY <1>4, <2>2, <2>3 DEF PortalLogin
<1>5. ASSUME NEW t \in Tour, ItineraryOf(t)
      PROVE  PortalInv'
  BY <1>5 DEF ItineraryOf
<1>6. ASSUME NEW kind \in FileKinds, NEW t \in Tour, Upload(kind, t)
      PROVE  PortalInv'
  BY <1>6 DEF Upload
<1>7. ASSUME NEW s \in portal, NEW f \in File, NEW kind \in FileKinds, NEW path \in Paths,
             RecordFile(s, f, kind, path)
      PROVE  PortalInv'
  <2> DEFINE row == [owner |-> s.tour, kind |-> kind, path |-> path, deleted |-> FALSE]
  <2>1. s.tour \in Tour
    BY DEF Session
  <2>2. row \in FileRow /\ OwnPath(row)
    BY <1>7, <2>1, RecordedIsOwn DEF RecordFile
  <2>3. file' = [file EXCEPT ![f] = row]
    BY <1>7 DEF RecordFile
  <2> HIDE DEF row
  <2> QED
    BY <1>7, <2>2, <2>3 DEF RecordFile
<1>8. ASSUME NEW f \in File, NEW by \in Phone \cup {Nobody}, Resolve(f), SignPrivateFile(f, by)
      PROVE  PortalInv'
  <2>1. file[f].path.leadsTo \in Tour
    BY <1>8, SignedDirectory DEF SignPrivateFile
  <2>2. opened' \subseteq [by : Phone \cup {Nobody}, of : Tour]
    BY <1>8, <2>1 DEF SignPrivateFile
  <2> QED
    BY <1>8, <2>2 DEF SignPrivateFile
<1>9. ASSUME NEW s \in portal, NEW f \in File, SignedURLForPortal(s, f)
      PROVE  PortalInv'
  <2>1. BookedBy[s.tour] \in Phone \cup {Nobody}
    BY TourAssumption DEF Session
  <2> QED
    BY <1>8, <1>9, <2>1 DEF SignedURLForPortal
<1>10. CASE UNCHANGED portalVars
  BY <1>10 DEF portalVars
<1> QED
  <2>1. CASE PortalMove
    BY <2>1, <1>1, <1>2, <1>3, <1>4, <1>5, <1>6, <1>7, <1>8, <1>9
       DEF PortalMove, SignedURLForStaff
  <2> QED
    BY <1>10, <2>1, PortalMoves

-----------------------------------------------------------------------------
(* Content and files.                                                      *)

\* Of a tour whose content was shown, the payment is taken back only by its
\* erasure; and nothing brings an erased tour back.
LEMMA ContentStep == PortalInv /\ PaidContent /\ [Next]_vars => PaidContent'
<1> SUFFICES ASSUME PortalInv, PaidContent, [Next]_vars PROVE PaidContent'
  OBVIOUS
<1> USE DEF PaidContent, PortalInv, PortalTypeOK
<1>1. ASSUME NEW t \in Tour, Book(t) \/ ConfirmPaid(t)
      PROVE  PaidContent'
  <2>1. \A u \in Tour : /\ tour[u].paid => tour'[u].paid
                        /\ tour[u].gone => tour'[u].gone
    BY <1>1 DEF Book, ConfirmPaid, TourRow
  <2> QED
    BY <1>1, <2>1 DEF Book, ConfirmPaid
<1>2. ASSUME NEW t \in Tour, Erase(t)
      PROVE  PaidContent'
  <2>1. \A u \in Tour : tour'[u].gone \/ tour'[u] = tour[u]
    BY <1>2 DEF Erase, TourRow
  <2> QED
    BY <1>2, <2>1 DEF Erase
<1>3. ASSUME NEW t \in Tour, ~ContentLocked(t), ItineraryOf(t)
      PROVE  PaidContent'
  BY <1>3 DEF ItineraryOf, ContentLocked
<1>4. CASE UNCHANGED <<tour, shown>>
  BY <1>4
<1>5. CASE PortalMove
  BY <1>1, <1>2, <1>3, <1>4, <1>5
     DEF PortalMove, NextDay, PortalLogin, Upload, RecordFile, SignedURLForPortal,
         SignedURLForStaff, SignPrivateFile
<1> QED
  BY <1>4, <1>5, PortalMoves DEF portalVars

\* Travel content is shown of a tour only once its payment has been confirmed.
THEOREM ContentIsPaidFor == Spec => []PaidContent
<1>1. Init => PortalInv /\ PaidContent
  BY PortalInvInit DEF Init, PortalInit, PaidContent
<1>2. PortalInv /\ PaidContent /\ [Next]_vars => (PortalInv /\ PaidContent)'
  BY PortalStep, ContentStep
<1> QED
  BY <1>1, <1>2, PTL DEF Spec

\* The tours a session owns are tours of one phone: the one its own tour was
\* booked with.
LEMMA OwnedByOnePhone ==
  ASSUME PortalInv, NEW s \in portal, NEW t \in Tour, Owns(s, t)
  PROVE  BookedBy[t] = BookedBy[s.tour]
<1>1. s.tour \in Tour /\ OwnSession(s)
  BY DEF PortalInv, PortalTypeOK, Session
<1>2. BookedBy[t] \in Phone /\ BookedBy[t] # Nobody
  BY TourAssumption, NobodyAssumption
<1>3. CASE t = s.tour
  BY <1>3
<1>4. CASE BookedBy[t] = s.account
  BY <1>1, <1>2, <1>4 DEF OwnSession
<1>5. CASE BookedBy[t] = SessionPhone(s)
  BY <1>1, <1>2, <1>5 DEF OwnSession, SessionPhone
<1> QED
  BY <1>3, <1>4, <1>5 DEF Owns, ListTrips, ListByPortalUser

\* A session opens what was stored for a tour of its person.
LEMMA SignedStep == PortalInv /\ SignedIsOwn /\ [Next]_vars => SignedIsOwn'
<1> SUFFICES ASSUME PortalInv, SignedIsOwn, [Next]_vars PROVE SignedIsOwn'
  OBVIOUS
<1>1. ASSUME NEW s \in portal, NEW f \in File, SignedURLForPortal(s, f)
      PROVE  SignedIsOwn'
  <2>1. file[f].owner \in Tour /\ file[f].path.leadsTo = file[f].owner
    BY <1>1, SignedDirectory DEF SignedURLForPortal, SignPrivateFile
  <2>2. BookedBy[file[f].owner] = BookedBy[s.tour]
    BY <1>1, <2>1, OwnedByOnePhone DEF SignedURLForPortal
  <2>3. opened' = opened \cup {[by |-> BookedBy[s.tour], of |-> file[f].owner]}
    BY <1>1, <2>1 DEF SignedURLForPortal, SignPrivateFile
  <2> QED
    BY <2>2, <2>3 DEF SignedIsOwn
<1>2. ASSUME NEW f \in File, SignedURLForStaff(f)
      PROVE  SignedIsOwn'
  BY <1>2 DEF SignedIsOwn, SignedURLForStaff, SignPrivateFile
<1>3. CASE UNCHANGED opened
  BY <1>3 DEF SignedIsOwn
<1>4. CASE PortalMove
  BY <1>1, <1>2, <1>3, <1>4
     DEF PortalMove, Book, ConfirmPaid, Erase, NextDay, PortalLogin, ItineraryOf, Upload,
         RecordFile
<1> QED
  BY <1>3, <1>4, PortalMoves DEF portalVars

\* What a session opens was stored for a tour of the same person, whichever of
\* the person's tours it was issued for.
THEOREM SignedFilesAreOwn == Spec => []SignedIsOwn
<1>1. Init => PortalInv /\ SignedIsOwn
  BY PortalInvInit DEF Init, PortalInit, SignedIsOwn
<1>2. PortalInv /\ SignedIsOwn /\ [Next]_vars => (PortalInv /\ SignedIsOwn)'
  BY PortalStep, SignedStep
<1> QED
  BY <1>1, <1>2, PTL DEF Spec

-----------------------------------------------------------------------------
(* The server.                                                             *)

\* What may still happen is counted.
BudgetOK == budget \in [Events -> Nat]

\* Every call and every fault is counted.
LEMMA BudgetStep == BudgetOK /\ [Next]_vars => BudgetOK'
<1> SUFFICES ASSUME BudgetOK, [Next]_vars PROVE BudgetOK'
  OBVIOUS
<1>1. \/ UNCHANGED budget
      \/ \E what \in Events : Spend(what)
  BY DEF Next, vars, Migrating, Seeding, StaffCalls, StaffSteps, PortalCalls, PortalSteps,
         Die, Events
<1>2. ASSUME NEW what \in Events, Spend(what)
      PROVE  BudgetOK'
  BY <1>2 DEF BudgetOK, Spend
<1> QED
  BY <1>1, <1>2 DEF BudgetOK

\* The three parts of the server keep their types while they share its steps:
\* a crash that empties its memory, a session that outlives it.
THEOREM ServerTypeCorrect == Spec => []TypeOK
<1> DEFINE IInv == MigrationsTypeOK /\ AccountsInv /\ PortalInv /\ BudgetOK
<1>1. Init => IInv
  BY MigrationsTypeInit, AccountsTypeInit, PortalInvInit, BudgetAssumption
     DEF Init, BudgetOK
<1>2. IInv /\ [Next]_vars => IInv'
  BY MigrationsTypeStep, AccountsStep, PortalStep, BudgetStep
<1>3. IInv => TypeOK
  BY DEF TypeOK, AccountsInv, PortalInv, BudgetOK
<1> QED
  BY <1>1, <1>2, <1>3, PTL DEF Spec
=============================================================================
