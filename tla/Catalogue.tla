----------------------------- MODULE Catalogue -----------------------------
(***************************************************************************)
(* Packages and their departures as the back office edits them.  An edit   *)
(* reads the row, puts the fields of the request over it and writes the    *)
(* row back, so of two edits at once the later undoes the earlier; whether *)
(* a package is deleted, and the package of a departure, are not among the *)
(* columns that are written.                                               *)
(***************************************************************************)
EXTENDS Naturals, FiniteSets

CONSTANTS
  Package, Batch, Slug,
  Quotas,        \* the quotas a departure is given in this instance
  Editor,        \* edits that can be under way
  StartSlug,     \* the slugs of the packages that are there already
  StartOf,       \* the packages of the departures that are there already
  MaxSold,       \* bound on the deals of a departure
  NoPackage

ASSUME QuotaAssumption == Quotas \subseteq Nat \ {0} /\ MaxSold \in Nat
ASSUME StartAssumption == /\ StartSlug \in [Package -> Slug \cup {NoPackage}]
                          /\ StartOf \in [Batch -> Package \cup {NoPackage}]

VARIABLES
  package, batch,
  edit,          \* the edits under way, with the row they are to write
  sold           \* leads of a batch that are a deal

catalogueVars == <<package, batch, edit, sold>>

BatchStatuses == {"tersedia", "penuh", "ditutup"}

PackageRow == [slug : Slug, active : BOOLEAN, deleted : BOOLEAN]

BatchRow == [of : Package, status : BatchStatuses, quota : Quotas]

NoEdit == [on |-> NoPackage]

ASSUME NoPackageAssumption ==
  /\ NoPackage \notin Package \cup Batch \cup PackageRow \cup BatchRow
  /\ Package \cap Batch = {}

CatalogueTypeOK ==
  /\ \A p \in Package : package[p] = NoPackage \/ package[p] \in PackageRow
  /\ \A b \in Batch : batch[b] = NoPackage \/ batch[b] \in BatchRow
  /\ \A e \in Editor : \/ edit[e] = NoEdit
                       \/ edit[e].on \in Package /\ edit[e].row \in PackageRow
                       \/ edit[e].on \in Batch /\ edit[e].row \in BatchRow
  /\ sold \in [Batch -> 0..MaxSold]

CatalogueInit ==
  /\ package = [p \in Package |->
                  IF StartSlug[p] = NoPackage THEN NoPackage
                  ELSE [slug |-> StartSlug[p], active |-> TRUE, deleted |-> FALSE]]
  /\ \E q \in [Batch -> Quotas] :
       batch = [b \in Batch |->
                  IF StartOf[b] = NoPackage THEN NoPackage
                  ELSE [of |-> StartOf[b], status |-> "tersedia", quota |-> q[b]]]
  /\ edit = [e \in Editor |-> NoEdit]
  /\ sold = [b \in Batch |-> IF StartOf[b] = NoPackage THEN 0 ELSE MaxSold]

-----------------------------------------------------------------------------
LivePackage(p) == package[p] # NoPackage /\ ~package[p].deleted

\* A deleted package keeps its slug: the column is unique over all rows.
SlugTaken(s, p) == \E o \in Package \ {p} : package[o] # NoPackage /\ package[o].slug = s

InsertPackage(p, s, a) ==
  /\ ~SlugTaken(s, p)
  /\ package' = [package EXCEPT ![p] = [slug |-> s, active |-> a, deleted |-> FALSE]]

CreatePackage(p, s) ==
  /\ package[p] = NoPackage
  /\ \E a \in BOOLEAN : InsertPackage(p, s, a)
  /\ UNCHANGED <<batch, edit, sold>>

DeletePackage(p) ==
  /\ LivePackage(p)
  /\ package' = [package EXCEPT ![p].deleted = TRUE]
  /\ UNCHANGED <<batch, edit, sold>>

OpenEdit(e, x, row) == edit[e] = NoEdit /\ edit' = [edit EXCEPT ![e] = [on |-> x, row |-> row]]

UpdatePackage(e, p) ==
  /\ LivePackage(p)
  /\ \E s \in Slug, a \in BOOLEAN :
       OpenEdit(e, p, [package[p] EXCEPT !.slug = s, !.active = a])
  /\ UNCHANGED <<package, batch, sold>>

WritePackage_Whole(e) ==
  LET p == edit[e].on IN
  /\ p \in Package
  /\ package' = IF SlugTaken(edit[e].row.slug, p) THEN package
                ELSE [package EXCEPT ![p] = edit[e].row]
  /\ edit' = [edit EXCEPT ![e] = NoEdit]
  /\ UNCHANGED <<batch, sold>>

\* The row may have been deleted, or the slug taken, since it was read.
WritePackage(e) ==
  LET p == edit[e].on IN
  /\ p \in Package
  /\ package' = IF LivePackage(p) /\ ~SlugTaken(edit[e].row.slug, p)
                THEN [package EXCEPT ![p].slug = edit[e].row.slug,
                                     ![p].active = edit[e].row.active]
                ELSE package
  /\ edit' = [edit EXCEPT ![e] = NoEdit]
  /\ UNCHANGED <<batch, sold>>

\* The package the body claims must be the one of the address, or none.
AddBatch(p, claimed) == claimed \in {NoPackage, p}

CreateBatch_AsClaimed(e, b, p, claimed) ==
  /\ batch[b] = NoPackage
  /\ \A o \in Editor : edit[o].on # b
  /\ LivePackage(p)
  /\ AddBatch(p, claimed)
  /\ \E s \in BatchStatuses, q \in Quotas :
       OpenEdit(e, b, [of |-> claimed, status |-> s, quota |-> q])
  /\ UNCHANGED <<package, batch, sold>>

\* The package is read and asked; the departure is inserted by a statement of
\* its own, under an identifier nobody else has.
CreateBatch(e, b, p, claimed) ==
  /\ batch[b] = NoPackage
  /\ \A o \in Editor : edit[o].on # b
  /\ LivePackage(p)
  /\ AddBatch(p, claimed)
  /\ \E s \in BatchStatuses, q \in Quotas :
       OpenEdit(e, b, [of |-> p, status |-> s, quota |-> q])
  /\ UNCHANGED <<package, batch, sold>>

InsertBatch(e) ==
  LET b == edit[e].on IN
  /\ b \in Batch
  /\ batch[b] = NoPackage
  /\ batch' = [batch EXCEPT ![b] = edit[e].row]
  /\ edit' = [edit EXCEPT ![e] = NoEdit]
  /\ UNCHANGED <<package, sold>>

\* The body is put over the row that was read, the package it names as well.
UpdateBatch(e, b, claimed) ==
  /\ batch[b] # NoPackage
  /\ \E s \in BatchStatuses, q \in Quotas :
       OpenEdit(e, b, [of |-> IF claimed = NoPackage THEN batch[b].of ELSE claimed,
                   status |-> s, quota |-> q])
  /\ UNCHANGED <<package, batch, sold>>

WriteBatch(e) ==
  LET b == edit[e].on IN
  /\ b \in Batch
  /\ batch[b] # NoPackage
  /\ batch' = [batch EXCEPT ![b] = [edit[e].row EXCEPT !.of = batch[b].of]]
  /\ edit' = [edit EXCEPT ![e] = NoEdit]
  /\ UNCHANGED <<package, sold>>

\* A lead becomes a deal, or stops being one: converting it makes it a
\* participant, and it no longer counts.
MoveDeal(b) ==
  /\ batch[b] # NoPackage
  /\ \/ sold[b] < MaxSold /\ sold' = [sold EXCEPT ![b] = @ + 1]
     \/ sold[b] > 0 /\ sold' = [sold EXCEPT ![b] = @ - 1]
  /\ UNCHANGED <<package, batch, edit>>

-----------------------------------------------------------------------------
SeatsRemaining(b) == IF batch[b].quota > sold[b] THEN batch[b].quota - sold[b] ELSE 0

QuotaWarningPercent == 20

\* Departures the admins are warned about, deleted packages' ones included.
NearlyFull ==
  {b \in Batch : /\ batch[b] # NoPackage
                 /\ batch[b].status = "tersedia"
                 /\ SeatsRemaining(b) * 100 <= QuotaWarningPercent * batch[b].quota}
=============================================================================
