-------------------------- MODULE MigrationsProofs --------------------------
(***************************************************************************)
(* Theorems about the migrations of Server, for any set of files, any      *)
(* database the first run may find, and any interleaving of the server     *)
(* with the operator's commands.                                           *)
(*                                                                         *)
(* ServedInv says what a run of the server may conclude from the ledger it *)
(* has read; AdoptionInv where the objects of an older database are that   *)
(* no ledger row accounts for.                                             *)
(***************************************************************************)
EXTENDS Server, TLAPS, WellFoundedInduction

-----------------------------------------------------------------------------
(* The invariants.                                                         *)

\* What the ledger names is there, and as long as nothing is undone the server
\* has nothing left but what the ledger does not name.
ServedInv ==
  /\ ledger \subseteq schema
  /\ ~undone =>
       /\ runner[Api].pc \in {"probe", "apply"} => Files \ runner[Api].left \subseteq ledger
       /\ Serving => ledger = Files

\* Objects of an older database that no run can create again or has recorded.
Inherited == Strict \cap (schema \ ledger)

Adopting == \E p \in Process : runner[p].adopting

\* No run has got as far as to look whether the database is an old one.
Untouched ==
  /\ ledger = {}
  /\ Min(Files) \in schema
  /\ \A p \in Process : /\ runner[p].pc \in {"off", "probe"}
                        /\ runner[p].pc = "probe" => runner[p].left = Files

\* Whoever adopts has all of them before it, and when there are any, somebody
\* adopts, or will, or was interrupted.
AdoptionInv ==
  /\ \A p \in Process :
       runner[p].adopting => runner[p].pc = "apply" /\ Inherited \subseteq runner[p].left
  /\ Inherited = {} \/ interrupted \/ Adopting \/ Untouched

-----------------------------------------------------------------------------
\* The least of a set of numbers is one of them: the files that are left are
\* taken from the first.
LEMMA LeastFile ==
  ASSUME NEW S \in SUBSET Files, S # {}
  PROVE  Min(S) \in S /\ \A f \in S : Min(S) <= f
<1>1. S \subseteq Nat
  BY FilesAssumption
<1>2. \E x \in S : \A y \in S : ~ (<<y, x>> \in OpToRel(<, Nat))
  BY <1>1, NatLessThanWellFounded, WFMin
<1>3. PICK x \in S : \A y \in S : ~ (<<y, x>> \in OpToRel(<, Nat))
  BY <1>2
<1>4. \A y \in S : ~ (y < x)
  BY <1>1, <1>3 DEF OpToRel
<1>5. \A y \in S : x <= y
  BY <1>1, <1>4
<1> QED
  BY <1>5 DEF Min

\* What a step can be to the database and its runs: one of their own, the death
\* of one, or nothing.
LEMMA MigrationMoves ==
  ASSUME [Next]_vars
  PROVE  \/ \E p \in Process : ReadLedger(p)
         \/ Down
         \/ \E p \in Process : Probe(p)
         \/ \E p \in Process : NextFile(p)
         \/ \E p \in Process : Finish(p)
         \/ RollBack
         \/ \E p \in Process : Crash(p)
         \/ UNCHANGED migrationVars
BY DEF Next, vars, Migrating, Migrate, Seeding, StaffCalls, StaffSteps, PortalCalls,
       PortalSteps, Die, Process

-----------------------------------------------------------------------------
(* What each step does to the run that takes it.                           *)

\* The step gives process p a new state and leaves the other's alone.
RunnerSteps(p) ==
  /\ runner' \in [Process -> Runner]
  /\ \A o \in Process : o # p => runner'[o] = runner[o]

\* A process that is not running has nothing to do.
LEMMA OffType == Off \in Runner /\ Off.pc = "off" /\ Off.left = {} /\ ~Off.adopting
BY DEF Off, Runner

\* A run starts with what the ledger does not name.
LEMMA ReadLedgerStep ==
  ASSUME MigrationsTypeOK, NEW p \in Process, ReadLedger(p)
  PROVE  /\ RunnerSteps(p)
         /\ runner[p].pc = "off"
         /\ runner'[p].pc = "probe"
         /\ runner'[p].left = Files \ ledger
         /\ ~runner'[p].adopting
         /\ undone' = IF p = Api THEN FALSE ELSE undone
         /\ UNCHANGED <<schema, ledger, interrupted>>
<1> DEFINE u == [Off EXCEPT !.pc = "probe", !.left = Files \ ledger]
<1>1. u \in Runner /\ u.pc = "probe" /\ u.left = Files \ ledger /\ ~u.adopting
  BY DEF Off, Runner
<1>2. runner' = [runner EXCEPT ![p] = u]
  BY DEF ReadLedger
<1> HIDE DEF u
<1> QED
  BY <1>1, <1>2 DEF MigrationsTypeOK, RunnerSteps, ReadLedger, RunnerAt

\* A run that starts from an empty ledger adopts a database that has the first
\* file's objects.
LEMMA ProbeStep ==
  ASSUME MigrationsTypeOK, NEW p \in Process, Probe(p)
  PROVE  /\ RunnerSteps(p)
         /\ runner[p].pc = "probe"
         /\ runner'[p].pc = "apply"
         /\ runner'[p].left = runner[p].left
         /\ runner'[p].adopting = NeedsAdoption(Files \ runner[p].left)
         /\ UNCHANGED <<schema, ledger, interrupted, undone>>
<1> DEFINE a == NeedsAdoption(Files \ runner[p].left)
<1>1. a \in BOOLEAN
  BY DEF NeedsAdoption
<1>2. runner' = [runner EXCEPT ![p].pc = "apply", ![p].adopting = a]
  BY DEF Probe
<1> HIDE DEF a
<1>3. /\ runner'[p].pc = "apply"
      /\ runner'[p].left = runner[p].left
      /\ runner'[p].adopting = a
      /\ RunnerSteps(p)
  BY <1>1, <1>2 DEF MigrationsTypeOK, RunnerSteps, Runner
<1> QED
  BY <1>3 DEF Probe, RunnerAt, a

\* Passing a file takes it from what is left.
LEMMA PassStep ==
  ASSUME MigrationsTypeOK, NEW p \in Process, NEW f \in Files, Pass(p, f)
  PROVE  /\ RunnerSteps(p)
         /\ runner'[p].pc = runner[p].pc
         /\ runner'[p].left = runner[p].left \ {f}
         /\ runner'[p].adopting = runner[p].adopting
BY DEF Pass, MigrationsTypeOK, RunnerSteps, Runner

\* A process that ends is off; an adoption it leaves unfinished is remembered.
LEMMA EndsStep ==
  ASSUME MigrationsTypeOK, NEW p \in Process, Ends(p)
  PROVE  /\ RunnerSteps(p)
         /\ runner'[p] = Off
         /\ interrupted' \in BOOLEAN
         /\ interrupted => interrupted'
         /\ runner[p].adopting /\ runner[p].left # {} => interrupted'
BY OffType DEF Ends, MigrationsTypeOK, RunnerSteps

\* The next file is applied with its ledger row, recorded, or refused.
LEMMA NextFileStep ==
  ASSUME MigrationsTypeOK, NEW p \in Process, NextFile(p)
  PROVE  /\ runner[p].pc = "apply"
         /\ UNCHANGED undone
         /\ \E f \in runner[p].left :
              \/ /\ schema' = schema \cup {f}
                 /\ ledger' = ledger \cup {f}
                 /\ Pass(p, f)
                 /\ UNCHANGED interrupted
              \/ /\ f \in schema
                 /\ runner[p].adopting
                 /\ ledger' = ledger \cup {f}
                 /\ Pass(p, f)
                 /\ UNCHANGED <<schema, interrupted>>
              \/ Ends(p) /\ UNCHANGED <<schema, ledger>>
<1>1. /\ runner[p].pc = "apply"
      /\ runner[p].left # {}
      /\ runner[p].left \in SUBSET Files
  BY DEF NextFile, RunnerAt, MigrationsTypeOK, Runner
<1>2. Min(runner[p].left) \in runner[p].left
  BY <1>1, LeastFile
<1> QED
  BY <1>1, <1>2 DEF NextFile, Apply, Record, Refuse, AlreadyExists

\* A run with nothing left serves, or ends.
LEMMA FinishStep ==
  ASSUME MigrationsTypeOK, NEW p \in Process, Finish(p)
  PROVE  /\ RunnerSteps(p)
         /\ runner[p].pc = "apply"
         /\ runner[p].left = {}
         /\ runner'[p].pc = IF p = Api THEN "serve" ELSE "off"
         /\ ~runner'[p].adopting
         /\ UNCHANGED <<schema, ledger, interrupted, undone>>
<1> DEFINE u == [Off EXCEPT !.pc = "serve"]
<1>1. u \in Runner /\ u.pc = "serve" /\ ~u.adopting
  BY DEF Off, Runner
<1>2. runner' = [runner EXCEPT ![p] = IF p = Api THEN u ELSE Off]
  BY DEF Finish
<1> HIDE DEF u
<1> QED
  BY <1>1, <1>2, OffType DEF MigrationsTypeOK, RunnerSteps, Finish, RunnerAt

\* An undo has one file in hand, one of the ledger's with a rollback.
LEMMA DownStep ==
  ASSUME MigrationsTypeOK, Down
  PROVE  /\ RunnerSteps(Operator)
         /\ runner[Operator].pc = "off"
         /\ runner'[Operator].pc = "undo"
         /\ ~runner'[Operator].adopting
         /\ ledger # {}
         /\ UNCHANGED <<schema, ledger, interrupted, undone>>
<1> DEFINE u == [Off EXCEPT !.pc = "undo", !.left = {Max(ledger)}]
<1>1. Max(ledger) \in Files
  BY SubsetsAssumption DEF Down
<1>2. u \in Runner /\ u.pc = "undo" /\ ~u.adopting
  BY <1>1 DEF Off, Runner
<1>3. runner' = [runner EXCEPT ![Operator] = u]
  BY DEF Down
<1> HIDE DEF u
<1> QED
  BY <1>2, <1>3 DEF MigrationsTypeOK, RunnerSteps, Down, RunnerAt, Process

-----------------------------------------------------------------------------
(* Type correctness.                                                       *)

\* At first nothing runs, and the database has come as far as some file.
LEMMA MigrationsTypeInit == MigrationsInit => MigrationsTypeOK
BY OffType DEF MigrationsInit, MigrationsTypeOK

\* Every step keeps the types of the database and its runs.
LEMMA MigrationsTypeStep == MigrationsTypeOK /\ [Next]_vars => MigrationsTypeOK'
<1> SUFFICES ASSUME MigrationsTypeOK, [Next]_vars PROVE MigrationsTypeOK'
  OBVIOUS
<1> USE DEF MigrationsTypeOK, RunnerSteps
<1>1. ASSUME NEW p \in Process, ReadLedger(p) \/ Probe(p) \/ Finish(p)
      PROVE  MigrationsTypeOK'
  <2>1. /\ runner' \in [Process -> Runner]
        /\ undone' \in BOOLEAN
        /\ UNCHANGED <<schema, ledger, interrupted>>
    BY <1>1, ReadLedgerStep, ProbeStep, FinishStep
  <2> QED
    BY <2>1
<1>2. CASE Down
  BY <1>2, DownStep DEF Process
<1>3. ASSUME NEW p \in Process, NextFile(p)
      PROVE  MigrationsTypeOK'
  <2>1. runner[p].left \subseteq Files
    BY DEF Runner
  <2>2. PICK f \in runner[p].left :
          \/ /\ schema' = schema \cup {f}
             /\ ledger' = ledger \cup {f}
             /\ Pass(p, f)
             /\ UNCHANGED interrupted
          \/ /\ ledger' = ledger \cup {f}
             /\ Pass(p, f)
             /\ UNCHANGED <<schema, interrupted>>
          \/ Ends(p) /\ UNCHANGED <<schema, ledger>>
    BY <1>3, NextFileStep
  <2>3. CASE Pass(p, f)
    BY <1>3, <2>1, <2>2, <2>3, PassStep, EndsStep, NextFileStep
  <2>4. CASE Ends(p) /\ UNCHANGED <<schema, ledger>>
    BY <1>3, <2>4, EndsStep, NextFileStep
  <2> QED
    BY <2>2, <2>3, <2>4
<1>4. CASE RollBack
  BY <1>4, OffType DEF RollBack
<1>5. ASSUME NEW p \in Process, Crash(p)
      PROVE  MigrationsTypeOK'
  BY <1>5, EndsStep DEF Crash
<1>6. CASE UNCHANGED migrationVars
  BY <1>6 DEF migrationVars
<1> QED
  BY <1>1, <1>2, <1>3, <1>4, <1>5, <1>6, MigrationMoves

-----------------------------------------------------------------------------
(* What a server that serves may rely on.                                  *)

\* The ledger never names what is not there, and only an undo takes from it.
LEMMA LedgerStep ==
  ASSUME MigrationsTypeOK, ServedInv, [Next]_vars
  PROVE  /\ ledger' \subseteq schema'
         /\ ~undone' => /\ ledger \subseteq ledger'
                        /\ undone => \E p \in Process : p = Api /\ ReadLedger(p)
<1> USE DEF ServedInv
<1>1. ASSUME NEW p \in Process, ReadLedger(p) \/ Probe(p) \/ Finish(p) \/ Crash(p)
      PROVE  /\ UNCHANGED <<schema, ledger>>
             /\ ~undone' /\ undone => p = Api /\ ReadLedger(p)
  <2>1. CASE ReadLedger(p)
    BY <2>1, ReadLedgerStep
  <2>2. CASE Probe(p) \/ Finish(p) \/ Crash(p)
    <3>1. UNCHANGED <<schema, ledger, undone>>
      BY <2>2, ProbeStep, FinishStep DEF Crash
    <3> QED
      BY <3>1
  <2> QED
    BY <1>1, <2>1, <2>2
<1>2. ASSUME NEW p \in Process, NextFile(p)
      PROVE  /\ ledger' \subseteq schema'
             /\ ledger \subseteq ledger'
             /\ UNCHANGED undone
  BY <1>2, NextFileStep
<1>3. CASE RollBack
  BY <1>3 DEF RollBack
<1>4. CASE UNCHANGED migrationVars
  BY <1>4 DEF migrationVars
<1>5. CASE Down
  BY <1>5, DownStep
<1> QED
  BY <1>1, <1>2, <1>3, <1>4, <1>5, MigrationMoves

\* The server's conclusions from the ledger it has read stay true while nothing
\* is undone, whatever other runs do meanwhile.
LEMMA ServedStep == MigrationsTypeOK /\ ServedInv /\ [Next]_vars => ServedInv'
<1> SUFFICES ASSUME MigrationsTypeOK, ServedInv, [Next]_vars PROVE ServedInv'
  OBVIOUS
<1> USE DEF ServedInv, Serving, RunnerAt
<1>1. ledger' \subseteq schema'
  BY LedgerStep
<1>2. CASE undone'
  BY <1>1, <1>2
<1>3. ASSUME ~undone', ReadLedger(Api)
      PROVE  ServedInv'
  <2>1. /\ runner'[Api].pc = "probe"
        /\ runner'[Api].left = Files \ ledger
        /\ UNCHANGED ledger
    BY <1>3, ReadLedgerStep DEF Process
  <2> QED
    BY <1>1, <2>1
<1>4. ASSUME ~undone', ~ReadLedger(Api)
      PROVE  ServedInv'
  <2>1. ~undone /\ ledger \subseteq ledger'
    BY <1>4, LedgerStep
  <2>2. ledger' \subseteq Files
    BY MigrationsTypeStep DEF MigrationsTypeOK
  <2>3. ASSUME runner'[Api] = runner[Api]
        PROVE  ServedInv'
    BY <1>1, <2>1, <2>2, <2>3
  <2>4. Api \in Process /\ Operator \in Process /\ Api # Operator
    BY ProcessAssumption DEF Process
  <2>5. CASE Probe(Api)
    BY <1>1, <2>1, <2>4, <2>5, ProbeStep
  <2>6. CASE NextFile(Api)
    <3>1. PICK f \in runner[Api].left :
            (ledger' = ledger \cup {f} /\ Pass(Api, f)) \/ Ends(Api)
      BY <2>4, <2>6, NextFileStep
    <3>2. CASE Ends(Api)
      BY <1>1, <2>4, <3>2, EndsStep, OffType
    <3>3. CASE ledger' = ledger \cup {f} /\ Pass(Api, f)
      <4>1. /\ runner'[Api].pc = "apply"
            /\ runner'[Api].left = runner[Api].left \ {f}
            /\ runner[Api].pc = "apply"
        BY <2>4, <2>6, <3>3, PassStep, NextFileStep DEF MigrationsTypeOK, Runner
      <4> QED
        BY <1>1, <2>1, <3>3, <4>1
    <3> QED
      BY <3>1, <3>2, <3>3
  <2>7. CASE Finish(Api)
    <3>1. /\ runner[Api].pc = "apply"
          /\ runner[Api].left = {}
          /\ runner'[Api].pc = "serve"
      BY <2>4, <2>7, FinishStep
    <3> QED
      BY <1>1, <2>1, <2>2, <3>1
  <2>8. CASE Crash(Api)
    BY <1>1, <2>4, <2>8, EndsStep, OffType DEF Crash
  <2>9. ASSUME NEW p \in Process, p # Api,
               ReadLedger(p) \/ Probe(p) \/ NextFile(p) \/ Finish(p) \/ Crash(p)
        PROVE  runner'[Api] = runner[Api]
    <3>1. ASSUME NextFile(p)
          PROVE  RunnerSteps(p)
      <4>1. PICK f \in runner[p].left : Pass(p, f) \/ Ends(p)
        BY <3>1, NextFileStep
      <4>2. f \in Files
        BY DEF MigrationsTypeOK, Runner
      <4> QED
        BY <4>1, <4>2, PassStep, EndsStep
    <3>2. RunnerSteps(p)
      BY <2>9, <3>1, ReadLedgerStep, ProbeStep, FinishStep, EndsStep DEF Crash
    <3> QED
      BY <2>4, <2>9, <3>2 DEF RunnerSteps
  <2>10. CASE Down
    BY <2>3, <2>4, <2>10, DownStep DEF RunnerSteps
  <2>11. CASE RollBack
    BY <2>3, <2>4, <2>11 DEF RollBack, MigrationsTypeOK
  <2>12. CASE UNCHANGED migrationVars
    BY <2>3, <2>12 DEF migrationVars
  <2> QED
    BY <1>4, <2>3, <2>5, <2>6, <2>7, <2>8, <2>9, <2>10, <2>11, <2>12, MigrationMoves
<1> QED
  BY <1>2, <1>3, <1>4

\* A server that serves has the whole schema, whatever database it found when
\* it started and whoever else migrated meanwhile, unless a step is undone.
THEOREM SchemaServed == Spec => []SchemaIsServed
<1>1. Init => MigrationsTypeOK /\ ServedInv
  <2>1. Init => MigrationsTypeOK
    BY MigrationsTypeInit DEF Init
  <2>2. Init => ServedInv
    BY OffType DEF Init, MigrationsInit, ServedInv, Serving, RunnerAt, Process
  <2> QED
    BY <2>1, <2>2
<1>2. MigrationsTypeOK /\ ServedInv /\ [Next]_vars => (MigrationsTypeOK /\ ServedInv)'
  BY MigrationsTypeStep, ServedStep
<1>3. MigrationsTypeOK /\ ServedInv => SchemaIsServed
  BY DEF MigrationsTypeOK, ServedInv, SchemaIsServed
<1> QED
  BY <1>1, <1>2, <1>3, PTL DEF Spec

-----------------------------------------------------------------------------
(* What blocks a database.                                                 *)

\* What is inherited only shrinks.
LEMMA InheritedShrinks ==
  ASSUME MigrationsTypeOK, ServedInv, [Next]_vars
  PROVE  Inherited' \subseteq Inherited
<1>1. ASSUME NEW p \in Process, NextFile(p)
      PROVE  Inherited' \subseteq Inherited
  BY <1>1, NextFileStep DEF Inherited
<1>2. CASE RollBack
  BY <1>2 DEF RollBack, Inherited
<1>3. CASE UNCHANGED <<schema, ledger>>
  BY <1>3 DEF Inherited
<1>4. ASSUME NEW p \in Process, ReadLedger(p) \/ Probe(p) \/ Finish(p) \/ Crash(p)
      PROVE  UNCHANGED <<schema, ledger>>
  BY <1>4, ReadLedgerStep, ProbeStep, FinishStep DEF Crash
<1> QED
  BY <1>1, <1>2, <1>3, <1>4, DownStep, MigrationMoves DEF migrationVars

\* A file that is passed is no longer inherited, so an adoption that has
\* nothing left has accounted for everything.
LEMMA AdoptionStep ==
  MigrationsTypeOK /\ ServedInv /\ AdoptionInv /\ [Next]_vars => AdoptionInv'
<1> SUFFICES ASSUME MigrationsTypeOK, ServedInv, AdoptionInv, [Next]_vars
             PROVE  AdoptionInv'
  OBVIOUS
<1>i. Inherited' \subseteq Inherited /\ Inherited \subseteq Files
  BY InheritedShrinks, SubsetsAssumption DEF Inherited
<1>r. \A p \in Process : runner[p] \in Runner /\ runner[p].left \subseteq Files
  BY DEF MigrationsTypeOK, Runner
<1>a. \A p \in Process :
        runner[p].adopting => runner[p].pc = "apply" /\ Inherited \subseteq runner[p].left
  BY DEF AdoptionInv
<1>1. ASSUME NEW p \in Process, RunnerSteps(p),
             runner'[p].adopting => /\ runner'[p].pc = "apply"
                                    /\ Inherited' \subseteq runner'[p].left,
             interrupted => interrupted',
             runner[p].adopting =>
               runner'[p].adopting \/ interrupted' \/ runner[p].left = {},
             Untouched => Untouched' \/ runner'[p].adopting
      PROVE  AdoptionInv'
  <2>1. \A o \in Process : runner'[o].adopting
           => runner'[o].pc = "apply" /\ Inherited' \subseteq runner'[o].left
    BY <1>i, <1>a, <1>1 DEF RunnerSteps
  <2>2. Adopting => Adopting' \/ interrupted' \/ Inherited = {}
    BY <1>a, <1>1 DEF Adopting, RunnerSteps
  <2>3. Inherited' = {} \/ interrupted' \/ Adopting' \/ Untouched'
    BY <1>i, <1>1, <2>2 DEF AdoptionInv, Adopting
  <2> QED
    BY <2>1, <2>3 DEF AdoptionInv
<1>2. ASSUME NEW p \in Process, ReadLedger(p)
      PROVE  AdoptionInv'
  <2>1. /\ RunnerSteps(p)
        /\ runner[p].pc = "off"
        /\ ~runner'[p].adopting
        /\ UNCHANGED interrupted
    BY <1>2, ReadLedgerStep
  <2>2. Untouched => Untouched'
    BY <1>2, ReadLedgerStep DEF Untouched, RunnerSteps
  <2>3. ~runner[p].adopting
    BY <1>a, <2>1
  <2> QED
    BY <1>1, <2>1, <2>2, <2>3
<1>3. ASSUME NEW p \in Process, Probe(p)
      PROVE  AdoptionInv'
  <2>1. runner'[p].adopting => Inherited' \subseteq runner'[p].left
    <3>1. runner'[p].adopting => Files \ runner[p].left = {}
      BY <1>3, ProbeStep DEF NeedsAdoption
    <3> QED
      BY <1>3, <1>i, <3>1, ProbeStep
  <2>2. Untouched => runner'[p].adopting
    BY <1>3, ProbeStep DEF Untouched, NeedsAdoption
  <2>3. /\ RunnerSteps(p)
        /\ runner[p].pc = "probe"
        /\ runner'[p].pc = "apply"
        /\ UNCHANGED interrupted
    BY <1>3, ProbeStep
  <2>4. ~runner[p].adopting
    BY <1>a, <2>3
  <2> QED
    BY <1>1, <2>1, <2>2, <2>3, <2>4
<1>4. ASSUME NEW p \in Process, NextFile(p)
      PROVE  AdoptionInv'
  <2>1. runner[p].pc = "apply" /\ ~Untouched
    BY <1>4, NextFileStep DEF Untouched
  <2>2. PICK f \in runner[p].left :
          \/ /\ ledger' = ledger \cup {f}
             /\ Pass(p, f)
             /\ UNCHANGED interrupted
          \/ Ends(p)
    BY <1>4, NextFileStep
  <2>3. CASE ledger' = ledger \cup {f} /\ Pass(p, f) /\ UNCHANGED interrupted
    <3>1. /\ RunnerSteps(p)
          /\ runner'[p].pc = "apply"
          /\ runner'[p].left = runner[p].left \ {f}
          /\ runner'[p].adopting = runner[p].adopting
      BY <1>r, <2>1, <2>3, PassStep
    <3>2. f \notin Inherited'
      BY <2>3 DEF Inherited
    <3>3. runner'[p].adopting => Inherited' \subseteq runner'[p].left
      BY <1>i, <1>a, <3>1, <3>2
    <3> QED
      BY <1>1, <2>1, <2>3, <3>1, <3>3
  <2>4. CASE Ends(p)
    BY <1>1, <2>1, <2>4, EndsStep, OffType
  <2> QED
    BY <2>2, <2>3, <2>4
<1>5. ASSUME NEW p \in Process, Finish(p)
      PROVE  AdoptionInv'
  <2>1. ~Untouched
    BY <1>5, FinishStep DEF Untouched
  <2> QED
    BY <1>1, <1>5, <2>1, FinishStep
<1>6. CASE Down
  <2>1. Operator \in Process /\ ~Untouched
    BY <1>6, DownStep DEF Untouched, Process
  <2> QED
    BY <1>1, <1>6, <1>a, <2>1, DownStep
<1>7. CASE RollBack
  <2>1. /\ Operator \in Process
        /\ runner[Operator].pc = "undo"
        /\ RunnerSteps(Operator)
        /\ runner'[Operator] = Off
        /\ UNCHANGED interrupted
    BY <1>7, OffType DEF RollBack, RunnerAt, Process, MigrationsTypeOK, RunnerSteps
  <2>2. ~Untouched /\ ~runner[Operator].adopting
    BY <1>a, <2>1 DEF Untouched
  <2> QED
    BY <1>1, <2>1, <2>2, OffType
<1>8. ASSUME NEW p \in Process, Crash(p)
      PROVE  AdoptionInv'
  <2>1. Untouched => Untouched'
    BY <1>8, EndsStep, OffType DEF Crash, Untouched, RunnerSteps
  <2> QED
    BY <1>1, <1>8, <2>1, EndsStep, OffType DEF Crash
<1>9. CASE UNCHANGED migrationVars
  BY <1>9 DEF migrationVars, AdoptionInv, Inherited, Adopting, Untouched
<1> QED
  BY <1>2, <1>3, <1>4, <1>5, <1>6, <1>7, <1>8, <1>9, MigrationMoves

\* A database refuses every further run only after an adoption that did not get
\* to its end: while one is under way it still will, and before the first one
\* an old database is told by its first file.
THEOREM BlockedAfterInterruption == Spec => []BlockedOnlyAfterInterruption
<1>1. Init => MigrationsTypeOK /\ ServedInv /\ AdoptionInv
  <2> SUFFICES ASSUME Init PROVE MigrationsTypeOK /\ ServedInv /\ AdoptionInv
    OBVIOUS
  <2>1. MigrationsTypeOK
    BY MigrationsTypeInit DEF Init
  <2>2. ServedInv
    BY OffType DEF Init, MigrationsInit, ServedInv, Serving, RunnerAt, Process
  <2>3. \A p \in Process : runner[p] = Off
    BY DEF Init, MigrationsInit
  <2>4. PICK k \in Legacy : schema = {f \in Files : f <= k}
    BY DEF Init, MigrationsInit
  <2>5. schema # {} => Min(Files) \in schema
    <3>1. Min(Files) \in Files /\ \A f \in Files : Min(Files) <= f
      BY LeastFile, FilesAssumption
    <3>2. ASSUME NEW f \in Files, f <= k
          PROVE  Min(Files) <= k
      <4> DEFINE m == Min(Files)
      <4>1. m \in Nat /\ f \in Nat /\ k \in Nat /\ m <= f
        BY <3>1, FilesAssumption, LegacyAssumption
      <4> HIDE DEF m
      <4>2. m <= k
        BY <3>2, <4>1
      <4> QED
        BY <4>2 DEF m
    <3> QED
      BY <2>4, <3>1, <3>2
  <2>6. ledger = {}
    BY DEF Init, MigrationsInit
  <2>7. Inherited = {} \/ Untouched
    BY <2>3, <2>5, <2>6, OffType DEF Inherited, Untouched
  <2> QED
    BY <2>1, <2>2, <2>3, <2>7, OffType DEF AdoptionInv
<1>2. MigrationsTypeOK /\ ServedInv /\ AdoptionInv /\ [Next]_vars
        => (MigrationsTypeOK /\ ServedInv /\ AdoptionInv)'
  BY MigrationsTypeStep, ServedStep, AdoptionStep
<1>3. AdoptionInv => BlockedOnlyAfterInterruption
  BY DEF AdoptionInv, BlockedOnlyAfterInterruption, Blocked, AlreadyExists, NeedsAdoption,
         Inherited, Untouched, Adopting
<1> QED
  BY <1>1, <1>2, <1>3, PTL DEF Spec
=============================================================================
