----------------------------- MODULE Migrations -----------------------------
(***************************************************************************)
(* Bringing the database to the schema the code expects: the server does   *)
(* it before it serves, an operator may do it, or undo the last step, with *)
(* a command of its own beside a server that is starting or running.       *)
(*                                                                         *)
(* A migration and the row that says it ran are one transaction.  A        *)
(* database older than the ledger is adopted: a migration that fails       *)
(* because its objects are there already is recorded as having run.        *)
(***************************************************************************)
EXTENDS Naturals, FiniteSets, FiniteSetsExt

CONSTANTS
  Files,         \* the migrations, by number
  Strict,        \* those that fail where their objects exist
  Reversible,    \* those that ship a rollback file
  Legacy,        \* how far a database without a ledger may have come
  Api, Operator  \* the server, and the operator's command

ASSUME FilesAssumption == Files \subseteq Nat \ {0} /\ IsFiniteSet(Files) /\ Files # {}
ASSUME SubsetsAssumption == Strict \subseteq Files /\ Reversible \subseteq Files
ASSUME LegacyAssumption == Legacy \subseteq Nat
ASSUME ProcessAssumption == Api # Operator

VARIABLES
  schema,        \* the migrations whose objects are in the database
  ledger,        \* schema_migrations
  runner,        \* the server and the operator's command
  interrupted,   \* history: an adoption ended before its last file
  undone         \* history: a rollback since the server last read the ledger

migrationVars == <<schema, ledger, runner, interrupted, undone>>

Process == {Api, Operator}

Off == [pc |-> "off", left |-> {}, adopting |-> FALSE]

Runner == [pc : {"off", "probe", "apply", "serve", "undo"},
           left : SUBSET Files, adopting : BOOLEAN]

MigrationsTypeOK ==
  /\ schema \subseteq Files
  /\ ledger \subseteq Files
  /\ runner \in [Process -> Runner]
  /\ interrupted \in BOOLEAN
  /\ undone \in BOOLEAN

\* A fresh database, or one that an init directory filled up to some file.
MigrationsInit ==
  /\ schema \in {{f \in Files : f <= k} : k \in Legacy}
  /\ ledger = {}
  /\ runner = [p \in Process |-> Off]
  /\ interrupted = FALSE
  /\ undone = FALSE

-----------------------------------------------------------------------------
RunnerAt(p, s) == runner[p].pc = s

Serving == RunnerAt(Api, "serve")

\* The first migration creates the table that tells an old database.
NeedsAdoption(done) == done = {} /\ Min(Files) \in schema

AlreadyExists(f) == f \in Strict /\ f \in schema

\* A run reads what the ledger has, ...
ReadLedger(p) ==
  /\ RunnerAt(p, "off")
  /\ runner' = [runner EXCEPT ![p] = [Off EXCEPT !.pc = "probe", !.left = Files \ ledger]]
  /\ undone' = IF p = Api THEN FALSE ELSE undone
  /\ UNCHANGED <<schema, ledger, interrupted>>

\* ... then whether the database predates it.
Probe(p) ==
  /\ RunnerAt(p, "probe")
  /\ runner' = [runner EXCEPT ![p].pc = "apply",
                  ![p].adopting = NeedsAdoption(Files \ runner[p].left)]
  /\ UNCHANGED <<schema, ledger, interrupted, undone>>

Pass(p, f) == runner' = [runner EXCEPT ![p].left = @ \ {f}]

\* What is left when a process ends or dies in the middle of its run.
Ends(p) ==
  /\ runner' = [runner EXCEPT ![p] = Off]
  /\ interrupted' = \/ interrupted
                    \/ runner[p].adopting /\ runner[p].left # {}

Apply_TwoTransactions(p, f) ==
  /\ ~AlreadyExists(f)
  /\ f \notin ledger
  /\ schema' = schema \cup {f}
  /\ \/ ledger' = ledger \cup {f} /\ Pass(p, f) /\ UNCHANGED interrupted
     \/ UNCHANGED ledger /\ Ends(p)

\* The file and its ledger row commit together.
Apply(p, f) ==
  /\ ~AlreadyExists(f)
  /\ f \notin ledger
  /\ schema' = schema \cup {f}
  /\ ledger' = ledger \cup {f}
  /\ Pass(p, f)
  /\ UNCHANGED interrupted

Record(p, f) ==
  /\ AlreadyExists(f)
  /\ runner[p].adopting
  /\ ledger' = ledger \cup {f}
  /\ Pass(p, f)
  /\ UNCHANGED <<schema, interrupted>>

Refuse_GoesOn(p, f) ==
  /\ IF AlreadyExists(f) THEN ~runner[p].adopting ELSE f \in ledger
  /\ Pass(p, f)
  /\ UNCHANGED <<schema, ledger, interrupted>>

\* The file fails, or another run has recorded it meanwhile: the process ends.
Refuse(p, f) ==
  /\ IF AlreadyExists(f) THEN ~runner[p].adopting ELSE f \in ledger
  /\ Ends(p)
  /\ UNCHANGED <<schema, ledger>>

\* The files are taken in the order of their names.
NextFile(p) ==
  /\ RunnerAt(p, "apply")
  /\ runner[p].left # {}
  /\ LET f == Min(runner[p].left) IN Apply(p, f) \/ Record(p, f) \/ Refuse(p, f)
  /\ UNCHANGED undone

\* Nothing is left: the server goes on to serve, the command ends.
Finish(p) ==
  /\ RunnerAt(p, "apply")
  /\ runner[p].left = {}
  /\ runner' = [runner EXCEPT ![p] = IF p = Api THEN [Off EXCEPT !.pc = "serve"] ELSE Off]
  /\ UNCHANGED <<schema, ledger, interrupted, undone>>

\* The command is told to undo: it picks the last migration of the ledger, ...
Down ==
  /\ RunnerAt(Operator, "off")
  /\ ledger # {}
  /\ Max(ledger) \in Reversible
  /\ runner' = [runner EXCEPT ![Operator] =
                  [Off EXCEPT !.pc = "undo", !.left = {Max(ledger)}]]
  /\ UNCHANGED <<schema, ledger, interrupted, undone>>

\* ... and takes its objects and its row away together.
RollBack ==
  /\ RunnerAt(Operator, "undo")
  /\ schema' = schema \ runner[Operator].left
  /\ ledger' = ledger \ runner[Operator].left
  /\ undone' = TRUE
  /\ runner' = [runner EXCEPT ![Operator] = Off]
  /\ UNCHANGED interrupted

Crash(p) ==
  /\ ~RunnerAt(p, "off")
  /\ Ends(p)
  /\ UNCHANGED <<schema, ledger, undone>>

Migrate ==
  \/ \E p \in Process : Probe(p) \/ NextFile(p) \/ Finish(p)
  \/ RollBack

-----------------------------------------------------------------------------
\* A server that serves has the whole schema, whatever the database was when it
\* started and whoever else was migrating it, until an operator undoes a step.
SchemaIsServed == Serving /\ ~undone => schema = Files /\ ledger = Files

Blocked == \E f \in Files \ ledger : AlreadyExists(f) /\ ~NeedsAdoption(ledger)

\* The only way a database comes to refuse every further run is an adoption
\* that did not get to its end: nobody is adopting and no run can pass a file.
BlockedOnlyAfterInterruption ==
  Blocked => \/ interrupted
             \/ \E p \in Process : runner[p].adopting
=============================================================================
