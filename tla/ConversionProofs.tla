-------------------------- MODULE ConversionProofs --------------------------
(***************************************************************************)
(* Theorems about Conversion, for any number of leads, phones, handlers    *)
(* and invoices.                                                           *)
(*                                                                         *)
(* None of the properties is inductive by itself.  TypeInv says what a     *)
(* handler relies on at each of its steps, AccountInv who may write the    *)
(* account of a phone and what everybody else knows of it, LeadInv that    *)
(* nobody is about to convert the lead of a new customer again, and        *)
(* ReachInv that who made an account still has its password to tell.       *)
(* BillInv says the same of the invoice a conversion still has to make.    *)
(* FreshOwner ties an account to the participant of the unit that made it, *)
(* MarkInv is what one handler at a time adds, and WaitsFor says who waits *)
(* for whom.                                                               *)
(***************************************************************************)
EXTENDS Conversion, TLAPS

-----------------------------------------------------------------------------
(* The invariant.                                                          *)

\* What a handler relies on at the step it has come to.
GoodTask(t) ==
  /\ t.pc = "write" => t.to \in Statuses
  /\ t.pc \in {"lookup", "create", "snapshot", "mark", "commit"} \/ t.fresh
       => t.lead \in Lead
  /\ t.pc \in {"create", "snapshot", "mark", "commit"} \/ t.fresh
       => t.password \in Password
  /\ t.pc \in {"announce", "number", "issue"} => t.row \in Participant
  /\ t.pc \in {"mark", "commit"} => <<t.lead, "deal">> \in t.seen
  /\ t.fresh => t.pc \in {"snapshot", "mark", "commit", "announce", "number", "issue"}
  /\ t.pc = "announce" => t.fresh

TypeInv ==
  /\ TypeOK
  /\ \A r \in Request : GoodTask(task[r])
  /\ \A p \in Participant : Exists(p) => participants[p].password \in Password

\* The unit of the handler is open and past the account.
Open(t) == t.pc \in {"snapshot", "mark", "commit"}

\* The unit inserts an account.
Inserts(t) == Open(t) /\ t.fresh

\* The account a unit inserts is nobody's yet; every other unit, and a handler
\* whose unit inserted one, has the account's password.
Knows(t) ==
  /\ Inserts(t) => accounts[PhoneOf[t.lead]] = Null
  /\ Open(t) /\ ~t.fresh => accounts[PhoneOf[t.lead]] = t.password
  /\ ~Open(t) /\ t.fresh => accounts[PhoneOf[t.lead]] = t.password

\* And no two units insert an account for the same phone.
AccountInv ==
  /\ \A r \in Request : Knows(task[r])
  /\ \A q, r \in Request :
       /\ Inserts(task[q])
       /\ Inserts(task[r])
       /\ PhoneOf[task[q].lead] = PhoneOf[task[r].lead]
       => q = r

\* Participant p came with a new account, and nobody has moved the lead since.
NewCustomer(p) ==
  /\ Exists(p)
  /\ participants[p].fresh
  /\ participants[p].lead \notin reopened

\* The lead of a new customer stays converted, and no unit is about to write it.
LeadInv ==
  \A p \in Participant : NewCustomer(p) =>
    /\ leadStatus[participants[p].lead] = "peserta"
    /\ \A r \in Request :
         task[r].pc \in {"mark", "commit"} => task[r].lead # participants[p].lead

ConversionInv ==
  /\ TypeInv
  /\ AccountInv
  /\ PasswordsAgree
  /\ LeadInv
  /\ NewCustomerOnce

-----------------------------------------------------------------------------
(* What a step does to the handler that takes it.                          *)

\* The step leaves every handler but r where it was.
Only(r) ==
  /\ task' \in [Request -> Task]
  /\ \A q \in Request : q # r => task'[q] = task[q]

\* A slot without a handler is well formed and owes nothing.
LEMMA IdleType ==
  /\ Idle \in Task
  /\ Idle.pc = "idle"
  /\ Idle.fresh = FALSE
  /\ GoodTask(Idle)
BY DEF Idle, Task, Labels, GoodTask

\* Giving a slot a well-formed task touches no other slot.
LEMMA UpdateStep ==
  ASSUME TypeOK, NEW r \in Request, NEW u \in Task, task' = [task EXCEPT ![r] = u]
  PROVE  Only(r) /\ task'[r] = u
BY DEF Only, TypeOK

\* A handler that finishes leaves an idle slot.
LEMMA FinishStep ==
  ASSUME TypeOK, NEW r \in Request, Finish(r)
  PROVE  Only(r) /\ task'[r] = Idle
BY IdleType, UpdateStep DEF Finish

\* A handler that moves on keeps everything but its place.
LEMMA GotoStep ==
  ASSUME TypeOK, NEW r \in Request, NEW l \in Labels, Goto(r, l)
  PROVE  /\ Only(r)
         /\ task'[r].pc = l
         /\ task'[r].lead = task[r].lead
         /\ task'[r].row = task[r].row
         /\ task'[r].seen = task[r].seen
         /\ task'[r].to = task[r].to
         /\ task'[r].password = task[r].password
         /\ task'[r].fresh = task[r].fresh
<1> DEFINE t == task[r]
           u == [t EXCEPT !.pc = l]
<1>1. t \in Task
  BY DEF TypeOK
<1>2. task' = [task EXCEPT ![r] = u]
  BY DEF Goto
<1> HIDE DEF t
<1>3. /\ u \in Task
      /\ u.pc = l
      /\ u.lead = t.lead
      /\ u.row = t.row
      /\ u.seen = t.seen
      /\ u.to = t.to
      /\ u.password = t.password
      /\ u.fresh = t.fresh
  BY <1>1 DEF Task
<1> HIDE DEF u
<1> QED
  BY <1>2, <1>3, UpdateStep DEF t

\* A move or an expiry starts with the statuses it saw.
LEMMA StartWriteStep ==
  ASSUME TypeOK, NEW r \in Request, NEW S \in SUBSET (Lead \X Statuses), NEW s \in Statuses,
         Start(r, [Idle EXCEPT !.pc = "write", !.seen = S, !.to = s])
  PROVE  /\ Only(r)
         /\ task'[r].pc = "write"
         /\ task'[r].fresh = FALSE
         /\ task'[r].to = s
<1> DEFINE u == [Idle EXCEPT !.pc = "write", !.seen = S, !.to = s]
<1>1. /\ u \in Task
      /\ u.pc = "write"
      /\ u.fresh = FALSE
      /\ u.to = s
  BY DEF Idle, Task, Labels
<1>2. task' = [task EXCEPT ![r] = u]
  BY DEF Start
<1> HIDE DEF u
<1> QED
  BY <1>1, <1>2, UpdateStep

\* A conversion starts with its lead and no account.
LEMMA StartConvertStep ==
  ASSUME TypeOK, NEW r \in Request, NEW l \in Lead, StartConvert(r, l)
  PROVE  /\ Only(r)
         /\ task'[r].pc = "lookup"
         /\ task'[r].lead = l
         /\ task'[r].fresh = FALSE
<1> DEFINE u == [Idle EXCEPT !.pc = "lookup", !.lead = l]
<1>1. /\ u \in Task
      /\ u.pc = "lookup"
      /\ u.lead = l
      /\ u.fresh = FALSE
  BY DEF Idle, Task, Labels
<1>2. task' = [task EXCEPT ![r] = u]
  BY DEF StartConvert, Start
<1> HIDE DEF u
<1> QED
  BY <1>1, <1>2, UpdateStep

\* An invoice by hand starts with the participant it bills.
LEMMA StartInvoiceStep ==
  ASSUME TypeOK, NEW r \in Request, NEW p \in Participant, StartInvoice(r, p)
  PROVE  /\ Only(r)
         /\ task'[r].pc = "number"
         /\ task'[r].row = p
         /\ task'[r].fresh = FALSE
<1> DEFINE u == [Idle EXCEPT !.pc = "number", !.row = p]
<1>1. /\ u \in Task
      /\ u.pc = "number"
      /\ u.row = p
      /\ u.fresh = FALSE
  BY DEF Idle, Task, Labels
<1>2. task' = [task EXCEPT ![r] = u]
  BY DEF StartInvoice, Start
<1> HIDE DEF u
<1> QED
  BY <1>1, <1>2, UpdateStep

\* The lookup keeps the password of the account, or makes one up.
LEMMA LookupStep ==
  ASSUME TypeOK, NEW r \in Request, LookupAccount(r), task[r].lead \in Lead
  PROVE  /\ Only(r)
         /\ task'[r].lead = task[r].lead
         /\ task'[r].fresh = task[r].fresh
         /\ task'[r].password \in Password
         /\ \/ task'[r].pc = "create"
            \/ task'[r].pc = "snapshot" /\ task'[r].password = accounts[PhoneOfTask(r)]
<1> DEFINE t == task[r]
           old == accounts[PhoneOfTask(r)]
<1>1. t \in Task
  BY DEF TypeOK
<1>2. old \in Password \cup {Null}
  BY PhoneAssumption DEF TypeOK, PhoneOfTask
<1>3. \E w \in Password, l \in {"create", "snapshot"} :
        /\ l = "snapshot" => w = old
        /\ task' = [task EXCEPT ![r] = [t EXCEPT !.pc = l, !.password = w]]
  <2>1. CASE old # Null
    BY <1>2, <2>1 DEF LookupAccount
  <2>2. CASE old = Null
    BY <2>2 DEF LookupAccount
  <2> QED
    BY <2>1, <2>2
<1>4. PICK w \in Password, l \in {"create", "snapshot"} :
        /\ l = "snapshot" => w = old
        /\ task' = [task EXCEPT ![r] = [t EXCEPT !.pc = l, !.password = w]]
  BY <1>3
<1> HIDE DEF t, old
<1> DEFINE u == [t EXCEPT !.pc = l, !.password = w]
<1>5. /\ u \in Task
      /\ u.pc = l
      /\ u.lead = t.lead
      /\ u.fresh = t.fresh
      /\ u.password = w
  BY <1>1 DEF Task, Labels
<1>6. task' = [task EXCEPT ![r] = u]
  BY <1>4
<1> HIDE DEF u
<1> QED
  BY <1>4, <1>5, <1>6, UpdateStep DEF t, old

\* The account is inserted for a phone that has none, or the unit ends.
LEMMA CreateStep ==
  ASSUME TypeOK, NEW r \in Request, CreateAccount(r)
  PROVE  /\ Only(r)
         /\ \/ task'[r] = Idle
            \/ /\ accounts[PhoneOfTask(r)] = Null
               /\ task'[r].pc = "snapshot"
               /\ task'[r].lead = task[r].lead
               /\ task'[r].password = task[r].password
               /\ task'[r].fresh = TRUE
<1> DEFINE t == task[r]
           u == [t EXCEPT !.pc = "snapshot", !.fresh = TRUE]
<1>1. t \in Task
  BY DEF TypeOK
<1>2. CASE accounts[PhoneOfTask(r)] # Null
  BY <1>2, FinishStep DEF CreateAccount
<1>3. CASE accounts[PhoneOfTask(r)] = Null
  <2>1. task' = [task EXCEPT ![r] = u]
    BY <1>3 DEF CreateAccount
  <2> HIDE DEF t
  <2>2. /\ u \in Task
        /\ u.pc = "snapshot"
        /\ u.lead = t.lead
        /\ u.password = t.password
        /\ u.fresh = TRUE
    BY <1>1 DEF Task, Labels
  <2> HIDE DEF u
  <2> QED
    BY <1>3, <2>1, <2>2, UpdateStep DEF t
<1> QED
  BY <1>2, <1>3

\* The unit goes on with a lead it saw as a deal, or ends.
LEMMA SnapshotStep ==
  ASSUME TypeOK, NEW r \in Request, SnapshotLead(r), task[r].lead \in Lead
  PROVE  /\ Only(r)
         /\ \/ task'[r] = Idle
            \/ /\ leadStatus[task[r].lead] = "deal"
               /\ task'[r].pc = "mark"
               /\ task'[r].lead = task[r].lead
               /\ task'[r].password = task[r].password
               /\ task'[r].fresh = task[r].fresh
               /\ <<task'[r].lead, "deal">> \in task'[r].seen
<1> DEFINE t == task[r]
           S == {<<t.lead, "deal">>}
           u == [t EXCEPT !.pc = "mark", !.seen = S]
<1>1. t \in Task
  BY DEF TypeOK
<1>2. CASE leadStatus[t.lead] # "deal"
  BY <1>2, FinishStep DEF SnapshotLead
<1>3. CASE leadStatus[t.lead] = "deal"
  <2>1. task' = [task EXCEPT ![r] = u]
    BY <1>3 DEF SnapshotLead
  <2>2. S \in SUBSET (Lead \X Statuses) /\ <<t.lead, "deal">> \in S
    BY DEF Statuses
  <2> HIDE DEF t, S
  <2>3. /\ u \in Task
        /\ u.pc = "mark"
        /\ u.lead = t.lead
        /\ u.password = t.password
        /\ u.fresh = t.fresh
        /\ u.seen = S
    BY <1>1, <2>2 DEF Task, Labels
  <2> HIDE DEF u
  <2> QED
    BY <1>3, <2>1, <2>2, <2>3, UpdateStep DEF t
<1> QED
  BY <1>2, <1>3

\* A commit writes one participant that was not there, and keeps the password.
LEMMA CommitStep ==
  ASSUME TypeOK, NEW r \in Request, CommitConversion(r), GoodTask(task[r])
  PROVE  \E p \in Participant :
           /\ ~Exists(p)
           /\ participants' \in [Participant -> Row]
           /\ participants'[p].lead = task[r].lead
           /\ participants'[p].password = task[r].password
           /\ participants'[p].fresh = task[r].fresh
           /\ \A q \in Participant : q # p => participants'[q] = participants[q]
           /\ Only(r)
           /\ task'[r].row = p
           /\ task'[r].pc = IF task[r].fresh THEN "announce" ELSE "number"
           /\ task'[r].lead = task[r].lead
           /\ task'[r].password = task[r].password
           /\ task'[r].fresh = task[r].fresh
<1> DEFINE t == task[r]
           l == IF t.fresh THEN "announce" ELSE "number"
           x == [lead |-> t.lead, password |-> t.password, fresh |-> t.fresh]
<1>1. t \in Task
  BY DEF TypeOK
<1>2. PICK p \in Participant :
        /\ ~Exists(p)
        /\ participants' = [participants EXCEPT ![p] = x]
        /\ task' = [task EXCEPT ![r] = [t EXCEPT !.row = p, !.pc = l]]
  BY DEF CommitConversion
<1>3. l \in Labels
  BY DEF Labels
<1>4. /\ x \in Row
      /\ x.lead = t.lead
      /\ x.password = t.password
      /\ x.fresh = t.fresh
  BY <1>1 DEF Row, Task
<1>5. Exists(p) <=> participants[p].lead # Null
  BY DEF Exists
<1> HIDE DEF t, l, x
<1> DEFINE u == [t EXCEPT !.row = p, !.pc = l]
<1>6. /\ u \in Task
      /\ u.row = p
      /\ u.pc = l
      /\ u.lead = t.lead
      /\ u.password = t.password
      /\ u.fresh = t.fresh
  BY <1>1, <1>3 DEF Task
<1>7. task' = [task EXCEPT ![r] = u]
  BY <1>2
<1> HIDE DEF u
<1>8. Only(r) /\ task'[r] = u
  BY <1>6, <1>7, UpdateStep
<1>9. /\ participants' \in [Participant -> Row]
      /\ participants'[p] = x
      /\ \A q \in Participant : q # p => participants'[q] = participants[q]
  BY <1>2, <1>4 DEF TypeOK
<1> WITNESS p \in Participant
<1> QED
  BY <1>2, <1>4, <1>6, <1>8, <1>9 DEF t, l

\* A number is taken for the participant the handler bills.
LEMMA TakeNumberStep ==
  ASSUME TypeOK, NEW r \in Request, TakeNumber(r)
  PROVE  /\ Only(r)
         /\ task'[r].pc = "issue"
         /\ task'[r].row = task[r].row
         /\ task'[r].lead = task[r].lead
         /\ task'[r].password = task[r].password
         /\ task'[r].fresh = task[r].fresh
<1> DEFINE t == task[r]
<1>1. t \in Task
  BY DEF TypeOK
<1>2. PICK m \in Numbers \cup {0} :
        task' = [task EXCEPT ![r] = [t EXCEPT !.number = m + 1, !.pc = "issue"]]
  BY DEF TakeNumber
<1>3. m + 1 \in Nat
  BY DEF TypeOK, Numbers
<1> DEFINE n == m + 1
<1> HIDE DEF t, n
<1> DEFINE u == [t EXCEPT !.number = n, !.pc = "issue"]
<1>4. /\ u \in Task
      /\ u.pc = "issue"
      /\ u.row = t.row
      /\ u.lead = t.lead
      /\ u.password = t.password
      /\ u.fresh = t.fresh
  BY <1>1, <1>3 DEF Task, Labels, n
<1>5. task' = [task EXCEPT ![r] = u]
  BY <1>2 DEF n
<1> HIDE DEF u
<1> QED
  BY <1>4, <1>5, UpdateStep DEF t

-----------------------------------------------------------------------------
(* Types.                                                                  *)

\* The initial rows and tasks are well formed.
LEMMA TypeInit == Init => TypeInv
<1> SUFFICES ASSUME Init PROVE TypeInv
  OBVIOUS
<1>1. TypeOK
  BY IdleType, PasswordAssumption, InstanceAssumption DEF Init, TypeOK, Row, NoRow
<1>2. \A r \in Request : GoodTask(task[r])
  BY IdleType DEF Init
<1>3. \A p \in Participant : ~Exists(p)
  BY DEF Init, Exists, NoRow
<1> QED
  BY <1>1, <1>2, <1>3 DEF TypeInv

\* A step that only touches a handler keeps the types if it leaves the handler well formed.
LEMMA TaskOnly ==
  ASSUME TypeInv, NEW r \in Request, Only(r), GoodTask(task'[r]),
         UNCHANGED <<rows, history>>, moves' \in 0..MaxMoves, faults' \in 0..MaxFaults
  PROVE  TypeInv'
BY DEF TypeInv, TypeOK, Only, rows, history, Exists

\* Every step keeps the rows and the tasks well formed.
LEMMA TypeStep == TypeInv /\ [Next]_vars => TypeInv'
<1> SUFFICES ASSUME TypeInv, [Next]_vars PROVE TypeInv'
  OBVIOUS
<1>t. /\ TypeOK
      /\ moves \in 0..MaxMoves
      /\ faults \in 0..MaxFaults
  BY DEF TypeInv, TypeOK
<1>g. \A r \in Request : GoodTask(task[r])
  BY DEF TypeInv
<1>1. ASSUME NEW l \in Lead, CreateLead(l)
      PROVE  TypeInv'
  BY <1>1, <1>t DEF CreateLead, TypeInv, TypeOK, Statuses, history, counters, Exists
<1>2. ASSUME NEW r \in Request, NEW l \in Lead, NEW s \in Statuses, StartMove(r, l, s)
      PROVE  TypeInv'
  <2> DEFINE S == {<<l, leadStatus[l]>>}
  <2>1. S \in SUBSET (Lead \X Statuses)
    BY <1>2, <1>t DEF StartMove, TypeOK
  <2>2. Start(r, [Idle EXCEPT !.pc = "write", !.seen = S, !.to = s])
    BY <1>2 DEF StartMove
  <2> HIDE DEF S
  <2>3. /\ Only(r)
        /\ task'[r].pc = "write"
        /\ task'[r].fresh = FALSE
        /\ task'[r].to = s
    BY <2>1, <2>2, <1>t, StartWriteStep
  <2>4. GoodTask(task'[r])
    BY <2>3 DEF GoodTask
  <2>5. moves' \in 0..MaxMoves
    BY <1>2, <1>t, InstanceAssumption DEF StartMove
  <2> QED
    BY <1>2, <1>t, <2>3, <2>4, <2>5, TaskOnly DEF StartMove
<1>3. ASSUME NEW r \in Request, NEW L \in SUBSET Lead, StartExpire(r, L)
      PROVE  TypeInv'
  <2> DEFINE S == {<<l, leadStatus[l]>> : l \in L}
  <2>1. S \in SUBSET (Lead \X Statuses)
    BY <1>3, <1>t DEF StartExpire, Stale, Statuses
  <2>2. Start(r, [Idle EXCEPT !.pc = "write", !.to = "tidak_deal", !.seen = S])
    BY <1>3 DEF StartExpire
  <2>3. [Idle EXCEPT !.pc = "write", !.to = "tidak_deal", !.seen = S]
          = [Idle EXCEPT !.pc = "write", !.seen = S, !.to = "tidak_deal"]
    BY DEF Idle
  <2> HIDE DEF S
  <2>4. "tidak_deal" \in Statuses
    BY DEF Statuses
  <2>5. /\ Only(r)
        /\ task'[r].pc = "write"
        /\ task'[r].fresh = FALSE
        /\ task'[r].to = "tidak_deal"
    <3>1. Start(r, [Idle EXCEPT !.pc = "write", !.seen = S, !.to = "tidak_deal"])
      BY <2>2, <2>3 DEF Start
    <3> QED
      BY <2>1, <2>4, <3>1, <1>t, StartWriteStep
  <2>6. GoodTask(task'[r])
    BY <2>4, <2>5 DEF GoodTask
  <2> QED
    BY <1>3, <1>t, <2>5, <2>6, TaskOnly DEF StartExpire, counters
<1>4. ASSUME NEW r \in Request, NEW l \in Lead, StartConvert(r, l)
      PROVE  TypeInv'
  <2>1. Only(r) /\ GoodTask(task'[r])
    BY <1>4, <1>t, StartConvertStep DEF GoodTask
  <2> QED
    BY <1>4, <1>t, <2>1, TaskOnly DEF StartConvert, counters
<1>5. ASSUME NEW r \in Request, NEW p \in Participant, StartInvoice(r, p)
      PROVE  TypeInv'
  <2>1. Only(r) /\ GoodTask(task'[r])
    BY <1>5, <1>t, StartInvoiceStep DEF GoodTask
  <2> QED
    BY <1>5, <1>t, <2>1, TaskOnly DEF StartInvoice, counters
<1>6. ASSUME NEW r \in Request, WriteStatus(r)
      PROVE  TypeInv'
  <2>1. Only(r) /\ GoodTask(task'[r])
    BY <1>6, <1>t, FinishStep, IdleType DEF WriteStatus
  <2>2. task[r].to \in Statuses /\ task[r].seen \in SUBSET (Lead \X Statuses)
    BY <1>6, <1>t, <1>g DEF WriteStatus, At, GoodTask, TypeOK, Task
  <2> DEFINE s == task[r].to
             S == task[r].seen
  <2>3. leadStatus' \in [Lead -> Statuses \cup {Null}]
    BY <1>6, <1>t, <2>2 DEF WriteStatus, TypeOK
  <2>4. /\ {<<x[1], x[2], s>> : x \in S} \subseteq Lead \X Statuses \X Statuses
        /\ trail' = trail \cup {<<x[1], x[2], s>> : x \in S}
    BY <1>6, <2>2 DEF WriteStatus
  <2>5. trail' \subseteq Lead \X Statuses \X Statuses
    BY <2>4, <1>t DEF TypeOK
  <2>6. reopened' \subseteq Lead
    BY <1>6, <1>t DEF WriteStatus, TypeOK, SeenLeads
  <2> QED
    BY <1>6, <1>t, <2>1, <2>3, <2>5, <2>6
    DEF WriteStatus, TypeInv, TypeOK, Only, counters, Exists
<1>7. ASSUME NEW r \in Request, LookupAccount(r)
      PROVE  TypeInv'
  <2>1. task[r].lead \in Lead /\ GoodTask(task[r]) /\ ~task[r].fresh
    BY <1>7, <1>g DEF LookupAccount, At, GoodTask
  <2>2. Only(r) /\ GoodTask(task'[r])
    BY <1>7, <1>t, <2>1, LookupStep DEF GoodTask
  <2> QED
    BY <1>7, <1>t, <2>2, TaskOnly DEF LookupAccount, counters
<1>8. ASSUME NEW r \in Request, CreateAccount(r)
      PROVE  TypeInv'
  <2>1. GoodTask(task[r]) /\ task[r].pc = "create"
    BY <1>8, <1>g DEF CreateAccount, At
  <2>2. Only(r) /\ GoodTask(task'[r])
    BY <1>8, <1>t, <2>1, CreateStep, IdleType DEF GoodTask
  <2> QED
    BY <1>8, <1>t, <2>2, TaskOnly DEF CreateAccount, counters
<1>9. ASSUME NEW r \in Request, SnapshotLead(r)
      PROVE  TypeInv'
  <2>1. GoodTask(task[r]) /\ task[r].pc = "snapshot" /\ task[r].lead \in Lead
    BY <1>9, <1>g DEF SnapshotLead, At, GoodTask
  <2>2. Only(r) /\ GoodTask(task'[r])
    BY <1>9, <1>t, <2>1, SnapshotStep, IdleType DEF GoodTask
  <2> QED
    BY <1>9, <1>t, <2>2, TaskOnly DEF SnapshotLead, counters
<1>10. ASSUME NEW r \in Request, MarkConverted(r)
       PROVE  TypeInv'
  <2>1. GoodTask(task[r]) /\ task[r].pc = "mark" /\ Goto(r, "commit") /\ "commit" \in Labels
    BY <1>10, <1>g DEF MarkConverted, At, Labels
  <2>2. Only(r) /\ GoodTask(task'[r])
    BY <1>t, <2>1, GotoStep DEF GoodTask
  <2> QED
    BY <1>10, <1>t, <2>2, TaskOnly DEF MarkConverted, counters
<1>11. ASSUME NEW r \in Request, CommitConversion(r)
       PROVE  TypeInv'
  <2>1. /\ GoodTask(task[r])
        /\ task[r].lead \in Lead
        /\ task[r].password \in Password
        /\ PhoneOf[task[r].lead] \in Phone
        /\ task[r].seen \in SUBSET (Lead \X Statuses)
    BY <1>11, <1>t, <1>g, PhoneAssumption DEF CommitConversion, At, GoodTask, TypeOK, Task
  <2>2. PICK p \in Participant :
           /\ ~Exists(p)
           /\ participants' \in [Participant -> Row]
           /\ participants'[p].lead = task[r].lead
           /\ participants'[p].password = task[r].password
           /\ participants'[p].fresh = task[r].fresh
           /\ \A q \in Participant : q # p => participants'[q] = participants[q]
           /\ Only(r)
           /\ task'[r].row = p
           /\ task'[r].pc = IF task[r].fresh THEN "announce" ELSE "number"
           /\ task'[r].lead = task[r].lead
           /\ task'[r].password = task[r].password
           /\ task'[r].fresh = task[r].fresh
    BY <1>11, <1>t, <2>1, CommitStep
  <2>3. GoodTask(task'[r])
    BY <2>1, <2>2 DEF GoodTask
  <2>4. accounts' \in [Phone -> Password \cup {Null}]
    BY <1>11, <1>t, <2>1 DEF CommitConversion, TypeOK
  <2>5. leadStatus' \in [Lead -> Statuses \cup {Null}]
    BY <1>11, <1>t, <2>1 DEF CommitConversion, TypeOK, Statuses
  <2>6. trail' \subseteq Lead \X Statuses \X Statuses
    <3> DEFINE S == task[r].seen
               new == {<<x[1], x[2], "peserta">> : x \in S}
    <3>1. new \subseteq Lead \X Statuses \X Statuses
      BY <2>1 DEF Statuses
    <3>2. trail' = trail \cup new
      BY <1>11 DEF CommitConversion
    <3> QED
      BY <3>1, <3>2, <1>t DEF TypeOK
  <2>7. \A q \in Participant : Exists(q)' => participants'[q].password \in Password
    BY <2>1, <2>2 DEF Exists, TypeInv
  <2>8. UNCHANGED <<invoices, told, reopened, excused, moves, faults>>
    BY <1>11 DEF CommitConversion, history, counters
  <2> QED
    BY <1>t, <1>g, <2>2, <2>3, <2>4, <2>5, <2>6, <2>7, <2>8 DEF TypeInv, TypeOK, Only
<1>12. ASSUME NEW r \in Request, Announce(r)
       PROVE  TypeInv'
  <2>1. /\ GoodTask(task[r]) /\ task[r].pc = "announce"
        /\ Goto(r, "number") /\ "number" \in Labels
    BY <1>12, <1>g DEF Announce, At, Labels
  <2>2. /\ task[r].lead \in Lead /\ task[r].password \in Password /\ PhoneOfTask(r) \in Phone
    BY <2>1, PhoneAssumption DEF GoodTask, PhoneOfTask
  <2>3. told' \subseteq Phone \X Password
    BY <1>12, <1>t, <2>2 DEF Announce, TypeOK
  <2>4. Only(r) /\ GoodTask(task'[r])
    BY <1>t, <2>1, GotoStep DEF GoodTask
  <2> QED
    BY <1>12, <1>t, <2>3, <2>4 DEF Announce, TypeInv, TypeOK, Only, rows, counters, Exists
<1>13. ASSUME NEW r \in Request, TakeNumber(r)
       PROVE  TypeInv'
  <2>1. GoodTask(task[r]) /\ task[r].pc = "number"
    BY <1>13, <1>g DEF TakeNumber, At
  <2>2. Only(r) /\ GoodTask(task'[r])
    BY <1>13, <1>t, <2>1, TakeNumberStep DEF GoodTask
  <2> QED
    BY <1>13, <1>t, <2>2, TaskOnly DEF TakeNumber, counters
<1>14. ASSUME NEW r \in Request, IssueInvoice(r)
       PROVE  TypeInv'
  <2>1. GoodTask(task[r]) /\ task[r].pc = "issue"
    BY <1>14, <1>g DEF IssueInvoice, At
  <2>2. /\ task[r].row \in Participant /\ task[r].number \in Nat
        /\ task[r].fresh => /\ task[r].password \in Password
                            /\ PhoneOfTask(r) \in Phone
    BY <2>1, <1>t, PhoneAssumption DEF GoodTask, PhoneOfTask, TypeOK, Task
  <2>3. told' \subseteq Phone \X Password
    BY <1>14, <1>t, <2>2 DEF IssueInvoice, Respond, TypeOK
  <2>4. invoices' \subseteq Participant \X Nat
    BY <1>14, <1>t, <2>2 DEF IssueInvoice, TypeOK
  <2>5. Only(r) /\ GoodTask(task'[r])
    BY <1>14, <1>t, FinishStep, IdleType DEF IssueInvoice
  <2>6. excused' \subseteq Participant
    <3>1. Rivals(r) \subseteq Participant
      BY <1>g DEF Rivals, At, GoodTask
    <3> QED
      BY <1>14, <1>t, <3>1 DEF IssueInvoice, TypeOK
  <2> QED
    BY <1>14, <1>t, <2>3, <2>4, <2>5, <2>6
    DEF IssueInvoice, TypeInv, TypeOK, Only, counters, Exists
<1>15. ASSUME NEW r \in Request, Die(r)
       PROVE  TypeInv'
  <2>1. Only(r) /\ GoodTask(task'[r])
    BY <1>15, <1>t, FinishStep, IdleType DEF Die
  <2>2. faults' \in 0..MaxFaults
    BY <1>15, <1>t, InstanceAssumption DEF Die
  <2>3. excused' \subseteq Participant
    BY <1>15, <1>t DEF Die, TypeOK, Task
  <2> QED
    BY <1>15, <1>t, <2>1, <2>2, <2>3 DEF Die, TypeInv, TypeOK, Only, rows, Exists
<1>16. CASE UNCHANGED vars
  BY <1>16 DEF TypeInv, TypeOK, vars, rows, history, counters, Exists
<1>17. ASSUME NEW r \in Request, FailInvoice(r)
       PROVE  TypeInv'
  <2>1. GoodTask(task[r]) /\ task[r].pc \in {"number", "issue"}
    BY <1>17, <1>g DEF FailInvoice
  <2>2. /\ task[r].row \in Participant
        /\ task[r].fresh => /\ task[r].password \in Password
                            /\ PhoneOfTask(r) \in Phone
    BY <2>1, PhoneAssumption DEF GoodTask, PhoneOfTask
  <2>3. told' \subseteq Phone \X Password
    BY <1>17, <1>t, <2>2 DEF FailInvoice, Respond, TypeOK
  <2>4. excused' \subseteq Participant
    BY <1>17, <1>t, <2>2 DEF FailInvoice, TypeOK
  <2>5. Only(r) /\ GoodTask(task'[r])
    BY <1>17, <1>t, FinishStep, IdleType DEF FailInvoice
  <2> QED
    BY <1>17, <1>t, <2>3, <2>4, <2>5 DEF FailInvoice, TypeInv, TypeOK, Only, rows, counters, Exists
<1> QED
  BY <1>1, <1>2, <1>3, <1>4, <1>5, <1>6, <1>7, <1>8, <1>9, <1>10, <1>11, <1>12,
     <1>13, <1>14, <1>15, <1>16, <1>17 DEF Next, Handle

\* Every variable keeps its type, and every handler has what its step needs.
LEMMA TypeInvariant == Spec => []TypeInv
<1>1. Init => TypeInv
  BY TypeInit
<1>2. TypeInv /\ [Next]_vars => TypeInv'
  BY TypeStep
<1> QED
  BY <1>1, <1>2, PTL DEF Spec

-----------------------------------------------------------------------------
(* Accounts and conversions.                                               *)

\* Nobody is converting or has converted in the beginning.
LEMMA ConversionInit == Init => ConversionInv
<1> SUFFICES ASSUME Init PROVE ConversionInv
  OBVIOUS
<1>1. TypeInv
  BY TypeInit
<1>2. \A p \in Participant : ~Exists(p)
  BY DEF Init, Exists, NoRow
<1>3. AccountInv
  BY IdleType DEF Init, AccountInv, Knows, Inserts, Open
<1>4. PasswordsAgree
  BY <1>2 DEF Init, PasswordsAgree
<1>5. LeadInv /\ NewCustomerOnce
  BY <1>2 DEF LeadInv, NewCustomer, NewCustomerOnce
<1> QED
  BY <1>1, <1>3, <1>4, <1>5 DEF ConversionInv

\* A step that writes no lead, account or participant keeps the invariant, if
\* its handler knows the account of its phone, is alone in inserting it, reaches
\* a lead only through a status that is not "peserta", and tells the truth.
LEMMA HandlerOnly ==
  ASSUME ConversionInv, TypeInv', NEW r \in Request, Only(r),
         UNCHANGED <<leadStatus, accounts, participants, reopened>>,
         Knows(task'[r]),
         \A q \in Request : /\ q # r
                            /\ Inserts(task[q])
                            /\ Inserts(task'[r])
                            => PhoneOf[task[q].lead] # PhoneOf[task'[r].lead],
         \/ task'[r].pc \notin {"mark", "commit"}
         \/ leadStatus[task'[r].lead] # "peserta"
         \/ task[r].pc \in {"mark", "commit"} /\ task'[r].lead = task[r].lead,
         \A x \in told' : accounts[x[1]] = x[2]
  PROVE  ConversionInv'
<1>1. AccountInv'
  <2>1. ASSUME NEW q \in Request PROVE Knows(task[q])'
    <3>1. CASE q = r
      BY <3>1 DEF Knows
    <3>2. CASE q # r
      BY <3>2 DEF ConversionInv, AccountInv, Knows, Only
    <3> QED
      BY <3>1, <3>2
  <2>2. ASSUME NEW q \in Request, NEW s \in Request,
               Inserts(task'[q]), Inserts(task'[s]),
               PhoneOf[task'[q].lead] = PhoneOf[task'[s].lead]
        PROVE  q = s
    BY <2>2 DEF ConversionInv, AccountInv, Only
  <2> QED
    BY <2>1, <2>2 DEF AccountInv, Inserts, Open
<1>2. PasswordsAgree'
  BY DEF ConversionInv, PasswordsAgree, Exists
<1>3. LeadInv'
  <2> SUFFICES ASSUME NEW p \in Participant, NewCustomer(p)'
               PROVE  /\ leadStatus'[participants'[p].lead] = "peserta"
                      /\ \A q \in Request :
                           task'[q].pc \in {"mark", "commit"}
                             => task'[q].lead # participants'[p].lead
    BY DEF LeadInv
  <2>1. NewCustomer(p)
    BY DEF NewCustomer, Exists
  <2>2. /\ leadStatus[participants[p].lead] = "peserta"
        /\ \A q \in Request :
             task[q].pc \in {"mark", "commit"} => task[q].lead # participants[p].lead
    BY <2>1 DEF ConversionInv, LeadInv
  <2> QED
    BY <2>2 DEF Only
<1>4. NewCustomerOnce'
  BY DEF ConversionInv, NewCustomerOnce, Exists
<1> QED
  BY <1>1, <1>2, <1>3, <1>4 DEF ConversionInv

\* A handler that has no account and no lead in hand disturbs nothing.
LEMMA HandlerFree ==
  ASSUME ConversionInv, TypeInv', NEW r \in Request, Only(r),
         UNCHANGED <<leadStatus, accounts, participants, reopened>>,
         ~Open(task'[r]), task'[r].fresh = FALSE,
         \A x \in told' : accounts[x[1]] = x[2]
  PROVE  ConversionInv'
<1>1. /\ Knows(task'[r])
      /\ ~Inserts(task'[r])
      /\ task'[r].pc \notin {"mark", "commit"}
  BY DEF Knows, Inserts, Open
<1> QED
  BY <1>1, HandlerOnly

\* A handler that goes on with the account and the lead it had disturbs nothing.
LEMMA HandlerSame ==
  ASSUME ConversionInv, TypeInv', NEW r \in Request, Only(r),
         UNCHANGED <<leadStatus, accounts, participants, reopened>>,
         task'[r].lead = task[r].lead,
         task'[r].password = task[r].password,
         task'[r].fresh = task[r].fresh,
         Open(task'[r]) <=> Open(task[r]),
         \/ task'[r].pc \notin {"mark", "commit"}
         \/ leadStatus[task[r].lead] # "peserta"
         \/ task[r].pc \in {"mark", "commit"},
         \A x \in told' : accounts[x[1]] = x[2]
  PROVE  ConversionInv'
<1>1. Knows(task[r])
  BY DEF ConversionInv, AccountInv
<1>2. Inserts(task'[r]) <=> Inserts(task[r])
  BY DEF Inserts
<1>3. Knows(task'[r])
  BY <1>1, <1>2 DEF Knows
<1>4. \A q \in Request : /\ q # r
                         /\ Inserts(task[q])
                         /\ Inserts(task'[r])
                         => PhoneOf[task[q].lead] # PhoneOf[task'[r].lead]
  BY <1>2 DEF ConversionInv, AccountInv
<1> QED
  BY <1>3, <1>4, HandlerOnly

\* A commit: the unit that inserted an account was alone with the phone, so no
\* other participant, password or unit belongs to the lead; a unit that reused
\* one does not meet the lead of a new customer.
LEMMA CommitKeeps ==
  ASSUME ConversionInv, TypeInv', NEW r \in Request, CommitConversion(r)
  PROVE  ConversionInv'
<1> DEFINE l == task[r].lead
           w == task[r].password
<1>t. TypeOK /\ GoodTask(task[r])
  BY DEF ConversionInv, TypeInv
<1>1. /\ task[r].pc = "commit"
      /\ l \in Lead
      /\ w \in Password
      /\ PhoneOf[l] \in Phone
      /\ Open(task[r])
  BY <1>t, PhoneAssumption DEF CommitConversion, At, GoodTask, Open
<1>2. PICK p \in Participant :
         /\ ~Exists(p)
         /\ participants' \in [Participant -> Row]
         /\ participants'[p].lead = l
         /\ participants'[p].password = w
         /\ participants'[p].fresh = task[r].fresh
         /\ \A q \in Participant : q # p => participants'[q] = participants[q]
         /\ Only(r)
         /\ task'[r].row = p
         /\ task'[r].pc = IF task[r].fresh THEN "announce" ELSE "number"
         /\ task'[r].lead = l
         /\ task'[r].password = w
         /\ task'[r].fresh = task[r].fresh
  BY <1>t, CommitStep
<1>3. /\ leadStatus' \in [Lead -> Statuses \cup {Null}]
      /\ leadStatus'[l] = "peserta"
      /\ \A x \in Lead : x # l => leadStatus'[x] = leadStatus[x]
      /\ UNCHANGED <<told, reopened>>
  BY <1>1, <1>t DEF CommitConversion, TypeOK, history, Statuses
<1>4. ~Open(task'[r]) /\ ~Inserts(task'[r]) /\ task'[r].pc \notin {"mark", "commit"}
  BY <1>2 DEF Open, Inserts
<1>5. /\ \A q \in Participant : Exists(q) =>
           /\ participants[q].lead \in Lead
           /\ participants[q].password \in Password
           /\ participants[q].password = accounts[PhoneOf[participants[q].lead]]
      /\ \A x \in told : x \in Phone \X Password /\ accounts[x[1]] = x[2]
  BY <1>t DEF ConversionInv, TypeInv, TypeOK, Row, Exists, PasswordsAgree
<1>6. ASSUME NEW q \in Request, Open(task[q]) \/ task[q].fresh
      PROVE  /\ task[q].lead \in Lead
             /\ ~Inserts(task[q]) => /\ accounts[PhoneOf[task[q].lead]] = task[q].password
                                     /\ task[q].password \in Password
  BY <1>6 DEF ConversionInv, TypeInv, AccountInv, Knows, Open, Inserts, GoodTask
<1>7. \A q \in Participant : NewCustomer(q) => participants[q].lead # l
  BY <1>1 DEF ConversionInv, LeadInv
<1>8. \A q \in Participant : q # p => (Exists(q)' <=> Exists(q))
  BY <1>2 DEF Exists
<1>9. CASE task[r].fresh
  <2>1. /\ Inserts(task[r])
        /\ accounts[PhoneOf[l]] = Null
    BY <1>1, <1>9 DEF Inserts, ConversionInv, AccountInv, Knows
  <2>2. /\ accounts'[PhoneOf[l]] = w
        /\ \A n \in Phone : n # PhoneOf[l] => accounts'[n] = accounts[n]
    BY <1>1, <1>9, <1>t DEF CommitConversion, TypeOK
  <2>3. \A q \in Request :
          q # r /\ (Open(task[q]) \/ task[q].fresh) => PhoneOf[task[q].lead] # PhoneOf[l]
    <3> SUFFICES ASSUME NEW q \in Request, q # r, Open(task[q]) \/ task[q].fresh
                 PROVE  PhoneOf[task[q].lead] # PhoneOf[l]
      OBVIOUS
    <3>1. CASE Inserts(task[q])
      BY <2>1, <3>1 DEF ConversionInv, AccountInv
    <3>2. CASE ~Inserts(task[q])
      BY <1>6, <2>1, <3>2, NullAssumption
    <3> QED
      BY <3>1, <3>2
  <2>4. \A q \in Participant : Exists(q) => PhoneOf[participants[q].lead] # PhoneOf[l]
    BY <1>5, <2>1, NullAssumption
  <2>5. AccountInv'
    <3>1. ASSUME NEW q \in Request PROVE Knows(task[q])'
      <4>1. CASE q = r
        BY <1>2, <1>4, <2>2, <4>1 DEF Knows
      <4>2. CASE q # r /\ (Open(task[q]) \/ task[q].fresh)
        <5>1. PhoneOf[task[q].lead] # PhoneOf[l] /\ PhoneOf[task[q].lead] \in Phone
          BY <1>6, <2>3, <4>2, PhoneAssumption
        <5>2. accounts'[PhoneOf[task[q].lead]] = accounts[PhoneOf[task[q].lead]]
          BY <2>2, <5>1
        <5>3. task'[q] = task[q] /\ Knows(task[q])
          BY <1>2, <4>2 DEF Only, ConversionInv, AccountInv
        <5> QED
          BY <5>2, <5>3 DEF Knows
      <4>3. CASE q # r /\ ~Open(task[q]) /\ ~task[q].fresh
        BY <1>2, <4>3 DEF Only, Knows, Inserts, Open
      <4> QED
        BY <4>1, <4>2, <4>3
    <3>2. ASSUME NEW q \in Request, NEW s \in Request,
                 Inserts(task'[q]), Inserts(task'[s]),
                 PhoneOf[task'[q].lead] = PhoneOf[task'[s].lead]
          PROVE  q = s
      BY <1>2, <1>4, <3>2 DEF ConversionInv, AccountInv, Only
    <3> QED
      BY <3>1, <3>2 DEF AccountInv, Inserts, Open
  <2>6. PasswordsAgree'
    <3>1. \A x \in told : accounts'[x[1]] = x[2]
      BY <1>5, <2>1, <2>2, NullAssumption
    <3>2. ASSUME NEW q \in Participant, Exists(q)'
          PROVE  participants'[q].password = accounts'[PhoneOf[participants'[q].lead]]
      <4>1. CASE q = p
        BY <1>2, <2>2, <4>1
      <4>2. CASE q # p
        <5>1. /\ participants'[q] = participants[q]
              /\ Exists(q)
              /\ PhoneOf[participants[q].lead] # PhoneOf[l]
              /\ PhoneOf[participants[q].lead] \in Phone
          BY <1>2, <1>5, <1>8, <2>4, <3>2, <4>2, PhoneAssumption
        <5> QED
          BY <1>5, <2>2, <5>1
      <4> QED
        BY <4>1, <4>2
    <3> QED
      BY <1>3, <3>1, <3>2 DEF PasswordsAgree
  <2>7. LeadInv'
    <3> SUFFICES ASSUME NEW q \in Participant, NewCustomer(q)'
                 PROVE  /\ leadStatus'[participants'[q].lead] = "peserta"
                        /\ \A s \in Request :
                             task'[s].pc \in {"mark", "commit"}
                               => task'[s].lead # participants'[q].lead
      BY DEF LeadInv
    <3>1. CASE q = p
      <4>1. \A s \in Request : s # r /\ task[s].pc \in {"mark", "commit"} => task[s].lead # l
        BY <2>3 DEF Open
      <4> QED
        BY <1>2, <1>3, <1>4, <3>1, <4>1 DEF Only
    <3>2. CASE q # p
      <4>1. /\ NewCustomer(q)
            /\ participants'[q] = participants[q]
            /\ participants[q].lead \in Lead
            /\ participants[q].lead # l
        BY <1>2, <1>3, <1>5, <1>7, <1>8, <3>2 DEF NewCustomer
      <4>2. /\ leadStatus[participants[q].lead] = "peserta"
            /\ \A s \in Request :
                 task[s].pc \in {"mark", "commit"} => task[s].lead # participants[q].lead
        BY <4>1 DEF ConversionInv, LeadInv
      <4> QED
        BY <1>2, <1>3, <1>4, <4>1, <4>2 DEF Only
    <3> QED
      BY <3>1, <3>2
  <2>8. NewCustomerOnce'
    <3> SUFFICES ASSUME NEW q \in Participant, NEW s \in Participant,
                        NewCustomer(q)',
                        participants'[s].lead = participants'[q].lead
                 PROVE  q = s
      BY DEF NewCustomerOnce, NewCustomer
    <3>1. Exists(q)' /\ Exists(s)'
      BY DEF NewCustomer, Exists
    <3>2. CASE q # p /\ s # p
      <4>1. /\ participants'[q] = participants[q] /\ participants'[s] = participants[s]
            /\ NewCustomer(q)
        BY <1>2, <1>3, <1>8, <3>1, <3>2 DEF NewCustomer
      <4> QED
        BY <4>1 DEF ConversionInv, NewCustomerOnce, NewCustomer
    <3>3. CASE q = p /\ s # p
      BY <1>2, <1>8, <2>4, <3>1, <3>3
    <3>4. CASE s = p /\ q # p
      BY <1>2, <1>8, <2>4, <3>1, <3>4
    <3> QED
      BY <3>2, <3>3, <3>4
  <2> QED
    BY <2>5, <2>6, <2>7, <2>8 DEF ConversionInv
<1>10. CASE ~task[r].fresh
  <2>1. accounts' = accounts /\ accounts[PhoneOf[l]] = w
    BY <1>1, <1>10 DEF CommitConversion, ConversionInv, AccountInv, Knows
  <2>2. ~NewCustomer(p)'
    BY <1>2, <1>10 DEF NewCustomer
  <2>3. AccountInv'
    <3>1. ASSUME NEW q \in Request PROVE Knows(task[q])'
      <4>1. CASE q = r
        BY <1>2, <1>4, <1>10, <4>1 DEF Knows, Open, Inserts
      <4>2. CASE q # r
        BY <1>2, <2>1, <4>2 DEF ConversionInv, AccountInv, Knows, Only
      <4> QED
        BY <4>1, <4>2
    <3>2. ASSUME NEW q \in Request, NEW s \in Request,
                 Inserts(task'[q]), Inserts(task'[s]),
                 PhoneOf[task'[q].lead] = PhoneOf[task'[s].lead]
          PROVE  q = s
      BY <1>2, <1>4, <3>2 DEF ConversionInv, AccountInv, Only
    <3> QED
      BY <3>1, <3>2 DEF AccountInv, Inserts, Open
  <2>4. PasswordsAgree'
    <3>1. ASSUME NEW q \in Participant, Exists(q)'
          PROVE  participants'[q].password = accounts[PhoneOf[participants'[q].lead]]
      BY <1>2, <1>5, <1>8, <2>1, <3>1
    <3> QED
      BY <1>3, <1>5, <2>1, <3>1 DEF PasswordsAgree
  <2>5. ASSUME NEW q \in Participant, NewCustomer(q)'
        PROVE  /\ q # p
               /\ NewCustomer(q)
               /\ participants'[q] = participants[q]
               /\ participants[q].lead \in Lead
               /\ participants[q].lead # l
    BY <1>2, <1>3, <1>5, <1>7, <1>8, <2>2, <2>5 DEF NewCustomer
  <2>6. LeadInv'
    <3> SUFFICES ASSUME NEW q \in Participant, NewCustomer(q)'
                 PROVE  /\ leadStatus'[participants'[q].lead] = "peserta"
                        /\ \A s \in Request :
                             task'[s].pc \in {"mark", "commit"}
                               => task'[s].lead # participants'[q].lead
      BY DEF LeadInv
    <3>1. /\ leadStatus[participants[q].lead] = "peserta"
          /\ \A s \in Request :
               task[s].pc \in {"mark", "commit"} => task[s].lead # participants[q].lead
      BY <2>5 DEF ConversionInv, LeadInv
    <3> QED
      BY <1>2, <1>3, <1>4, <2>5, <3>1 DEF Only
  <2>7. NewCustomerOnce'
    <3> SUFFICES ASSUME NEW q \in Participant, NEW s \in Participant,
                        NewCustomer(q)',
                        participants'[s].lead = participants'[q].lead
                 PROVE  q = s
      BY DEF NewCustomerOnce, NewCustomer
    <3>1. s # p
      BY <1>2, <2>5
    <3>2. participants'[s] = participants[s]
      BY <1>2, <3>1
    <3> QED
      BY <2>5, <3>2 DEF ConversionInv, NewCustomerOnce, NewCustomer
  <2> QED
    BY <2>3, <2>4, <2>6, <2>7 DEF ConversionInv
<1> QED
  BY <1>9, <1>10

\* Every step keeps accounts, passwords and conversions consistent.
LEMMA ConversionStep == ConversionInv /\ [Next]_vars => ConversionInv'
<1> SUFFICES ASSUME ConversionInv, [Next]_vars PROVE ConversionInv'
  OBVIOUS
<1>t. TypeInv' /\ TypeOK /\ \A r \in Request : GoodTask(task[r])
  BY TypeStep DEF ConversionInv, TypeInv
<1>p. \A x \in told : accounts[x[1]] = x[2]
  BY DEF ConversionInv, PasswordsAgree
<1>i. ~Open(Idle) /\ Idle.fresh = FALSE
  BY IdleType DEF Open
<1>1. ASSUME NEW l \in Lead, CreateLead(l)
      PROVE  ConversionInv'
  <2>1. UNCHANGED <<accounts, participants, task, told, reopened>>
    BY <1>1 DEF CreateLead, history
  <2>2. \A p \in Participant : NewCustomer(p) => participants[p].lead # l
    BY <1>1, NullAssumption DEF CreateLead, ConversionInv, LeadInv, Statuses
  <2>3. \A x \in Lead : x # l => leadStatus'[x] = leadStatus[x]
    BY <1>1, <1>t DEF CreateLead, TypeOK
  <2>4. LeadInv'
    <3> SUFFICES ASSUME NEW p \in Participant, NewCustomer(p)'
                 PROVE  /\ leadStatus'[participants[p].lead] = "peserta"
                        /\ \A q \in Request :
                             task[q].pc \in {"mark", "commit"}
                               => task[q].lead # participants[p].lead
      BY <2>1 DEF LeadInv
    <3>1. NewCustomer(p) /\ participants[p].lead \in Lead
      BY <2>1, <1>t DEF NewCustomer, Exists, TypeOK, Row
    <3> QED
      BY <2>2, <2>3, <3>1 DEF ConversionInv, LeadInv
  <2>5. AccountInv' /\ PasswordsAgree' /\ NewCustomerOnce'
    BY <2>1 DEF ConversionInv, AccountInv, Knows, Inserts, Open, PasswordsAgree,
                NewCustomerOnce, Exists
  <2> QED
    BY <1>t, <2>4, <2>5 DEF ConversionInv
<1>2. ASSUME NEW r \in Request, NEW l \in Lead, NEW s \in Statuses, StartMove(r, l, s)
      PROVE  ConversionInv'
  <2> DEFINE S == {<<l, leadStatus[l]>>}
  <2>1. S \in SUBSET (Lead \X Statuses)
    BY <1>2, <1>t DEF StartMove, TypeOK
  <2>2. Start(r, [Idle EXCEPT !.pc = "write", !.seen = S, !.to = s])
    BY <1>2 DEF StartMove
  <2> HIDE DEF S
  <2>3. Only(r) /\ ~Open(task'[r]) /\ task'[r].fresh = FALSE
    BY <2>1, <2>2, <1>t, StartWriteStep DEF Open
  <2> QED
    BY <1>2, <1>t, <1>p, <2>3, HandlerFree DEF StartMove, rows, history
<1>3. ASSUME NEW r \in Request, NEW L \in SUBSET Lead, StartExpire(r, L)
      PROVE  ConversionInv'
  <2> DEFINE S == {<<l, leadStatus[l]>> : l \in L}
  <2>1. S \in SUBSET (Lead \X Statuses) /\ "tidak_deal" \in Statuses
    BY <1>3, <1>t DEF StartExpire, Stale, Statuses
  <2>2. Start(r, [Idle EXCEPT !.pc = "write", !.to = "tidak_deal", !.seen = S])
    BY <1>3 DEF StartExpire
  <2>3. [Idle EXCEPT !.pc = "write", !.to = "tidak_deal", !.seen = S]
          = [Idle EXCEPT !.pc = "write", !.seen = S, !.to = "tidak_deal"]
    BY DEF Idle
  <2> HIDE DEF S
  <2>4. Start(r, [Idle EXCEPT !.pc = "write", !.seen = S, !.to = "tidak_deal"])
    BY <2>2, <2>3 DEF Start
  <2>5. Only(r) /\ ~Open(task'[r]) /\ task'[r].fresh = FALSE
    BY <2>1, <2>4, <1>t, StartWriteStep DEF Open
  <2> QED
    BY <1>3, <1>t, <1>p, <2>5, HandlerFree DEF StartExpire, rows, history
<1>4. ASSUME NEW r \in Request, NEW l \in Lead, StartConvert(r, l)
      PROVE  ConversionInv'
  <2>1. Only(r) /\ ~Open(task'[r]) /\ task'[r].fresh = FALSE
    BY <1>4, <1>t, StartConvertStep DEF Open
  <2> QED
    BY <1>4, <1>t, <1>p, <2>1, HandlerFree DEF StartConvert, rows, history
<1>5. ASSUME NEW r \in Request, NEW p \in Participant, StartInvoice(r, p)
      PROVE  ConversionInv'
  <2>1. Only(r) /\ ~Open(task'[r]) /\ task'[r].fresh = FALSE
    BY <1>5, <1>t, StartInvoiceStep DEF Open
  <2> QED
    BY <1>5, <1>t, <1>p, <2>1, HandlerFree DEF StartInvoice, rows, history
<1>6. ASSUME NEW r \in Request, WriteStatus(r)
      PROVE  ConversionInv'
  <2>1. /\ Only(r)
        /\ task'[r] = Idle
        /\ UNCHANGED <<accounts, participants, told>>
    BY <1>6, <1>t, FinishStep DEF WriteStatus
  <2>2. AccountInv'
    BY <2>1, <1>i DEF ConversionInv, AccountInv, Knows, Inserts, Open, Only
  <2>3. LeadInv'
    <3> SUFFICES ASSUME NEW p \in Participant, NewCustomer(p)'
                 PROVE  /\ leadStatus'[participants[p].lead] = "peserta"
                        /\ \A q \in Request :
                             task'[q].pc \in {"mark", "commit"}
                               => task'[q].lead # participants[p].lead
      BY <2>1 DEF LeadInv
    <3>1. NewCustomer(p) /\ participants[p].lead \in Lead /\ participants[p].lead \notin reopened'
      BY <1>6, <1>t, <2>1 DEF NewCustomer, Exists, TypeOK, Row, WriteStatus
    <3>2. leadStatus[participants[p].lead] = "peserta"
      BY <3>1 DEF ConversionInv, LeadInv
    <3>3. participants[p].lead \notin SeenLeads(r)
      BY <1>6, <3>1, <3>2 DEF WriteStatus
    <3>4. leadStatus'[participants[p].lead] = "peserta"
      BY <1>6, <3>1, <3>2, <3>3 DEF WriteStatus
    <3> QED
      BY <1>i, <2>1, <3>1, <3>4 DEF ConversionInv, LeadInv, Only, Open
  <2>4. NewCustomerOnce'
    BY <1>6, <2>1 DEF ConversionInv, NewCustomerOnce, Exists, WriteStatus
  <2>5. PasswordsAgree'
    BY <2>1 DEF ConversionInv, PasswordsAgree, Exists
  <2> QED
    BY <1>t, <2>2, <2>3, <2>4, <2>5 DEF ConversionInv
<1>7. ASSUME NEW r \in Request, LookupAccount(r)
      PROVE  ConversionInv'
  <2>1. task[r].lead \in Lead /\ ~task[r].fresh
    BY <1>7, <1>t DEF LookupAccount, At, GoodTask
  <2>2. /\ Only(r)
        /\ task'[r].lead = task[r].lead
        /\ ~task'[r].fresh
        /\ \/ task'[r].pc = "create"
           \/ task'[r].pc = "snapshot" /\ task'[r].password = accounts[PhoneOf[task[r].lead]]
    BY <1>7, <1>t, <2>1, LookupStep DEF PhoneOfTask
  <2>3. /\ Knows(task'[r])
        /\ ~Inserts(task'[r])
        /\ task'[r].pc \notin {"mark", "commit"}
    BY <2>2 DEF Knows, Inserts, Open
  <2> QED
    BY <1>7, <1>t, <1>p, <2>2, <2>3, HandlerOnly DEF LookupAccount, rows, history
<1>8. ASSUME NEW r \in Request, CreateAccount(r)
      PROVE  ConversionInv'
  <2>1. CASE task'[r] = Idle
    BY <1>8, <1>t, <1>p, <1>i, <2>1, CreateStep, HandlerFree DEF CreateAccount, rows, history
  <2>2. CASE task'[r] # Idle
    <3>1. /\ Only(r)
          /\ accounts[PhoneOf[task[r].lead]] = Null
          /\ task'[r].pc = "snapshot"
          /\ task'[r].lead = task[r].lead
          /\ task'[r].fresh = TRUE
      BY <1>8, <1>t, <2>2, CreateStep DEF PhoneOfTask
    <3>2. \A q \in Request : Inserts(task[q]) => PhoneOf[task[q].lead] # PhoneOf[task[r].lead]
      BY <1>8 DEF CreateAccount, Holds, Inserts, Open, PhoneOfTask
    <3>3. Knows(task'[r]) /\ task'[r].pc \notin {"mark", "commit"}
      BY <3>1 DEF Knows, Inserts, Open
    <3> QED
      BY <1>8, <1>t, <1>p, <3>1, <3>2, <3>3, HandlerOnly DEF CreateAccount, rows, history
  <2> QED
    BY <2>1, <2>2
<1>9. ASSUME NEW r \in Request, SnapshotLead(r)
      PROVE  ConversionInv'
  <2>1. task[r].pc = "snapshot" /\ task[r].lead \in Lead
    BY <1>9, <1>t DEF SnapshotLead, At, GoodTask
  <2>2. CASE task'[r] = Idle
    BY <1>9, <1>t, <1>p, <1>i, <2>1, <2>2, SnapshotStep, HandlerFree
    DEF SnapshotLead, rows, history
  <2>3. CASE task'[r] # Idle
    <3>1. /\ Only(r)
          /\ leadStatus[task[r].lead] # "peserta"
          /\ task'[r].pc = "mark"
          /\ task'[r].lead = task[r].lead
          /\ task'[r].password = task[r].password
          /\ task'[r].fresh = task[r].fresh
      BY <1>9, <1>t, <2>1, <2>3, SnapshotStep
    <3>2. Open(task'[r]) <=> Open(task[r])
      BY <2>1, <3>1 DEF Open
    <3> QED
      BY <1>9, <1>t, <1>p, <3>1, <3>2, HandlerSame DEF SnapshotLead, rows, history
  <2> QED
    BY <2>2, <2>3
<1>10. ASSUME NEW r \in Request, MarkConverted(r)
       PROVE  ConversionInv'
  <2>1. task[r].pc = "mark" /\ Goto(r, "commit") /\ "commit" \in Labels
    BY <1>10 DEF MarkConverted, At, Labels
  <2>2. /\ Only(r)
        /\ task'[r].pc = "commit"
        /\ task'[r].lead = task[r].lead
        /\ task'[r].password = task[r].password
        /\ task'[r].fresh = task[r].fresh
    BY <1>t, <2>1, GotoStep
  <2>3. Open(task'[r]) <=> Open(task[r])
    BY <2>1, <2>2 DEF Open
  <2> QED
    BY <1>10, <1>t, <1>p, <2>1, <2>2, <2>3, HandlerSame DEF MarkConverted, rows, history
<1>11. ASSUME NEW r \in Request, CommitConversion(r)
       PROVE  ConversionInv'
  BY <1>11, <1>t, CommitKeeps
<1>12. ASSUME NEW r \in Request, Announce(r)
       PROVE  ConversionInv'
  <2>1. /\ task[r].pc = "announce" /\ task[r].fresh
        /\ Goto(r, "number") /\ "number" \in Labels
    BY <1>12, <1>t DEF Announce, At, Labels, GoodTask
  <2>2. /\ Only(r)
        /\ task'[r].pc = "number"
        /\ task'[r].lead = task[r].lead
        /\ task'[r].password = task[r].password
        /\ task'[r].fresh = task[r].fresh
    BY <1>t, <2>1, GotoStep
  <2>3. Open(task'[r]) <=> Open(task[r])
    BY <2>1, <2>2 DEF Open
  <2>4. accounts[PhoneOf[task[r].lead]] = task[r].password
    BY <2>1 DEF ConversionInv, AccountInv, Knows, Open
  <2>5. \A x \in told' : accounts[x[1]] = x[2]
    BY <1>12, <1>p, <2>4 DEF Announce, PhoneOfTask
  <2> QED
    BY <1>12, <1>t, <2>2, <2>3, <2>5, HandlerSame DEF Announce, rows
<1>13. ASSUME NEW r \in Request, TakeNumber(r)
       PROVE  ConversionInv'
  <2>1. /\ Only(r)
        /\ task[r].pc = "number"
        /\ task'[r].pc = "issue"
        /\ task'[r].lead = task[r].lead
        /\ task'[r].password = task[r].password
        /\ task'[r].fresh = task[r].fresh
    BY <1>13, <1>t, TakeNumberStep DEF TakeNumber, At
  <2>2. Open(task'[r]) <=> Open(task[r])
    BY <2>1 DEF Open
  <2> QED
    BY <1>13, <1>t, <1>p, <2>1, <2>2, HandlerSame DEF TakeNumber, rows, history
<1>14. ASSUME NEW r \in Request, IssueInvoice(r)
       PROVE  ConversionInv'
  <2>1. task[r].fresh => accounts[PhoneOf[task[r].lead]] = task[r].password
    BY <1>14 DEF IssueInvoice, At, ConversionInv, AccountInv, Knows, Open
  <2>2. \A x \in told' : accounts[x[1]] = x[2]
    BY <1>14, <1>p, <2>1 DEF IssueInvoice, Respond, PhoneOfTask
  <2>3. Only(r) /\ task'[r] = Idle
    BY <1>14, <1>t, FinishStep DEF IssueInvoice
  <2> QED
    BY <1>14, <1>t, <1>i, <2>2, <2>3, HandlerFree DEF IssueInvoice
<1>15. ASSUME NEW r \in Request, Die(r)
       PROVE  ConversionInv'
  <2>1. Only(r) /\ task'[r] = Idle
    BY <1>15, <1>t, FinishStep DEF Die
  <2> QED
    BY <1>15, <1>t, <1>p, <1>i, <2>1, HandlerFree DEF Die, rows
<1>16. CASE UNCHANGED vars
  <2>1. UNCHANGED <<leadStatus, accounts, participants, task, told, reopened>>
    BY <1>16 DEF vars, rows, history
  <2> QED
    BY <1>t, <2>1 DEF ConversionInv, AccountInv, Knows, Inserts, Open, PasswordsAgree,
                      LeadInv, NewCustomer, NewCustomerOnce, Exists
<1>17. ASSUME NEW r \in Request, FailInvoice(r)
       PROVE  ConversionInv'
  <2>1. task[r].fresh => accounts[PhoneOf[task[r].lead]] = task[r].password
    BY <1>17 DEF FailInvoice, ConversionInv, AccountInv, Knows, Open
  <2>2. \A x \in told' : accounts[x[1]] = x[2]
    BY <1>17, <1>p, <2>1 DEF FailInvoice, Respond, PhoneOfTask
  <2>3. Only(r) /\ task'[r] = Idle
    BY <1>17, <1>t, FinishStep DEF FailInvoice
  <2> QED
    BY <1>17, <1>t, <1>i, <2>2, <2>3, HandlerFree DEF FailInvoice, rows
<1> QED
  BY <1>1, <1>2, <1>3, <1>4, <1>5, <1>6, <1>7, <1>8, <1>9, <1>10, <1>11, <1>12,
     <1>13, <1>14, <1>15, <1>16, <1>17 DEF Next, Handle

\* The invariant holds in every reachable state.
LEMMA ConversionInvariant == Spec => []ConversionInv
<1>1. Init => ConversionInv
  BY ConversionInit
<1>2. ConversionInv /\ [Next]_vars => ConversionInv'
  BY ConversionStep
<1> QED
  BY <1>1, <1>2, PTL DEF Spec

\* Every variable of the specification keeps its type.
THEOREM ConversionTypeCorrect == Spec => []TypeOK
<1>1. ConversionInv => TypeOK
  BY DEF ConversionInv, TypeInv
<1> QED
  BY <1>1, ConversionInvariant, PTL

\* A lead whose conversion issued an account is converted once, as long as
\* nobody moves it again: racing conversions of a new customer meet at the phone.
THEOREM NewCustomersConvertOnce == Spec => []NewCustomerOnce
<1>1. ConversionInv => NewCustomerOnce
  BY DEF ConversionInv
<1> QED
  BY <1>1, ConversionInvariant, PTL

\* Every password handed out, and every participant's, is the one of the account
\* of their phone, whatever conversions of the same phone run at the same time.
THEOREM PasswordsAlwaysAgree == Spec => []PasswordsAgree
<1>1. ConversionInv => PasswordsAgree
  BY DEF ConversionInv
<1> QED
  BY <1>1, ConversionInvariant, PTL

-----------------------------------------------------------------------------
(* What conversions leave behind.                                          *)

\* A step is the commit of a conversion, or writes no account and no
\* participant and takes no row of the history away.
LEMMA CommitOrKeep ==
  ASSUME TypeInv, [Next]_vars
  PROVE  \/ \E r \in Request : CommitConversion(r)
         \/ UNCHANGED <<accounts, participants>> /\ trail \subseteq trail'
<1> USE DEF rows, history, counters
<1>1. ASSUME NEW l \in Lead, CreateLead(l)
      PROVE  UNCHANGED <<accounts, participants, trail>>
  BY <1>1 DEF CreateLead
<1>2. ASSUME NEW r \in Request, NEW l \in Lead, NEW s \in Statuses, StartMove(r, l, s)
      PROVE  UNCHANGED <<accounts, participants, trail>>
  BY <1>2 DEF StartMove
<1>3. ASSUME NEW r \in Request, NEW L \in SUBSET Lead, StartExpire(r, L)
      PROVE  UNCHANGED <<accounts, participants, trail>>
  BY <1>3 DEF StartExpire
<1>4. ASSUME NEW r \in Request, NEW l \in Lead, StartConvert(r, l)
      PROVE  UNCHANGED <<accounts, participants, trail>>
  BY <1>4 DEF StartConvert
<1>5. ASSUME NEW r \in Request, NEW p \in Participant, StartInvoice(r, p)
      PROVE  UNCHANGED <<accounts, participants, trail>>
  BY <1>5 DEF StartInvoice
<1>6. ASSUME NEW r \in Request, WriteStatus(r)
      PROVE  UNCHANGED <<accounts, participants>> /\ trail \subseteq trail'
  BY <1>6 DEF WriteStatus
<1>7. ASSUME NEW r \in Request,
             \/ LookupAccount(r) \/ CreateAccount(r) \/ SnapshotLead(r) \/ MarkConverted(r)
             \/ Announce(r) \/ TakeNumber(r) \/ IssueInvoice(r) \/ FailInvoice(r) \/ Die(r)
      PROVE  UNCHANGED <<accounts, participants, trail>>
  BY <1>7 DEF LookupAccount, CreateAccount, SnapshotLead, MarkConverted, Announce,
              TakeNumber, IssueInvoice, FailInvoice, Die
<1>8. CASE UNCHANGED vars
  BY <1>8 DEF vars
<1> QED
  BY <1>1, <1>2, <1>3, <1>4, <1>5, <1>6, <1>7, <1>8 DEF Next, Handle

\* The account of a phone that had none came with a participant of that phone.
FreshOwner ==
  \A n \in Phone \ Known : accounts[n] # Null =>
    \E p \in Participant :
      Exists(p) /\ participants[p].fresh /\ PhoneOf[participants[p].lead] = n

\* No account is written without the participant whose conversion issued it.
LEMMA FreshOwners == Spec => []FreshOwner
<1>1. Init => FreshOwner
  BY DEF Init, FreshOwner
<1>2. TypeInv /\ FreshOwner /\ [Next]_vars => FreshOwner'
  <2> SUFFICES ASSUME TypeInv, FreshOwner, [Next]_vars PROVE FreshOwner'
    OBVIOUS
  <2>1. CASE UNCHANGED <<accounts, participants>>
    BY <2>1 DEF FreshOwner, Exists
  <2>2. ASSUME NEW r \in Request, CommitConversion(r)
        PROVE  FreshOwner'
    <3>1. /\ TypeOK
          /\ GoodTask(task[r])
          /\ task[r].lead \in Lead
      BY <2>2 DEF TypeInv, CommitConversion, At, GoodTask
    <3>2. PICK p \in Participant :
            /\ ~Exists(p)
            /\ participants'[p].lead = task[r].lead
            /\ participants'[p].fresh = task[r].fresh
            /\ \A q \in Participant : q # p => participants'[q] = participants[q]
      BY <2>2, <3>1, CommitStep
    <3>3. \A n \in Phone :
            ~(task[r].fresh /\ n = PhoneOf[task[r].lead]) => accounts'[n] = accounts[n]
      BY <2>2, <3>1 DEF CommitConversion, TypeOK
    <3> SUFFICES ASSUME NEW n \in Phone \ Known, accounts'[n] # Null
                 PROVE  \E q \in Participant :
                          /\ Exists(q)' /\ participants'[q].fresh
                          /\ PhoneOf[participants'[q].lead] = n
      BY DEF FreshOwner
    <3>4. CASE task[r].fresh /\ n = PhoneOf[task[r].lead]
      BY <3>1, <3>2, <3>4, NullAssumption DEF Exists
    <3>5. CASE ~(task[r].fresh /\ n = PhoneOf[task[r].lead])
      <4>1. PICK q \in Participant :
              Exists(q) /\ participants[q].fresh /\ PhoneOf[participants[q].lead] = n
        BY <3>3, <3>5 DEF FreshOwner
      <4>2. participants'[q] = participants[q]
        BY <3>2, <4>1
      <4> QED
        BY <4>1, <4>2 DEF Exists
    <3> QED
      BY <3>4, <3>5
  <2> QED
    BY <2>1, <2>2, CommitOrKeep
<1> QED
  BY <1>1, <1>2, TypeInvariant, PTL DEF Spec

\* No account is written without the participant it is for.
THEOREM AccountsHaveOwners == Spec => []AccountHasOwner
<1>1. FreshOwner => AccountHasOwner
  BY DEF FreshOwner, AccountHasOwner
<1> QED
  BY <1>1, FreshOwners, PTL

\* No participant exists whose lead has no record of going from deal to peserta.
THEOREM ConversionsAreRecorded == Spec => []ConversionIsRecorded
<1>1. Init => ConversionIsRecorded
  BY DEF Init, ConversionIsRecorded, Exists, NoRow
<1>2. TypeInv /\ ConversionIsRecorded /\ [Next]_vars => ConversionIsRecorded'
  <2> SUFFICES ASSUME TypeInv, ConversionIsRecorded, [Next]_vars
               PROVE  ConversionIsRecorded'
    OBVIOUS
  <2>1. CASE UNCHANGED <<accounts, participants>> /\ trail \subseteq trail'
    BY <2>1 DEF ConversionIsRecorded, Exists
  <2>2. ASSUME NEW r \in Request, CommitConversion(r)
        PROVE  ConversionIsRecorded'
    <3> DEFINE l == task[r].lead
               S == task[r].seen
               new == {<<x[1], x[2], "peserta">> : x \in S}
    <3>1. TypeOK /\ GoodTask(task[r]) /\ <<l, "deal">> \in S
      BY <2>2 DEF TypeInv, CommitConversion, At, GoodTask
    <3>2. PICK p \in Participant :
            /\ participants'[p].lead = l
            /\ \A q \in Participant : q # p => participants'[q] = participants[q]
      BY <2>2, <3>1, CommitStep
    <3>3. trail' = trail \cup new
      BY <2>2 DEF CommitConversion
    <3>4. <<l, "deal", "peserta">> \in new
      BY <3>1
    <3> QED
      BY <3>2, <3>3, <3>4 DEF ConversionIsRecorded, Exists
  <2> QED
    BY <2>1, <2>2, CommitOrKeep
<1> QED
  BY <1>1, <1>2, TypeInvariant, PTL DEF Spec

-----------------------------------------------------------------------------
(* The password of a new account reaches somebody.                         *)

\* A handler has the password w of the new account of phone n yet to tell.
Owing(t, n, w) ==
  /\ t.pc \in {"announce", "number", "issue"}
  /\ t.fresh
  /\ PhoneOf[t.lead] = n
  /\ t.password = w

ReachInv ==
  faults = 0 =>
    \A n \in Phone \ Known : accounts[n] # Null =>
      \/ <<n, accounts[n]>> \in told
      \/ \E r \in Request : Owing(task[r], n, accounts[n])

\* A handler goes on; what it had to tell it still has, or has told.
LEMMA ReachKept ==
  ASSUME ReachInv, NEW r \in Request, Only(r), UNCHANGED <<accounts, faults>>,
         told \subseteq told',
         \A n, w : Owing(task[r], n, w) => Owing(task'[r], n, w) \/ <<n, w>> \in told'
  PROVE  ReachInv'
BY DEF ReachInv, Only

\* Handlers that are not past a commit have nothing to tell.
LEMMA NotOwing ==
  ASSUME NEW t, t.pc \notin {"announce", "number", "issue"}, NEW n, NEW w
  PROVE  ~Owing(t, n, w)
BY DEF Owing

\* The account of a conversion comes with a handler that has to tell of it.
LEMMA ReachCommitted ==
  ASSUME TypeInv, ReachInv, NEW r \in Request, CommitConversion(r)
  PROVE  ReachInv'
<1> DEFINE l == task[r].lead
           w == task[r].password
<1>1. /\ TypeOK
      /\ GoodTask(task[r])
      /\ task[r].pc = "commit"
      /\ l \in Lead
      /\ UNCHANGED <<told, faults>>
  BY DEF TypeInv, CommitConversion, At, GoodTask, history, counters
<1>2. /\ Only(r)
      /\ task'[r].pc = IF task[r].fresh THEN "announce" ELSE "number"
      /\ task'[r].lead = l
      /\ task'[r].password = w
      /\ task'[r].fresh = task[r].fresh
  BY <1>1, CommitStep
<1>3. CASE ~task[r].fresh
  <2>1. UNCHANGED accounts
    BY <1>3 DEF CommitConversion
  <2> QED
    BY <1>1, <1>2, <2>1, NotOwing, ReachKept
<1>4. CASE task[r].fresh
  <2>1. accounts' = [accounts EXCEPT ![PhoneOf[l]] = w] /\ PhoneOf[l] \in Phone
    BY <1>1, <1>4, PhoneAssumption DEF CommitConversion
  <2>2. /\ accounts'[PhoneOf[l]] = w
        /\ \A n \in Phone : n # PhoneOf[l] => accounts'[n] = accounts[n]
    BY <1>1, <2>1 DEF TypeOK
  <2>3. Owing(task'[r], PhoneOf[l], w)
    BY <1>2, <1>4 DEF Owing
  <2>4. \A q \in Request : \A n, v : Owing(task[q], n, v) => Owing(task'[q], n, v)
    BY <1>1, <1>2, NotOwing DEF Only
  <2> QED
    BY <1>1, <2>2, <2>3, <2>4 DEF ReachInv
<1> QED
  BY <1>3, <1>4

\* As long as no handler died, a new account's password has been told or is in
\* the hands of the handler that will answer with it.
LEMMA ReachStep == TypeInv /\ ReachInv /\ [Next]_vars => ReachInv'
<1> SUFFICES ASSUME TypeInv, ReachInv, [Next]_vars PROVE ReachInv'
  OBVIOUS
<1> USE DEF rows, history, counters
<1>t. TypeOK /\ \A r \in Request : GoodTask(task[r])
  BY DEF TypeInv
<1>0. ASSUME NEW r \in Request, Only(r), UNCHANGED <<accounts, told, faults>>,
             task[r].pc \notin {"announce", "number", "issue"}
      PROVE  ReachInv'
  BY <1>0, NotOwing, ReachKept
<1>1. ASSUME NEW l \in Lead, CreateLead(l)
      PROVE  ReachInv'
  BY <1>1 DEF CreateLead, ReachInv
<1>2. ASSUME NEW r \in Request, NEW l \in Lead, NEW s \in Statuses, StartMove(r, l, s)
      PROVE  ReachInv'
  <2>1. leadStatus[l] \in Statuses /\ s \in Statuses
    BY <1>t, <1>2 DEF StartMove, TypeOK
  <2>2. {<<l, leadStatus[l]>>} \in SUBSET (Lead \X Statuses)
    BY <2>1
  <2>3. Only(r) /\ task[r].pc = "idle" /\ UNCHANGED <<accounts, told, faults>>
    BY <1>t, <1>2, <2>2, StartWriteStep DEF StartMove, Start, At
  <2> QED
    BY <1>0, <2>3
<1>3. ASSUME NEW r \in Request, NEW L \in SUBSET Lead, StartExpire(r, L)
      PROVE  ReachInv'
  <2> DEFINE seen == {<<l, leadStatus[l]>> : l \in L}
  <2>1. seen \in SUBSET (Lead \X Statuses)
    BY <1>3 DEF StartExpire, Stale, Statuses
  <2>2. Start(r, [Idle EXCEPT !.pc = "write", !.seen = seen, !.to = "tidak_deal"])
    BY <1>3 DEF StartExpire, Idle
  <2>3. "tidak_deal" \in Statuses
    BY DEF Statuses
  <2> HIDE DEF seen
  <2>4. Only(r) /\ task[r].pc = "idle" /\ UNCHANGED <<accounts, told, faults>>
    BY <1>t, <1>3, <2>1, <2>2, <2>3, StartWriteStep DEF StartExpire, Start, At
  <2> QED
    BY <1>0, <2>4
<1>4. ASSUME NEW r \in Request, NEW l \in Lead, StartConvert(r, l)
      PROVE  ReachInv'
  BY <1>t, <1>0, <1>4, StartConvertStep DEF StartConvert, Start, At
<1>5. ASSUME NEW r \in Request, NEW p \in Participant, StartInvoice(r, p)
      PROVE  ReachInv'
  BY <1>t, <1>0, <1>5, StartInvoiceStep DEF StartInvoice, Start, At
<1>6. ASSUME NEW r \in Request, WriteStatus(r)
      PROVE  ReachInv'
  BY <1>t, <1>0, <1>6, FinishStep DEF WriteStatus, At
<1>7. ASSUME NEW r \in Request, LookupAccount(r)
      PROVE  ReachInv'
  <2>1. task[r].pc = "lookup" /\ task[r].lead \in Lead
    BY <1>t, <1>7 DEF LookupAccount, At, GoodTask
  <2> QED
    BY <1>t, <1>0, <1>7, <2>1, LookupStep DEF LookupAccount
<1>8. ASSUME NEW r \in Request, CreateAccount(r)
      PROVE  ReachInv'
  BY <1>t, <1>0, <1>8, CreateStep DEF CreateAccount, At
<1>9. ASSUME NEW r \in Request, SnapshotLead(r)
      PROVE  ReachInv'
  <2>1. task[r].pc = "snapshot" /\ task[r].lead \in Lead
    BY <1>t, <1>9 DEF SnapshotLead, At, GoodTask
  <2> QED
    BY <1>t, <1>0, <1>9, <2>1, SnapshotStep DEF SnapshotLead
<1>10. ASSUME NEW r \in Request, MarkConverted(r)
       PROVE  ReachInv'
  BY <1>t, <1>0, <1>10, GotoStep DEF MarkConverted, At, Labels
<1>11. ASSUME NEW r \in Request, CommitConversion(r)
       PROVE  ReachInv'
  BY <1>11, ReachCommitted
<1>12. ASSUME NEW r \in Request, Announce(r)
       PROVE  ReachInv'
  <2>1. /\ Only(r) /\ task'[r].pc = "number" /\ task'[r].lead = task[r].lead
        /\ task'[r].password = task[r].password /\ task'[r].fresh = task[r].fresh
    BY <1>t, <1>12, GotoStep DEF Announce, Labels
  <2>2. \A n, w : Owing(task[r], n, w) => Owing(task'[r], n, w)
    BY <2>1 DEF Owing
  <2>3. UNCHANGED <<accounts, faults>> /\ told \subseteq told'
    BY <1>12 DEF Announce
  <2> QED
    BY <2>1, <2>2, <2>3, ReachKept
<1>13. ASSUME NEW r \in Request, TakeNumber(r)
       PROVE  ReachInv'
  <2>1. /\ Only(r) /\ task'[r].pc = "issue" /\ task'[r].lead = task[r].lead
        /\ task'[r].password = task[r].password /\ task'[r].fresh = task[r].fresh
    BY <1>t, <1>13, TakeNumberStep
  <2>2. \A n, w : Owing(task[r], n, w) => Owing(task'[r], n, w)
    BY <2>1 DEF Owing
  <2>3. UNCHANGED <<accounts, told, faults>>
    BY <1>13 DEF TakeNumber
  <2> QED
    BY <2>1, <2>2, <2>3, ReachKept
<1>14. ASSUME NEW r \in Request, IssueInvoice(r)
       PROVE  ReachInv'
  <2>1. Only(r) /\ UNCHANGED <<accounts, faults>>
    BY <1>t, <1>14, FinishStep DEF IssueInvoice
  <2>2. told \subseteq told' /\ \A n, w : Owing(task[r], n, w) => <<n, w>> \in told'
    BY <1>14 DEF IssueInvoice, Respond, Owing, PhoneOfTask
  <2> QED
    BY <2>1, <2>2, ReachKept
<1>15. ASSUME NEW r \in Request, Die(r)
       PROVE  ReachInv'
  BY <1>t, <1>15 DEF Die, ReachInv, TypeOK
<1>16. CASE UNCHANGED vars
  BY <1>16 DEF vars, ReachInv
<1>17. ASSUME NEW r \in Request, FailInvoice(r)
       PROVE  ReachInv'
  <2>1. Only(r) /\ UNCHANGED <<accounts, faults>>
    BY <1>t, <1>17, FinishStep DEF FailInvoice
  <2>2. told \subseteq told' /\ \A n, w : Owing(task[r], n, w) => <<n, w>> \in told'
    BY <1>17 DEF FailInvoice, Respond, Owing, PhoneOfTask
  <2> QED
    BY <2>1, <2>2, ReachKept
<1> QED
  BY <1>1, <1>2, <1>3, <1>4, <1>5, <1>6, <1>7, <1>8, <1>9, <1>10, <1>11, <1>12, <1>13,
     <1>14, <1>15, <1>16, <1>17 DEF Next, Handle

\* Unless a handler died, the password of every new account has reached
\* somebody once all handlers are done.
THEOREM NewAccountsReachable == Spec => []AccountIsReachable
<1>1. Init => ReachInv
  BY DEF Init, ReachInv
<1>2. ReachInv => AccountIsReachable
  BY DEF ReachInv, AccountIsReachable, Owing, At
<1> QED
  BY <1>1, <1>2, ReachStep, TypeInvariant, PTL DEF Spec

-----------------------------------------------------------------------------
(* Numbers of invoices.                                                    *)

\* A step adds the invoice of a handler, or leaves the invoices alone.
LEMMA InvoicesStep ==
  ASSUME [Next]_vars
  PROVE  \/ UNCHANGED invoices
         \/ \E r \in Request :
              /\ invoices' = invoices \cup {<<task[r].row, task[r].number>>}
              /\ task[r].number \notin Numbers
<1> USE DEF rows, history, counters
<1>1. ASSUME NEW r \in Request, IssueInvoice(r)
      PROVE  \/ UNCHANGED invoices
             \/ /\ invoices' = invoices \cup {<<task[r].row, task[r].number>>}
                /\ task[r].number \notin Numbers
  BY <1>1 DEF IssueInvoice
<1>2. ASSUME NEW r \in Request,
             \/ \E l \in Lead, s \in Statuses : StartMove(r, l, s)
             \/ \E S \in SUBSET Lead : StartExpire(r, S)
             \/ \E l \in Lead : StartConvert(r, l)
             \/ \E p \in Participant : StartInvoice(r, p)
      PROVE  UNCHANGED invoices
  BY <1>2 DEF StartMove, StartExpire, StartConvert, StartInvoice
<1>3. ASSUME NEW r \in Request,
             \/ WriteStatus(r) \/ LookupAccount(r) \/ CreateAccount(r) \/ SnapshotLead(r)
             \/ MarkConverted(r) \/ CommitConversion(r) \/ Announce(r) \/ TakeNumber(r)
             \/ FailInvoice(r) \/ Die(r)
      PROVE  UNCHANGED invoices
  BY <1>3 DEF WriteStatus, LookupAccount, CreateAccount, SnapshotLead, MarkConverted,
              CommitConversion, Announce, TakeNumber, FailInvoice, Die
<1>4. CASE UNCHANGED vars \/ \E l \in Lead : CreateLead(l)
  BY <1>4 DEF CreateLead, vars
<1> QED
  BY <1>1, <1>2, <1>3, <1>4 DEF Next, Handle

\* There is always a highest number to take the next one from.
HighestNumber == \E m \in Numbers \cup {0} : \A n \in Numbers : n <= m

\* The numbers issued have a maximum: an invoice adds one number to them.
LEMMA HighestNumbers == Spec => []HighestNumber
<1>1. Init => HighestNumber
  BY DEF Init, HighestNumber, Numbers
<1>2. TypeInv /\ HighestNumber /\ [Next]_vars => HighestNumber'
  <2> SUFFICES ASSUME TypeInv, HighestNumber, [Next]_vars PROVE HighestNumber'
    OBVIOUS
  <2>1. CASE UNCHANGED invoices
    BY <2>1 DEF HighestNumber, Numbers
  <2>2. ASSUME NEW r \in Request, invoices' = invoices \cup {<<task[r].row, task[r].number>>}
        PROVE  HighestNumber'
    <3> DEFINE k == task[r].number
    <3>1. k \in Nat /\ Numbers \subseteq Nat
      BY DEF TypeInv, TypeOK, Task, Numbers
    <3>2. Numbers' = Numbers \cup {k}
      <4> DEFINE v == <<task[r].row, k>>
      <4>1. v[2] = k /\ invoices' = invoices \cup {v}
        BY <2>2
      <4> HIDE DEF v, k
      <4> QED
        BY <4>1, Zenon DEF Numbers
    <3>3. PICK m \in Numbers \cup {0} : \A n \in Numbers : n <= m
      BY DEF HighestNumber
    <3>4. CASE k <= m
      BY <3>1, <3>2, <3>3, <3>4 DEF HighestNumber
    <3>5. CASE ~(k <= m)
      BY <3>1, <3>2, <3>3, <3>5 DEF HighestNumber
    <3> QED
      BY <3>4, <3>5
  <2>3. UNCHANGED invoices \/ \E r \in Request :
                                invoices' = invoices \cup {<<task[r].row, task[r].number>>}
    BY InvoicesStep
  <2> QED
    BY <2>1, <2>2, <2>3
<1> QED
  BY <1>1, <1>2, TypeInvariant, PTL DEF Spec

\* The number a handler draws is nobody's yet.
LEMMA NumberFree ==
  ASSUME TypeOK, NEW r \in Request, TakeNumber(r)
  PROVE  task'[r].number \notin Numbers
<1> DEFINE t == task[r]
<1>1. PICK m \in Numbers \cup {0} :
        /\ \A n \in Numbers : n <= m
        /\ task' = [task EXCEPT ![r] = [t EXCEPT !.number = m + 1, !.pc = "issue"]]
  BY DEF TakeNumber
<1>2. m \in Nat /\ Numbers \subseteq Nat /\ t \in Task
  BY DEF TypeOK, Numbers
<1>3. m + 1 \notin Numbers
  BY <1>1, <1>2
<1>4. task'[r].number = m + 1
  BY <1>1, <1>2 DEF TypeOK, Task
<1> QED
  BY <1>3, <1>4

\* Participant p has an invoice, or is excused from having one.
Settled(p) == p \in excused \/ \E n \in Numbers : <<p, n>> \in invoices

\* The handler has p's invoice yet to make.
Bills(t, p) == t.row = p /\ t.pc \in {"announce", "number", "issue"}

\* A participant without an invoice still has a handler that will make one, and
\* a number drawn is free unless the handler that drew it is excused.
BillInv ==
  /\ \A p \in Participant : Exists(p) => Settled(p) \/ \E r \in Request : Bills(task[r], p)
  /\ \A r \in Request :
       At(r, "issue") => task[r].number \notin Numbers \/ task[r].row \in excused

\* A step in which no invoice is written keeps the invariant, if its handler goes
\* on towards the invoice it has to make, draws a free number, and excuses
\* whomever it leaves.
LEMMA BillKept ==
  ASSUME BillInv, NEW r \in Request, Only(r), UNCHANGED <<participants, invoices>>,
         excused \subseteq excused',
         \A p \in Participant :
           Bills(task[r], p) => Bills(task'[r], p) \/ p \in excused' \/ Settled(p),
         task'[r].pc = "issue" => task'[r].number \notin Numbers
  PROVE  BillInv'
<1>1. Numbers' = Numbers
  BY DEF Numbers
<1>2. \A p \in Participant : Settled(p) => Settled(p)'
  BY <1>1 DEF Settled
<1>3. \A p \in Participant : Exists(p)' =>
        Settled(p)' \/ \E q \in Request : Bills(task'[q], p)
  <2> SUFFICES ASSUME NEW p \in Participant, Exists(p)', ~Settled(p)'
               PROVE  \E q \in Request : Bills(task'[q], p)
    OBVIOUS
  <2>1. Exists(p) /\ ~Settled(p) /\ p \notin excused'
    BY <1>2 DEF Exists, Settled
  <2>2. PICK q \in Request : Bills(task[q], p)
    BY <2>1 DEF BillInv
  <2> QED
    BY <2>1, <2>2 DEF Only
<1>4. \A q \in Request :
        task'[q].pc = "issue" => task'[q].number \notin Numbers' \/ task'[q].row \in excused'
  BY <1>1 DEF BillInv, Only, At
<1> QED
  BY <1>3, <1>4 DEF BillInv, At, Bills

\* A step of a handler that has no invoice to make keeps the invariant too.
LEMMA BillFree ==
  ASSUME BillInv, NEW r \in Request, Only(r),
         UNCHANGED <<participants, invoices, excused>>,
         task[r].pc \notin {"announce", "number", "issue"}, task'[r].pc # "issue"
  PROVE  BillInv'
BY BillKept DEF Bills

\* A handler that gives the invoice up excuses its participant.
LEMMA BillGivenUp ==
  ASSUME TypeInv, BillInv, NEW r \in Request, Finish(r),
         UNCHANGED <<participants, invoices>>,
         excused' = excused \cup ({task[r].row} \ {Null})
  PROVE  BillInv'
<1>1. Only(r) /\ task'[r] = Idle /\ Idle.pc # "issue"
  BY FinishStep, IdleType DEF TypeInv
<1>2. \A p \in Participant : Bills(task[r], p) => p \in excused'
  BY NullAssumption DEF Bills
<1> QED
  BY <1>1, <1>2, BillKept

\* A conversion commits: the handler that converted the lead has the invoice of
\* the new participant to make.
LEMMA BillCommitted ==
  ASSUME TypeInv, BillInv, NEW r \in Request, CommitConversion(r)
  PROVE  BillInv'
<1>1. /\ TypeOK /\ GoodTask(task[r]) /\ task[r].lead \in Lead /\ task[r].pc = "commit"
      /\ UNCHANGED <<invoices, excused>>
  BY DEF TypeInv, CommitConversion, At, GoodTask, history
<1>2. PICK p \in Participant :
        /\ \A q \in Participant : q # p => participants'[q] = participants[q]
        /\ Only(r)
        /\ task'[r].row = p
        /\ task'[r].pc = IF task[r].fresh THEN "announce" ELSE "number"
  BY <1>1, CommitStep
<1>3. Numbers' = Numbers /\ \A q \in Participant : Settled(q) => Settled(q)'
  BY <1>1 DEF Numbers, Settled
<1>4. \A q \in Participant : Bills(task[r], q) => FALSE
  BY <1>1 DEF Bills
<1>5. \A q \in Participant : Exists(q)' =>
        Settled(q)' \/ \E o \in Request : Bills(task'[o], q)
  <2> SUFFICES ASSUME NEW q \in Participant, Exists(q)'
               PROVE  Settled(q)' \/ \E o \in Request : Bills(task'[o], q)
    OBVIOUS
  <2>1. CASE q = p
    BY <1>2, <2>1 DEF Bills
  <2>2. CASE q # p
    BY <1>2, <1>3, <1>4, <2>2 DEF BillInv, Exists, Only
  <2> QED
    BY <2>1, <2>2
<1>6. \A q \in Request :
        task'[q].pc = "issue" => task'[q].number \notin Numbers' \/ task'[q].row \in excused'
  BY <1>1, <1>2, <1>3 DEF BillInv, Only, At
<1> QED
  BY <1>5, <1>6 DEF BillInv, At, Bills

\* An invoice is written, or refused because its number is taken: then another
\* handler took it while this one held it, and excused it.
LEMMA BillIssued ==
  ASSUME TypeInv, BillInv, NEW r \in Request, IssueInvoice(r)
  PROVE  BillInv'
<1>1. /\ task[r].pc = "issue" /\ task[r].row \in Participant
      /\ Only(r) /\ task'[r] = Idle /\ Idle.pc = "idle"
      /\ UNCHANGED participants
  BY FinishStep, IdleType DEF TypeInv, IssueInvoice, At, GoodTask
<1>2. CASE task[r].number \in Numbers /\ UNCHANGED <<invoices, excused>>
  <2>1. task[r].row \in excused
    BY <1>1, <1>2 DEF BillInv, At
  <2> QED
    BY <1>1, <1>2, <2>1, BillKept DEF Bills
<1>3. CASE /\ task[r].number \notin Numbers
           /\ invoices' = invoices \cup {<<task[r].row, task[r].number>>}
           /\ excused' = excused \cup Rivals(r)
  <2> DEFINE k == task[r].number
             v == <<task[r].row, k>>
  <2>1. Numbers' = Numbers \cup {k} /\ v \in invoices' /\ invoices \subseteq invoices'
    <3>1. v[2] = k /\ invoices' = invoices \cup {v}
      BY <1>3
    <3> HIDE DEF v, k
    <3> QED
      BY <3>1, Zenon DEF Numbers
  <2>2. \A p \in Participant : Settled(p) => Settled(p)'
    BY <1>3, <2>1 DEF Settled
  <2>3. \A p \in Participant : p = task[r].row => Settled(p)'
    BY <2>1 DEF Settled
  <2>4. \A p \in Participant : Exists(p)' =>
          Settled(p)' \/ \E q \in Request : Bills(task'[q], p)
    <3> SUFFICES ASSUME NEW p \in Participant, Exists(p)', ~Settled(p)'
                 PROVE  \E q \in Request : Bills(task'[q], p)
      OBVIOUS
    <3>1. Exists(p) /\ ~Settled(p) /\ p # task[r].row
      BY <1>1, <2>2, <2>3 DEF Exists
    <3>2. PICK q \in Request : Bills(task[q], p)
      BY <3>1 DEF BillInv
    <3>3. q # r
      BY <3>1, <3>2 DEF Bills
    <3> QED
      BY <1>1, <3>2, <3>3 DEF Only
  <2>5. \A q \in Request :
          task'[q].pc = "issue" => task'[q].number \notin Numbers' \/ task'[q].row \in excused'
    <3> SUFFICES ASSUME NEW q \in Request, task'[q].pc = "issue"
                 PROVE  task'[q].number \notin Numbers' \/ task'[q].row \in excused'
      OBVIOUS
    <3>1. q # r /\ task'[q] = task[q]
      BY <1>1 DEF Only
    <3>2. CASE task[q].number = k
      <4>1. task[q].row \in Rivals(r)
        BY <3>1, <3>2 DEF Rivals, At
      <4> QED
        BY <1>3, <3>1, <4>1
    <3>3. CASE task[q].number # k
      <4>1. task[q].number \notin Numbers \/ task[q].row \in excused
        BY <3>1 DEF BillInv, At
      <4> QED
        BY <1>3, <2>1, <3>1, <3>3, <4>1
    <3> QED
      BY <3>2, <3>3
  <2> QED
    BY <2>4, <2>5 DEF BillInv, At, Bills
<1> QED
  BY <1>2, <1>3 DEF IssueInvoice

\* Every step keeps track of who has an invoice to make.
LEMMA BillStep == TypeInv /\ HighestNumber /\ BillInv /\ [Next]_vars => BillInv'
<1> SUFFICES ASSUME TypeInv, HighestNumber, BillInv, [Next]_vars PROVE BillInv'
  OBVIOUS
<1> USE DEF rows, history, counters
<1>t. TypeOK /\ \A r \in Request : GoodTask(task[r])
  BY DEF TypeInv
<1>1. ASSUME NEW l \in Lead, CreateLead(l)
      PROVE  BillInv'
  BY <1>1 DEF CreateLead, BillInv, Settled, Numbers, Exists, At, Bills
<1>2. ASSUME NEW r \in Request, NEW l \in Lead, NEW s \in Statuses, StartMove(r, l, s)
      PROVE  BillInv'
  <2>1. leadStatus[l] \in Statuses /\ s \in Statuses
    BY <1>t, <1>2 DEF StartMove, TypeOK
  <2>2. {<<l, leadStatus[l]>>} \in SUBSET (Lead \X Statuses)
    BY <2>1
  <2>3. Only(r) /\ task[r].pc = "idle" /\ task'[r].pc = "write"
    BY <1>t, <1>2, <2>2, StartWriteStep DEF StartMove, Start, At
  <2> QED
    BY <1>2, <2>3, BillFree DEF StartMove
<1>3. ASSUME NEW r \in Request, NEW L \in SUBSET Lead, StartExpire(r, L)
      PROVE  BillInv'
  <2> DEFINE seen == {<<l, leadStatus[l]>> : l \in L}
  <2>1. seen \in SUBSET (Lead \X Statuses)
    BY <1>3 DEF StartExpire, Stale, Statuses
  <2>2. Start(r, [Idle EXCEPT !.pc = "write", !.seen = seen, !.to = "tidak_deal"])
    BY <1>3 DEF StartExpire, Idle
  <2>3. "tidak_deal" \in Statuses
    BY DEF Statuses
  <2> HIDE DEF seen
  <2>4. Only(r) /\ task[r].pc = "idle" /\ task'[r].pc = "write"
    BY <1>t, <2>1, <2>2, <2>3, StartWriteStep DEF Start, At
  <2> QED
    BY <1>3, <2>4, BillFree DEF StartExpire
<1>4. ASSUME NEW r \in Request, NEW l \in Lead, StartConvert(r, l)
      PROVE  BillInv'
  BY <1>t, <1>4, StartConvertStep, BillFree DEF StartConvert, Start, At
<1>5. ASSUME NEW r \in Request, NEW p \in Participant, StartInvoice(r, p)
      PROVE  BillInv'
  BY <1>t, <1>5, StartInvoiceStep, BillFree DEF StartInvoice, Start, At
<1>6. ASSUME NEW r \in Request, WriteStatus(r)
      PROVE  BillInv'
  BY <1>t, <1>6, FinishStep, IdleType, BillFree DEF WriteStatus, At
<1>7. ASSUME NEW r \in Request, LookupAccount(r)
      PROVE  BillInv'
  <2>1. task[r].pc = "lookup" /\ task[r].lead \in Lead
    BY <1>t, <1>7 DEF LookupAccount, At, GoodTask
  <2>2. Only(r) /\ task'[r].pc # "issue"
    BY <1>t, <1>7, <2>1, LookupStep
  <2> QED
    BY <1>7, <2>1, <2>2, BillFree DEF LookupAccount
<1>8. ASSUME NEW r \in Request, CreateAccount(r)
      PROVE  BillInv'
  <2>1. Only(r) /\ task[r].pc = "create" /\ task'[r].pc # "issue"
    BY <1>t, <1>8, CreateStep, IdleType DEF CreateAccount, At
  <2> QED
    BY <1>8, <2>1, BillFree DEF CreateAccount
<1>9. ASSUME NEW r \in Request, SnapshotLead(r)
      PROVE  BillInv'
  <2>1. task[r].pc = "snapshot" /\ task[r].lead \in Lead
    BY <1>t, <1>9 DEF SnapshotLead, At, GoodTask
  <2>2. Only(r) /\ task'[r].pc # "issue"
    BY <1>t, <1>9, <2>1, SnapshotStep, IdleType
  <2> QED
    BY <1>9, <2>1, <2>2, BillFree DEF SnapshotLead
<1>10. ASSUME NEW r \in Request, MarkConverted(r)
       PROVE  BillInv'
  <2>1. task[r].pc = "mark" /\ Goto(r, "commit") /\ "commit" \in Labels
    BY <1>10 DEF MarkConverted, At, Labels
  <2> QED
    BY <1>t, <1>10, <2>1, GotoStep, BillFree DEF MarkConverted
<1>11. ASSUME NEW r \in Request, CommitConversion(r)
       PROVE  BillInv'
  BY <1>11, BillCommitted
<1>12. ASSUME NEW r \in Request, Announce(r)
       PROVE  BillInv'
  <2>1. /\ Only(r) /\ task'[r].pc = "number" /\ task'[r].row = task[r].row
        /\ UNCHANGED <<participants, invoices, excused>>
    BY <1>t, <1>12, GotoStep DEF Announce, Labels
  <2>2. \A p \in Participant : Bills(task[r], p) => Bills(task'[r], p)
    BY <2>1 DEF Bills
  <2> QED
    BY <2>1, <2>2, BillKept
<1>13. ASSUME NEW r \in Request, TakeNumber(r)
       PROVE  BillInv'
  <2>1. /\ Only(r) /\ task'[r].pc = "issue" /\ task'[r].row = task[r].row
        /\ UNCHANGED <<participants, invoices, excused>>
        /\ task'[r].number \notin Numbers
    BY <1>t, <1>13, TakeNumberStep, NumberFree DEF TakeNumber
  <2>2. \A p \in Participant : Bills(task[r], p) => Bills(task'[r], p)
    BY <2>1 DEF Bills
  <2> QED
    BY <2>1, <2>2, BillKept
<1>14. ASSUME NEW r \in Request, IssueInvoice(r)
       PROVE  BillInv'
  BY <1>14, BillIssued
<1>15. ASSUME NEW r \in Request, Die(r)
       PROVE  BillInv'
  BY <1>15, BillGivenUp DEF Die
<1>16. CASE UNCHANGED vars
  BY <1>16 DEF vars, BillInv, Settled, Numbers, Exists, At, Bills
<1>17. ASSUME NEW r \in Request, FailInvoice(r)
       PROVE  BillInv'
  <2>1. task[r].row \in Participant
    BY <1>17, <1>t DEF FailInvoice, GoodTask
  <2>2. excused' = excused \cup ({task[r].row} \ {Null})
    BY <1>17, <2>1, NullAssumption DEF FailInvoice
  <2> QED
    BY <1>17, <2>2, BillGivenUp DEF FailInvoice
<1> QED
  BY <1>1, <1>2, <1>3, <1>4, <1>5, <1>6, <1>7, <1>8, <1>9, <1>10, <1>11, <1>12, <1>13,
     <1>14, <1>15, <1>16, <1>17 DEF Next, Handle

\* A converted participant is left without an invoice only by a dead handler, a
\* failing statement, or another invoice that overtook this one: drawn and used
\* in peace, the next number of the month is always free.
THEOREM ConversionsAreBilled == Spec => []ConvertedIsBilled
<1>1. Init => BillInv
  BY IdleType DEF Init, BillInv, Exists, NoRow, At
<1>2. BillInv => ConvertedIsBilled
  BY DEF BillInv, ConvertedIsBilled, Settled, Bills
<1> QED
  BY <1>1, <1>2, BillStep, HighestNumbers, TypeInvariant, PTL DEF Spec

-----------------------------------------------------------------------------
(* One lead, one participant: what the promise of the code takes.          *)

\* Nobody else left the number of lead l, and it had no account.
OwnPhone(l) ==
  /\ PhoneOf[l] \notin Known
  /\ \A m \in Lead : PhoneOf[m] = PhoneOf[l] => m = l

\* A first customer's lead becomes one participant, with or without an account
\* of its own: returning customers are the ones a race may convert twice.
FirstCustomerOnce ==
  \A p, q \in Participant :
    /\ Exists(p)
    /\ participants[q].lead = participants[p].lead
    /\ participants[p].lead \notin reopened
    /\ OwnPhone(participants[p].lead)
    => p = q

\* MarkConverted and the unique phone keep "one lead becomes at most one
\* participant" for every lead whose phone is its own, however many handlers
\* convert it at the same time.
THEOREM FirstCustomersConvertOnce == Spec => []FirstCustomerOnce
<1>1. ConversionInv /\ FreshOwner => FirstCustomerOnce
  <2> SUFFICES ASSUME ConversionInv, FreshOwner,
                      NEW p \in Participant, NEW q \in Participant,
                      Exists(p), participants[q].lead = participants[p].lead,
                      participants[p].lead \notin reopened, OwnPhone(participants[p].lead)
               PROVE  p = q
    BY DEF FirstCustomerOnce
  <2> DEFINE l == participants[p].lead
  <2>1. l \in Lead /\ PhoneOf[l] \in Phone \ Known
    BY PhoneAssumption DEF ConversionInv, TypeInv, TypeOK, Row, Exists, OwnPhone
  <2>2. accounts[PhoneOf[l]] \in Password
    BY DEF ConversionInv, TypeInv, PasswordsAgree
  <2>3. PICK o \in Participant :
          Exists(o) /\ participants[o].fresh /\ PhoneOf[participants[o].lead] = PhoneOf[l]
    BY <2>1, <2>2, NullAssumption DEF FreshOwner
  <2>4. participants[o].lead = l
    BY <2>3 DEF ConversionInv, TypeInv, TypeOK, Row, Exists, OwnPhone
  <2>5. o = p /\ o = q
    BY <2>3, <2>4 DEF ConversionInv, NewCustomerOnce
  <2> QED
    BY <2>5
<1> QED
  BY <1>1, ConversionInvariant, FreshOwners, PTL

\* A lead that has a participant is "peserta" until somebody moves it, and one
\* about to be marked is still the deal its handler saw.
MarkInv ==
  /\ \A p \in Participant :
       Exists(p) /\ participants[p].lead \notin reopened
         => leadStatus[participants[p].lead] = "peserta"
  /\ \A r \in Request :
       task[r].pc \in {"mark", "commit"} => leadStatus[task[r].lead] = "deal"

\* With one handler at a time nothing moves a lead between the snapshot that
\* finds it a deal and the commit that makes it a participant.
LEMMA MarkStep ==
  ASSUME \A q, r \in Request : q = r
  PROVE  TypeInv /\ MarkInv /\ OneParticipantPerLead /\ [Next]_vars
           => MarkInv' /\ OneParticipantPerLead'
<1> SUFFICES ASSUME TypeInv, MarkInv, OneParticipantPerLead, [Next]_vars
             PROVE  MarkInv' /\ OneParticipantPerLead'
  OBVIOUS
<1> USE DEF rows, history, counters
<1>t. TypeOK /\ \A r \in Request : GoodTask(task[r])
  BY DEF TypeInv
<1>0. ASSUME NEW r \in Request, UNCHANGED <<leadStatus, participants, reopened>>,
             task'[r].pc \in {"mark", "commit"} => leadStatus[task'[r].lead] = "deal"
      PROVE  MarkInv' /\ OneParticipantPerLead'
  BY <1>0 DEF MarkInv, OneParticipantPerLead, Exists
<1>1. ASSUME NEW l \in Lead, CreateLead(l)
      PROVE  MarkInv' /\ OneParticipantPerLead'
  <2>1. /\ UNCHANGED <<participants, reopened, task>>
        /\ \A m : leadStatus[m] \in {"deal", "peserta"} => leadStatus'[m] = leadStatus[m]
    BY <1>1, <1>t, NullAssumption DEF CreateLead, TypeOK, Statuses
  <2> QED
    BY <2>1 DEF MarkInv, OneParticipantPerLead, Exists
<1>2. ASSUME NEW r \in Request, NEW l \in Lead, NEW s \in Statuses, StartMove(r, l, s)
      PROVE  MarkInv' /\ OneParticipantPerLead'
  <2>1. leadStatus[l] \in Statuses /\ s \in Statuses
    BY <1>t, <1>2 DEF StartMove, TypeOK
  <2>2. {<<l, leadStatus[l]>>} \in SUBSET (Lead \X Statuses)
    BY <2>1
  <2>3. task'[r].pc = "write"
    BY <1>t, <1>2, <2>2, StartWriteStep DEF StartMove
  <2> QED
    BY <1>0, <1>2, <2>3 DEF StartMove
<1>3. ASSUME NEW r \in Request, NEW L \in SUBSET Lead, StartExpire(r, L)
      PROVE  MarkInv' /\ OneParticipantPerLead'
  <2> DEFINE seen == {<<l, leadStatus[l]>> : l \in L}
  <2>1. seen \in SUBSET (Lead \X Statuses)
    BY <1>3 DEF StartExpire, Stale, Statuses
  <2>2. Start(r, [Idle EXCEPT !.pc = "write", !.seen = seen, !.to = "tidak_deal"])
    BY <1>3 DEF StartExpire, Idle
  <2>3. "tidak_deal" \in Statuses
    BY DEF Statuses
  <2> HIDE DEF seen
  <2>4. task'[r].pc = "write"
    BY <1>t, <2>1, <2>2, <2>3, StartWriteStep
  <2> QED
    BY <1>0, <1>3, <2>4 DEF StartExpire
<1>4. ASSUME NEW r \in Request, NEW l \in Lead, StartConvert(r, l)
      PROVE  MarkInv' /\ OneParticipantPerLead'
  BY <1>t, <1>0, <1>4, StartConvertStep DEF StartConvert
<1>5. ASSUME NEW r \in Request, NEW p \in Participant, StartInvoice(r, p)
      PROVE  MarkInv' /\ OneParticipantPerLead'
  BY <1>t, <1>0, <1>5, StartInvoiceStep DEF StartInvoice
<1>6. ASSUME NEW r \in Request, WriteStatus(r)
      PROVE  MarkInv' /\ OneParticipantPerLead'
  <2>1. task'[r] = Idle /\ UNCHANGED participants
    BY <1>6, <1>t, FinishStep DEF WriteStatus
  <2>2. \A p \in Participant : Exists(p) => participants[p].lead \in Lead
    BY <1>t DEF Exists, TypeOK, Row
  <2>3. reopened \subseteq reopened'
    BY <1>6 DEF WriteStatus
  <2>4. \A l \in Lead : leadStatus[l] = "peserta" /\ l \notin reopened' => leadStatus'[l] = "peserta"
    BY <1>6 DEF WriteStatus
  <2>5. \A p \in Participant :
          Exists(p) /\ participants[p].lead \notin reopened'
            => leadStatus'[participants[p].lead] = "peserta"
    BY <2>2, <2>3, <2>4 DEF MarkInv
  <2> QED
    BY <2>1, <2>3, <2>5, IdleType DEF MarkInv, OneParticipantPerLead, Exists
<1>7. ASSUME NEW r \in Request, LookupAccount(r)
      PROVE  MarkInv' /\ OneParticipantPerLead'
  <2>1. task[r].lead \in Lead
    BY <1>7, <1>t DEF LookupAccount, At, GoodTask
  <2> QED
    BY <1>t, <1>0, <1>7, <2>1, LookupStep DEF LookupAccount
<1>8. ASSUME NEW r \in Request, CreateAccount(r)
      PROVE  MarkInv' /\ OneParticipantPerLead'
  BY <1>t, <1>0, <1>8, CreateStep, IdleType DEF CreateAccount
<1>9. ASSUME NEW r \in Request, SnapshotLead(r)
      PROVE  MarkInv' /\ OneParticipantPerLead'
  <2>1. task[r].lead \in Lead
    BY <1>9, <1>t DEF SnapshotLead, At, GoodTask
  <2> QED
    BY <1>t, <1>0, <1>9, <2>1, SnapshotStep, IdleType DEF SnapshotLead
<1>10. ASSUME NEW r \in Request, MarkConverted(r)
       PROVE  MarkInv' /\ OneParticipantPerLead'
  <2>1. task[r].pc = "mark" /\ Goto(r, "commit") /\ "commit" \in Labels
    BY <1>10 DEF MarkConverted, At, Labels
  <2>2. leadStatus[task'[r].lead] = "deal"
    BY <1>t, <2>1, GotoStep DEF MarkInv
  <2> QED
    BY <1>0, <1>10, <2>2 DEF MarkConverted
<1>11. ASSUME NEW r \in Request, CommitConversion(r)
       PROVE  MarkInv' /\ OneParticipantPerLead'
  <2> DEFINE l == task[r].lead
  <2>1. /\ task[r].pc = "commit"
        /\ l \in Lead
        /\ leadStatus[l] = "deal"
        /\ leadStatus' = [leadStatus EXCEPT ![l] = "peserta"]
        /\ UNCHANGED reopened
    BY <1>11, <1>t DEF CommitConversion, At, GoodTask, MarkInv
  <2>2. PICK p \in Participant :
          /\ ~Exists(p)
          /\ participants'[p].lead = l
          /\ \A q \in Participant : q # p => participants'[q] = participants[q]
          /\ task'[r].pc = IF task[r].fresh THEN "announce" ELSE "number"
    BY <1>11, <1>t, CommitStep
  <2>3. \A m \in Lead : leadStatus[m] = "peserta" \/ m = l => leadStatus'[m] = "peserta"
    BY <1>t, <2>1 DEF TypeOK
  <2>4. \A q \in Participant : Exists(q) => participants[q].lead \in Lead
    BY <1>t DEF Exists, TypeOK, Row
  <2>5. \A q \in Participant : Exists(q) /\ participants[q].lead \notin reopened
          => participants[q].lead # l
    BY <2>1 DEF MarkInv
  <2>6. MarkInv'
    BY <2>1, <2>2, <2>3, <2>4 DEF MarkInv, Exists
  <2>7. l # Null
    BY <2>1, NullAssumption
  <2>8. OneParticipantPerLead'
    <3> SUFFICES ASSUME NEW x \in Participant, NEW y \in Participant,
                        Exists(x)', participants'[y].lead = participants'[x].lead,
                        participants'[x].lead \notin reopened
                 PROVE  x = y
      BY <2>1 DEF OneParticipantPerLead
    <3>1. \A q \in Participant : q # p /\ Exists(q)' =>
            Exists(q) /\ participants'[q].lead = participants[q].lead
      BY <2>2 DEF Exists
    <3>2. Exists(y)'
      BY DEF Exists
    <3>3. CASE x # p /\ y # p
      BY <3>1, <3>2, <3>3 DEF OneParticipantPerLead
    <3>4. CASE x = p /\ y # p
      BY <2>2, <2>5, <3>1, <3>2, <3>4
    <3>5. CASE x # p /\ y = p
      BY <2>2, <2>5, <3>1, <3>2, <3>5
    <3> QED
      BY <3>3, <3>4, <3>5
  <2> QED
    BY <2>6, <2>8
<1>12. ASSUME NEW r \in Request, Announce(r)
       PROVE  MarkInv' /\ OneParticipantPerLead'
  BY <1>t, <1>0, <1>12, GotoStep DEF Announce, Labels
<1>13. ASSUME NEW r \in Request, TakeNumber(r)
       PROVE  MarkInv' /\ OneParticipantPerLead'
  BY <1>t, <1>0, <1>13, TakeNumberStep DEF TakeNumber
<1>14. ASSUME NEW r \in Request, IssueInvoice(r)
       PROVE  MarkInv' /\ OneParticipantPerLead'
  BY <1>t, <1>0, <1>14, FinishStep, IdleType DEF IssueInvoice
<1>15. ASSUME NEW r \in Request, Die(r)
       PROVE  MarkInv' /\ OneParticipantPerLead'
  BY <1>t, <1>0, <1>15, FinishStep, IdleType DEF Die
<1>16. CASE UNCHANGED vars
  BY <1>16 DEF vars, MarkInv, OneParticipantPerLead, Exists
<1>17. ASSUME NEW r \in Request, FailInvoice(r)
       PROVE  MarkInv' /\ OneParticipantPerLead'
  BY <1>t, <1>0, <1>17, FinishStep, IdleType DEF FailInvoice
<1> QED
  BY <1>1, <1>2, <1>3, <1>4, <1>5, <1>6, <1>7, <1>8, <1>9, <1>10, <1>11, <1>12, <1>13,
     <1>14, <1>15, <1>16, <1>17 DEF Next, Handle

\* When conversions, moves and expiries never overlap, "one lead becomes at most
\* one participant" holds of every customer, as the comment on MarkConverted says:
\* what breaks it is nothing but two handlers that have both seen the deal.
THEOREM SerialConvertsOnce ==
  ASSUME \A q, r \in Request : q = r
  PROVE  Spec => []OneParticipantPerLead
<1>1. Init => MarkInv /\ OneParticipantPerLead
  BY DEF Init, MarkInv, OneParticipantPerLead, Exists, NoRow, Idle
<1> QED
  BY <1>1, MarkStep, TypeInvariant, PTL DEF Spec

-----------------------------------------------------------------------------
(* Handlers that wait for each other.                                      *)

InFlight == {r \in Request : ~At(r, "idle")}

\* The handlers whose open unit keeps the next statement of r waiting: for the
\* row of a lead that was marked, or for a phone that was inserted.
WaitsFor(r) ==
  {q \in Request :
     \/ At(r, "write") /\ At(q, "commit") /\ task[q].lead \in SeenLeads(r)
     \/ At(r, "create") /\ Holds(q, PhoneOfTask(r))
     \/ At(r, "mark") /\ At(q, "commit") /\ task[q].lead = task[r].lead}

\* An instance that still has a password and a row for the next participant.
Supplied ==
  /\ \E w \in Password \ {OldPassword} :
       /\ \A q \in Request : task[q].password # w
       /\ \A n \in Phone : accounts[n] # w
  /\ \E p \in Participant : ~Exists(p)

\* Handle(r) is enabled: what its disjuncts ask of the state before the step.
Ready(r) ==
  \/ At(r, "write") /\ \A l \in SeenLeads(r) : ~Locked(l)
  \/ /\ At(r, "lookup")
     /\ \/ accounts[PhoneOfTask(r)] # Null
        \/ \E w \in Password \ {OldPassword} :
             /\ \A q \in Request : task[q].password # w
             /\ \A n \in Phone : accounts[n] # w
  \/ At(r, "create") /\ \A q \in Request : ~Holds(q, PhoneOfTask(r))
  \/ At(r, "snapshot")
  \/ At(r, "mark") /\ ~Locked(task[r].lead)
  \/ At(r, "commit") /\ \E p \in Participant : ~Exists(p)
  \/ At(r, "announce")
  \/ At(r, "number") /\ \E m \in Numbers \cup {0} : \A n \in Numbers : n <= m
  \/ At(r, "issue")

\* Among any handlers in flight one waits for none of the others: a unit that
\* has marked its lead waits for nobody, one that is about to mark it waits only
\* for those, and nobody else holds a phone.
LEMMA NoCircularWait ==
  ASSUME NEW S \in SUBSET InFlight, S # {}
  PROVE  \E r \in S : WaitsFor(r) \cap S = {}
<1>1. CASE \E r \in S : At(r, "commit")
  BY <1>1 DEF WaitsFor, At
<1>2. CASE /\ ~\E r \in S : At(r, "commit")
           /\ \E r \in S : task[r].pc \in {"snapshot", "mark"}
  BY <1>2 DEF WaitsFor, At
<1>3. CASE ~\E r \in S : task[r].pc \in {"snapshot", "mark", "commit"}
  BY <1>3 DEF WaitsFor, At, Holds
<1> QED
  BY <1>1, <1>2, <1>3 DEF At

\* As long as a handler is in flight one of them can go on.
SomebodyIsReady == Supplied /\ InFlight # {} => \E r \in InFlight : Ready(r)

\* Handlers that wait for each other's phone and lead never wait in a circle, so
\* that as long as one is in flight, and ids are left, one of them can go on.
THEOREM SomebodyIsAlwaysReady == Spec => []SomebodyIsReady
<1>1. TypeInv /\ HighestNumber => SomebodyIsReady
  <2> SUFFICES ASSUME TypeInv, HighestNumber, Supplied, InFlight # {}
               PROVE  \E r \in InFlight : Ready(r)
    BY DEF SomebodyIsReady
  <2>1. PICK r \in InFlight : WaitsFor(r) \cap InFlight = {}
    BY NoCircularWait
  <2>2. \A q \in Request : At(q, "commit") \/ task[q].pc \in {"snapshot", "mark", "commit"}
                             => q \in InFlight
    BY DEF InFlight, At
  <2>3. WaitsFor(r) = {}
    BY <2>1, <2>2 DEF WaitsFor, Holds
  <2>4. r \in Request /\ task[r].pc \in Labels \ {"idle"}
    BY DEF InFlight, At, TypeInv, TypeOK, Task
  <2>5. At(r, "write") => \A l \in SeenLeads(r) : ~Locked(l)
    BY <2>3 DEF WaitsFor, Locked
  <2>6. At(r, "create") => \A q \in Request : ~Holds(q, PhoneOfTask(r))
    BY <2>3 DEF WaitsFor
  <2>7. At(r, "mark") => ~Locked(task[r].lead)
    BY <2>3 DEF WaitsFor, Locked
  <2>8. Ready(r)
    BY <2>4, <2>5, <2>6, <2>7 DEF Ready, Supplied, HighestNumber, At, Labels
  <2> QED
    BY <2>8
<1> QED
  BY <1>1, TypeInvariant, HighestNumbers, PTL
=============================================================================
