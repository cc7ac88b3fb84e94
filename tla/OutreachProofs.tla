--------------------------- MODULE OutreachProofs ---------------------------
(***************************************************************************)
(* Theorems about Outreach, for any number of goroutines, numbers, leads,  *)
(* invoices, travellers, departures and packages.                          *)
(*                                                                         *)
(* BaseInv is common to all of them: PlacesInv says where a goroutine can  *)
(* be and with what, LogsInv what the chats hold, FlightsInv what is known *)
(* of a row while it is being sent, TimeInv the clock.  On top of it,      *)
(* MemoryInv says what a run of a job still owes, and that nothing of it   *)
(* has been sent; WarnInv that every warning has its mark, or a goroutine  *)
(* on its way to write it; ReplyInv that a reply is in the log before      *)
(* it is sent; CatalogueInv what the edits of packages and departures have *)
(* read; AnswerInv counts questions, replies and messages.                 *)
(***************************************************************************)
EXTENDS Outreach, SequenceTheorems, FiniteSetTheorems, TLAPS

-----------------------------------------------------------------------------
(* The jobs.                                                               *)

JobTypes == DOMAIN JobNamed

\* What the jobs are, one by one.
LEMMA JobFields ==
  /\ checkStaleLeads.type = "LEADS_STALE"
  /\ checkStaleLeads.of = Lead
  /\ checkStaleLeads.memory = "window"
  /\ checkStaleLeads.limited = TRUE
  /\ expireInvoices.type = "PAYMENT_OVERDUE"
  /\ expireInvoices.of = Invoice
  /\ expireInvoices.memory = "window"
  /\ expireInvoices.limited = TRUE
  /\ checkBatchQuota.type = "QUOTA_WARNING"
  /\ checkBatchQuota.of = Batch
  /\ checkBatchQuota.memory = "day"
  /\ checkBatchQuota.limited = TRUE
  /\ sendPaymentReminders.type = "PAYMENT_REMINDER"
  /\ sendPaymentReminders.of = Invoice
  /\ sendPaymentReminders.memory = "day"
  /\ sendPaymentReminders.limited = FALSE
  /\ sendDepartureReminders.type = "REMINDER"
  /\ sendDepartureReminders.of = Traveller
  /\ sendDepartureReminders.memory = "none"
  /\ sendDepartureReminders.limited = FALSE
  /\ activateBriefing.type = "REMINDER_H14"
  /\ activateBriefing.of = Traveller
  /\ activateBriefing.memory = "none"
  /\ activateBriefing.limited = FALSE
  /\ sendAirportInfo.type = "DEPARTURE_CONFIRM"
  /\ sendAirportInfo.of = Traveller
  /\ sendAirportInfo.memory = "none"
  /\ sendAirportInfo.limited = FALSE
BY DEF Job, checkStaleLeads, expireInvoices, checkBatchQuota, sendPaymentReminders,
       sendDepartureReminders, activateBriefing, sendAirportInfo

\* The name of each job finds it.
LEMMA JobNames ==
  /\ JobTypes = {"LEADS_STALE", "PAYMENT_OVERDUE", "QUOTA_WARNING", "PAYMENT_REMINDER",
                 "REMINDER", "REMINDER_H14", "DEPARTURE_CONFIRM"}
  /\ \A j \in Jobs : j.type \in JobTypes /\ JobNamed[j.type] = j
  /\ \A type \in JobTypes : JobNamed[type] \in Jobs /\ JobNamed[type].type = type
<1> DEFINE names == {"LEADS_STALE", "PAYMENT_OVERDUE", "QUOTA_WARNING", "PAYMENT_REMINDER",
                     "REMINDER", "REMINDER_H14", "DEPARTURE_CONFIRM"}
<1>1. {j.type : j \in Jobs} = names
  BY JobFields DEF Jobs
<1>2. \A i, j \in Jobs : i.type = j.type => i = j
  BY JobFields DEF Jobs
<1>3. JobTypes = names /\ \A type \in names : JobNamed[type] = CHOOSE j \in Jobs : j.type = type
  BY <1>1 DEF JobTypes, JobNamed
<1>4. ASSUME NEW j \in Jobs
      PROVE  j.type \in names /\ JobNamed[j.type] = j
  <2>1. j.type \in names
    BY <1>1
  <2>2. /\ (CHOOSE i \in Jobs : i.type = j.type) \in Jobs
        /\ (CHOOSE i \in Jobs : i.type = j.type).type = j.type
    OBVIOUS
  <2>3. JobNamed[j.type] = CHOOSE i \in Jobs : i.type = j.type
    BY <1>3, <2>1
  <2> QED
    BY <1>2, <2>1, <2>2, <2>3
<1>5. ASSUME NEW type \in names
      PROVE  JobNamed[type] \in Jobs /\ JobNamed[type].type = type
  <2>1. PICK j \in Jobs : j.type = type
    BY <1>1
  <2> QED
    BY <1>4, <2>1
<1> QED
  BY <1>3, <1>4, <1>5

\* Only the quota of departures is about departures.
LEMMA JobFacts ==
  ASSUME NEW j \in Jobs
  PROVE  /\ j.of \subseteq Ref
         /\ j.type \in Types \ {"CHATBOT_REPLY"}
         /\ j = checkBatchQuota <=> j.type = "QUOTA_WARNING"
         /\ j = expireInvoices <=> j.type = "PAYMENT_OVERDUE"
         /\ j # checkBatchQuota => j.of \subseteq Lead \cup Invoice \cup Traveller
         /\ j # checkBatchQuota => j.of \cap Batch = {}
         /\ j.memory \in {"window", "day", "none"}
         /\ j.limited \in BOOLEAN
<1>1. j.type \in Types \ {"CHATBOT_REPLY"}
  BY JobFields DEF Jobs, Types
<1>2. j.memory \in {"window", "day", "none"} /\ j.limited \in BOOLEAN
  BY JobFields DEF Jobs
<1>3. /\ j = checkBatchQuota <=> j.type = "QUOTA_WARNING"
      /\ j = expireInvoices <=> j.type = "PAYMENT_OVERDUE"
  BY JobFields DEF Jobs
<1>4. j # checkBatchQuota => j.of \in {Lead, Invoice, Traveller}
  BY JobFields DEF Jobs
<1>5. j = checkBatchQuota => j.of = Batch
  BY JobFields
<1> QED
  BY <1>1, <1>2, <1>3, <1>4, <1>5, RefAssumption

-----------------------------------------------------------------------------
(* Where a goroutine can be.                                               *)

Runner ==
  [pc : {"idle", "hear", "look", "think", "next", "check", "warn", "mark", "send",
         "post", "wait", "keep", "after"},
   job : JobTypes \cup {"chat", Null},
   left : SUBSET Ref,
   on : Ref \cup {Null},
   phone : Phone \cup {Null},
   says : Answers \cup {Null},
   entry : Nat,
   row : Nat,
   attempt : 0..MaxAttempts,
   to : {"pending", "sent", "failed"},
   late : BOOLEAN]

\* Answering a customer.
Chatting(j) ==
  /\ j.job = "chat"
  /\ j.pc \in {"hear", "look", "think", "send", "post", "wait", "keep", "after"}
  /\ j.phone \in Phone
  /\ j.pc \in {"hear", "look", "think"} => j.entry = 0
  /\ ~j.late

\* Going through the departures that are nearly full.
Warning(j) ==
  /\ j.job = "QUOTA_WARNING"
  /\ j.pc \in {"next", "check", "warn", "mark"}
  /\ j.left \subseteq Batch
  /\ j.pc # "next" => j.on \in Batch
  /\ j.entry = 0

\* Going through the list of any other job.
Reminding(j) ==
  /\ j.job \in JobTypes \ {"QUOTA_WARNING"}
  /\ j.pc \in {"next", "send", "post", "wait", "keep", "after"}
  /\ j.left \subseteq JobNamed[j.job].of
  /\ j.pc # "next" => j.on \in JobNamed[j.job].of
  /\ j.pc = "send" => j.on \notin j.left
  /\ j.entry = 0

Placed(t, j) ==
  /\ j \in Runner
  /\ \/ j = Asleep
     \/ Chatting(j) /\ OfServer(t)
     \/ Warning(j)
     \/ Reminding(j)
  /\ j.late => j.job \in JobTypes /\ JobNamed[j.job].limited

PlacesInv == run \in [Thread -> Runner] /\ \A t \in Thread : Placed(t, run[t])

Only(t) == run' \in [Thread -> Runner] /\ \A o \in Thread \ {t} : run'[o] = run[o]

\* A goroutine that is idle waits for a job or a message.
LEMMA AsleepPlaced ==
  ASSUME NEW t \in Thread
  PROVE  Placed(t, Asleep)
<1>1. Asleep \in Runner
  BY DEF Asleep, Runner, MaxAttempts
<1>2. Asleep.late = FALSE
  BY DEF Asleep
<1> QED
  BY <1>1, <1>2 DEF Placed

\* One goroutine moves on, the others stay where they are.
LEMMA OneMoves ==
  ASSUME PlacesInv, NEW t \in Thread, NEW j, Placed(t, j), run' = [run EXCEPT ![t] = j]
  PROVE  PlacesInv' /\ Only(t) /\ run'[t] = j
<1>1. j \in Runner
  BY DEF Placed
<1>2. run' \in [Thread -> Runner] /\ run'[t] = j /\ \A o \in Thread \ {t} : run'[o] = run[o]
  BY <1>1 DEF PlacesInv
<1>3. \A o \in Thread : Placed(o, run[o])' <=> Placed(o, run'[o])
  BY DEF Placed, OfServer, Chatting, Warning, Reminding
<1> QED
  BY <1>2, <1>3 DEF PlacesInv, Only

-----------------------------------------------------------------------------
(* Each step of a goroutine, and where it leaves it.                       *)

\* A run begins with what is due; what it is to remind of, it has not.
LEMMA ListDueStep ==
  ASSUME PlacesInv, NEW t \in Thread, NEW j \in Jobs, ListDue(t, j)
  PROVE  /\ PlacesInv' /\ Only(t)
         /\ run[t] = Asleep
         /\ run'[t].pc = "next"
         /\ run'[t].job = j.type
         /\ ~run'[t].late
         /\ j # checkBatchQuota => \A x \in run'[t].left : ~Reminded(j, x)
         /\ overlap' = IF Running(t, j) THEN overlap \cup {j.type} ELSE overlap
         /\ UNCHANGED <<wa, mail, unmarked>>
<1>1. run[t] = Asleep
  BY DEF ListDue, RunAt, PlacesInv, Placed, Chatting, Warning, Reminding
<1>2. PICK due \in Lists(j) :
        run' = [run EXCEPT ![t] = [Asleep EXCEPT !.pc = "next", !.job = j.type, !.left = due]]
  BY DEF ListDue
<1> DEFINE r == [Asleep EXCEPT !.pc = "next", !.job = j.type, !.left = due]
<1>3. due \subseteq j.of /\ (j # checkBatchQuota => \A x \in due : ~Reminded(j, x))
  BY <1>2, JobFields DEF Lists, NearlyFull
<1>4. /\ j.of \subseteq Ref
      /\ j.type \in JobTypes
      /\ JobNamed[j.type] = j
      /\ j = checkBatchQuota <=> j.type = "QUOTA_WARNING"
  BY JobFacts, JobNames
<1>5. /\ r.pc = "next" /\ r.job = j.type /\ r.left = due /\ r.late = FALSE
      /\ r.entry = 0 /\ r \in Runner
  <2>1. Asleep \in Runner /\ Asleep.late = FALSE /\ Asleep.entry = 0
    BY DEF Asleep, Runner, MaxAttempts
  <2>2. due \subseteq Ref
    BY <1>3, <1>4
  <2> QED
    BY <1>4, <2>1, <2>2 DEF Runner
<1> HIDE DEF r
<1>6. Placed(t, r)
  <2>1. CASE j = checkBatchQuota
    <3>1. Warning(r)
      BY <1>3, <1>4, <1>5, <2>1, JobFields DEF Warning
    <3> QED
      BY <1>5, <3>1 DEF Placed
  <2>2. CASE j # checkBatchQuota
    <3>1. Reminding(r)
      BY <1>3, <1>4, <1>5, <2>2 DEF Reminding
    <3> QED
      BY <1>5, <3>1 DEF Placed
  <2> QED
    BY <2>1, <2>2
<1>7. PlacesInv' /\ Only(t) /\ run'[t] = r
  BY <1>2, <1>6, OneMoves DEF r
<1> QED
  BY <1>1, <1>3, <1>5, <1>7 DEF ListDue

\* Where the next of the list leads; it is off the list from then on.
LEMMA TakeStep ==
  ASSUME PlacesInv, NEW t \in Thread, NEW x \in Ref, Take(t, x)
  PROVE  /\ PlacesInv' /\ Only(t)
         /\ run[t].pc = "next" /\ x \in run[t].left
         /\ run'[t].job = run[t].job /\ run'[t].late = run[t].late
         /\ run'[t].left = run[t].left \ {x}
         /\ \/ run[t].job = "QUOTA_WARNING" /\ run'[t].pc = "check"
            \/ /\ run[t].job # "QUOTA_WARNING"
               /\ run'[t].pc \in {"next", "after", "send"}
               /\ run'[t].pc = "send" => run'[t].on = x
         /\ UNCHANGED <<wa, jobVars>>
<1> DEFINE r == run[t]
           j == JobNamed[r.job]
           silent == x \notin Batch /\ PhoneOf[x] = Null
           step == CASE x \in Batch -> "check"
                     [] silent /\ j # expireInvoices -> "next"
                     [] silent /\ j = expireInvoices -> "after"
                     [] OTHER -> "send"
           on == IF step = "next" THEN Null ELSE x
           phone == IF x \in Batch THEN Null ELSE PhoneOf[x]
           n == [r EXCEPT !.pc = step, !.left = @ \ {x}, !.on = on, !.phone = phone]
<1>1. /\ r \in Runner /\ Placed(t, r)
      /\ r.pc = "next" /\ x \in r.left
      /\ UNCHANGED <<wa, jobVars>>
  BY DEF Take, RunAt, PlacesInv
<1>2. run' = [run EXCEPT ![t] = n]
  BY DEF Take, PlacesInv
<1>3. step \in {"check", "next", "after", "send"} /\ (step = "check" <=> x \in Batch)
  BY Zenon
<1>4. Warning(r) \/ Reminding(r)
  BY <1>1 DEF Placed, Chatting, Asleep
<1>5. phone \in Phone \cup {Null}
  BY PhoneAssumption, RefAssumption
<1>6. on \in {Null, x} /\ (step # "next" => on = x)
  OBVIOUS
<1> HIDE DEF j, silent, step, on, phone, r
<1>7. /\ n \in Runner /\ n.pc = step /\ n.left = r.left \ {x} /\ n.on = on
      /\ n.job = r.job /\ n.late = r.late /\ n.entry = r.entry
  BY <1>1, <1>3, <1>5, <1>6 DEF Runner
<1> HIDE DEF n
<1>8. CASE Warning(r)
  <2>1. x \in Batch
    BY <1>1, <1>8 DEF Warning
  <2>2. Warning(n)
    BY <1>3, <1>6, <1>7, <1>8, <2>1 DEF Warning
  <2>3. Placed(t, n)
    BY <1>1, <1>7, <2>2 DEF Placed
  <2> QED
    BY <1>1, <1>2, <1>3, <1>7, <1>8, <2>1, <2>3, OneMoves DEF Warning, r
<1>9. CASE Reminding(r)
  <2>1. /\ JobNamed[r.job] \in Jobs
        /\ JobNamed[r.job] # checkBatchQuota
    BY <1>9, JobNames, JobFields DEF Reminding
  <2>2. JobNamed[r.job].of \cap Batch = {} /\ x \in JobNamed[r.job].of
    BY <1>1, <1>9, <2>1, JobFacts DEF Reminding
  <2>3. step \in {"next", "after", "send"}
    BY <1>3, <2>2
  <2>4. Reminding(n)
    BY <1>6, <1>7, <1>9, <2>2, <2>3 DEF Reminding
  <2>5. Placed(t, n)
    BY <1>1, <1>7, <2>4 DEF Placed
  <2> QED
    BY <1>1, <1>2, <1>6, <1>7, <1>9, <2>3, <2>5, OneMoves DEF Reminding, r
<1> QED
  BY <1>4, <1>8, <1>9

\* On the same errand: the same job, with the same list, at the same thing.
SameErrand(n, j) ==
  /\ n.job = j.job
  /\ n.left = j.left
  /\ n.on = j.on
  /\ n.phone = j.phone
  /\ n.says = j.says
  /\ n.entry = j.entry
  /\ n.late = j.late

\* A goroutine that sends goes on with the same errand.
LEMMA ErrandPlaced ==
  ASSUME PlacesInv, NEW t \in Thread,
         run[t].pc \in {"send", "post", "wait", "keep"},
         NEW n \in Runner,
         n.pc \in {"post", "wait", "keep", "after"},
         SameErrand(n, run[t])
  PROVE  Placed(t, n)
<1>1. run[t] \in Runner /\ Placed(t, run[t])
  BY DEF PlacesInv
<1>2. /\ n.job = run[t].job /\ n.left = run[t].left /\ n.on = run[t].on
      /\ n.phone = run[t].phone /\ n.late = run[t].late /\ n.entry = run[t].entry
  BY DEF SameErrand
<1>3. CASE Chatting(run[t]) /\ OfServer(t)
  <2>1. Chatting(n)
    BY <1>1, <1>2, <1>3 DEF Chatting
  <2> QED
    BY <1>1, <1>2, <1>3, <2>1 DEF Placed
<1>4. CASE Reminding(run[t])
  <2>1. Reminding(n)
    BY <1>1, <1>2, <1>4 DEF Reminding
  <2> QED
    BY <1>1, <1>2, <2>1 DEF Placed
<1> QED
  BY <1>1, <1>3, <1>4 DEF Placed, Warning, Asleep

\* Back at the list, with the rest of it.
LEMMA ReturnStep ==
  ASSUME PlacesInv, NEW t \in Thread, Warning(run[t]) \/ Reminding(run[t]), Return(t)
  PROVE  /\ PlacesInv' /\ Only(t)
         /\ run'[t].pc = "next"
         /\ run'[t].job = run[t].job
         /\ run'[t].left = run[t].left
         /\ run'[t].late = run[t].late
<1> DEFINE n == [Asleep EXCEPT !.pc = "next", !.job = run[t].job,
                               !.left = run[t].left, !.late = run[t].late]
<1>1. run[t] \in Runner /\ Placed(t, run[t])
  BY DEF PlacesInv
<1>2. run' = [run EXCEPT ![t] = n]
  BY DEF Return
<1>3. Asleep \in Runner /\ Asleep.entry = 0
  BY AsleepPlaced DEF Placed, Asleep
<1>4. /\ n \in Runner /\ n.pc = "next" /\ n.job = run[t].job /\ n.entry = 0
      /\ n.left = run[t].left /\ n.late = run[t].late
  BY <1>1, <1>3 DEF Runner
<1> HIDE DEF n
<1>5. Warning(n) \/ Reminding(n)
  BY <1>4 DEF Warning, Reminding
<1>6. Placed(t, n)
  BY <1>1, <1>4, <1>5 DEF Placed
<1> QED
  BY <1>2, <1>4, <1>6, OneMoves

\* Where a goroutine may go from where it is, with what it has.
MayGo(j, s) ==
  \/ Chatting(j) /\ j.pc \in {"hear", "look"} /\ s \in {"look", "think"}
  \/ Chatting(j) /\ s \in {"after", "wait"}
  \/ Warning(j) /\ j.pc # "next" /\ s \in {"warn", "mark"}
  \/ Reminding(j) /\ j.pc # "next" /\ s \in {"after", "wait"}

\* A goroutine that goes on keeps its errand.
LEMMA GoStep ==
  ASSUME PlacesInv, NEW t \in Thread, NEW s, Go(t, s), MayGo(run[t], s)
  PROVE  /\ PlacesInv' /\ Only(t)
         /\ run'[t].pc = s
         /\ SameErrand(run'[t], run[t])
         /\ run'[t].row = run[t].row
         /\ run'[t].attempt = run[t].attempt
<1> DEFINE n == [run[t] EXCEPT !.pc = s]
<1>1. run[t] \in Runner /\ Placed(t, run[t])
  BY DEF PlacesInv
<1>2. run' = [run EXCEPT ![t] = n]
  BY DEF Go, PlacesInv
<1>3. /\ n \in Runner /\ n.pc = s
      /\ n.job = run[t].job /\ n.left = run[t].left /\ n.on = run[t].on
      /\ n.phone = run[t].phone /\ n.says = run[t].says /\ n.entry = run[t].entry
      /\ n.late = run[t].late /\ n.row = run[t].row /\ n.attempt = run[t].attempt
  BY <1>1 DEF Runner, MayGo
<1> HIDE DEF n
<1>4. Chatting(run[t]) => OfServer(t)
  BY <1>1, JobNames DEF Placed, Chatting, Warning, Reminding, Asleep
<1>5. (Chatting(n) /\ OfServer(t)) \/ Warning(n) \/ Reminding(n)
  BY <1>3, <1>4 DEF Chatting, Warning, Reminding, MayGo
<1>6. Placed(t, n)
  BY <1>1, <1>3, <1>5 DEF Placed
<1> QED
  BY <1>2, <1>3, <1>6, OneMoves DEF SameErrand

\* Done: the goroutine is free for something else.
LEMMA RestStep ==
  ASSUME PlacesInv, NEW t \in Thread, Rest(t)
  PROVE  PlacesInv' /\ Only(t) /\ run'[t] = Asleep
BY AsleepPlaced, OneMoves DEF Rest

\* What can be told of a goroutine from where it is.
LEMMA WhoIsWhere ==
  ASSUME PlacesInv, NEW t \in Thread
  PROVE  /\ run[t] \in Runner
         /\ run[t].late => run[t].job \in JobTypes /\ JobNamed[run[t].job].limited
         /\ run[t].pc = "idle" => run[t] = Asleep
         /\ run[t].pc \in {"hear", "look", "think"} => Chatting(run[t])
         /\ run[t].pc \in {"check", "warn", "mark"} => Warning(run[t])
         /\ run[t].pc = "next" => Warning(run[t]) \/ Reminding(run[t])
         /\ run[t].pc \in {"send", "post", "wait", "keep", "after"} =>
              Chatting(run[t]) \/ Reminding(run[t])
         /\ run[t].job = "chat" => Chatting(run[t])
         /\ Chatting(run[t]) => OfServer(t)
         /\ run[t].job \in JobTypes => Warning(run[t]) \/ Reminding(run[t])
<1>1. run[t] \in Runner /\ Placed(t, run[t])
  BY DEF PlacesInv
<1>2. Asleep.pc = "idle" /\ Asleep.job = Null
  BY DEF Asleep
<1>3. Null # "chat" /\ Null \notin JobTypes /\ "chat" \notin JobTypes
  BY NumberAssumption, JobNames DEF Types
<1>4. "QUOTA_WARNING" \in JobTypes
  BY JobNames
<1>5. CASE run[t] = Asleep
  BY <1>1, <1>2, <1>3, <1>5 DEF Placed, Chatting
<1>6. CASE Chatting(run[t]) /\ OfServer(t)
  BY <1>1, <1>3, <1>6 DEF Placed, Chatting
<1>7. CASE Warning(run[t])
  BY <1>1, <1>3, <1>4, <1>7 DEF Placed, Chatting, Warning
<1>8. CASE Reminding(run[t])
  BY <1>1, <1>3, <1>8 DEF Placed, Chatting, Reminding
<1> QED
  BY <1>1, <1>5, <1>6, <1>7, <1>8 DEF Placed

\* An e-mail, or none.
Post(type, x) ==
  \/ mail' = Append(mail, [type |-> type, ref |-> x, at |-> now])
  \/ UNCHANGED mail

\* After a reminder the run turns to the next item, with an e-mail or without.
LEMMA AfterStep ==
  ASSUME PlacesInv, NEW t \in Thread, After(t)
  PROVE  /\ PlacesInv' /\ Only(t)
         /\ run[t].pc = "after" /\ Reminding(run[t])
         /\ run'[t].pc = "next"
         /\ run'[t].job = run[t].job
         /\ run'[t].left = run[t].left
         /\ run'[t].late = run[t].late
         /\ Post(run[t].job, run[t].on)
         /\ UNCHANGED <<wa, overlap, unmarked>>
<1>1. Reminding(run[t])
  BY WhoIsWhere DEF After, RunAt, Chatting
<1>2. Return(t)
  BY DEF After
<1> QED
  BY <1>1, <1>2, ReturnStep DEF After, RunAt, Mailed, Post

\* The warning goes on unless one of today is found; a query that fails finds none.
LEMMA CheckTodayStep ==
  ASSUME PlacesInv, NEW t \in Thread, CheckToday(t) \/ CheckFails(t)
  PROVE  /\ PlacesInv' /\ Only(t)
         /\ run[t].pc = "check" /\ Warning(run[t])
         /\ run'[t].job = run[t].job /\ run'[t].late = run[t].late
         /\ \/ run'[t].pc = "next" /\ UNCHANGED unmarked
            \/ /\ run'[t].pc = "warn"
               /\ run'[t].on = run[t].on
               /\ \/ run'[t].late \/ run[t].on \in unmarked'
                  \/ ~Reminded(checkBatchQuota, run[t].on)
               /\ \/ UNCHANGED unmarked
                  \/ unmarked' = unmarked \cup {run[t].on}
         /\ UNCHANGED <<wa, mail, overlap>>
<1>1. Warning(run[t]) /\ run[t].pc = "check"
  BY WhoIsWhere DEF CheckToday, CheckFails, RunAt
<1>2. UNCHANGED <<wa, mail, overlap>>
  BY DEF CheckToday, CheckFails, jobVars
<1>3. CASE Return(t) /\ UNCHANGED unmarked
  BY <1>1, <1>2, <1>3, ReturnStep
<1>4. CASE /\ Go(t, "warn")
           /\ \/ ~Reminded(checkBatchQuota, run[t].on) /\ UNCHANGED unmarked
              \/ unmarked' = IF run[t].late THEN unmarked ELSE unmarked \cup {run[t].on}
  <2>1. PlacesInv' /\ Only(t) /\ run'[t].pc = "warn" /\ SameErrand(run'[t], run[t])
    BY <1>1, <1>4, GoStep DEF MayGo
  <2> QED
    BY <1>1, <1>2, <1>4, <2>1 DEF SameErrand
<1>5. CASE CheckToday(t)
  BY <1>3, <1>4, <1>5 DEF CheckToday, jobVars
<1>6. CASE CheckFails(t)
  BY <1>4, <1>6 DEF CheckFails
<1> QED
  BY <1>5, <1>6

\* The e-mail of a warning, then its mark.
LEMMA WarnStep ==
  ASSUME PlacesInv, NEW t \in Thread, Warn(t)
  PROVE  /\ PlacesInv' /\ Only(t)
         /\ run[t].pc = "warn" /\ Warning(run[t])
         /\ run'[t].pc = "mark"
         /\ run'[t].on = run[t].on
         /\ run'[t].job = run[t].job /\ run'[t].late = run[t].late
         /\ run[t].late => UNCHANGED mail
         /\ Post("QUOTA_WARNING", run[t].on)
         /\ UNCHANGED <<wa, overlap, unmarked>>
<1>1. Warning(run[t]) /\ run[t].pc = "warn" /\ run[t].job = "QUOTA_WARNING"
  BY WhoIsWhere DEF Warn, RunAt, Warning
<1>2. Go(t, "mark")
  BY DEF Warn
<1>3. Post("QUOTA_WARNING", run[t].on) /\ (run[t].late => UNCHANGED mail)
  BY <1>1 DEF Warn, Mailed, Post
<1>4. PlacesInv' /\ Only(t) /\ run'[t].pc = "mark" /\ SameErrand(run'[t], run[t])
  BY <1>1, <1>2, GoStep DEF MayGo
<1> QED
  BY <1>1, <1>3, <1>4 DEF Warn, SameErrand

\* The row a goroutine writes of what it is at.
NewRow(t, type, status) ==
  [type |-> type, ref |-> run[t].on, phone |-> run[t].phone,
   says |-> run[t].says, entry |-> run[t].entry, at |-> now,
   status |-> status, copies |-> 0, heard |-> 0, blurred |-> FALSE, cut |-> FALSE]

\* The mark of a warning: a row of the log, or none when it cannot be written.
LEMMA MarkStep ==
  ASSUME PlacesInv, NEW t \in Thread, Mark(t) \/ MarkFails(t)
  PROVE  /\ PlacesInv' /\ Only(t)
         /\ run[t].pc = "mark" /\ Warning(run[t])
         /\ run'[t].pc = "next"
         /\ run'[t].job = run[t].job /\ run'[t].late = run[t].late
         /\ \/ /\ unmarked' = unmarked \cup {run[t].on}
               /\ UNCHANGED wa
            \/ /\ ~run[t].late
               /\ wa' = Append(wa, NewRow(t, "QUOTA_WARNING", "sent"))
               /\ UNCHANGED unmarked
         /\ UNCHANGED <<mail, overlap>>
<1>1. Warning(run[t]) /\ run[t].pc = "mark"
  BY WhoIsWhere DEF Mark, MarkFails, RunAt
<1>2. Return(t)
  BY DEF Mark, MarkFails
<1> QED
  BY <1>1, <1>2, ReturnStep DEF Mark, MarkFails, Create, NewRow, jobVars

\* The end of a run, with the summary of the expired invoices or without.
LEMMA FinishStep ==
  ASSUME PlacesInv, NEW t \in Thread, Finish(t)
  PROVE  /\ PlacesInv' /\ Only(t)
         /\ run[t].pc = "next"
         /\ run'[t] = Asleep
         /\ Post("PAYMENT_OVERDUE", Null)
         /\ UNCHANGED <<wa, overlap, unmarked>>
<1>1. Post("PAYMENT_OVERDUE", Null)
  BY JobFields DEF Finish, Mailed, Post
<1> QED
  BY <1>1, RestStep DEF Finish, RunAt

-----------------------------------------------------------------------------
(* Rows that are being sent.                                               *)

Flying(j) == j.pc \in {"post", "wait", "keep"}

\* What is known of a row while its message is under way: it is pending, no
\* more copies went out than it was tried, and if any did before it was
\* answered, an answer was lost.
Flight(j, row) ==
  /\ j.attempt \in 1..MaxAttempts
  /\ row.status = "pending"
  /\ row.copies <= j.attempt
  /\ j.pc = "post" => row.copies < j.attempt
  /\ j.pc = "wait" => j.attempt < MaxAttempts
  /\ row.copies > 1 => row.blurred
  /\ j.pc # "keep" \/ j.to = "failed" => (row.copies > 0 => row.blurred)
  /\ j.pc = "keep" => /\ j.to \in {"sent", "failed"}
                      /\ j.to = "sent" => row.copies > 0

\* What is true of a row that nobody sends, or sends any more.
Ended(row) ==
  /\ row.copies > 1 => row.blurred
  /\ \/ row.status = "pending" /\ row.cut
     \/ row.status = "sent" /\ (row.copies > 0 \/ row.type = "QUOTA_WARNING")
     \/ row.status = "failed" /\ (row.copies > 0 => row.blurred)

\* Each row is sent by one goroutine, or by none any more.
FlightsInv ==
  /\ wa \in Seq(Row)
  /\ \A i \in DOMAIN wa : wa[i].at <= now /\ wa[i].heard <= wa[i].copies
  /\ \A t \in Thread : Flying(run[t]) => /\ run[t].row \in DOMAIN wa
                                         /\ Flight(run[t], wa[run[t].row])
  /\ \A t, u \in Thread :
       Flying(run[t]) /\ Flying(run[u]) /\ run[t].row = run[u].row => t = u
  /\ \A i \in DOMAIN wa :
       Ended(wa[i]) \/ \E t \in Thread : Flying(run[t]) /\ run[t].row = i

\* What was written stays written: what the message is about, to whom, and when.
SameLetter(row, old) ==
  /\ row.type = old.type
  /\ row.ref = old.ref
  /\ row.phone = old.phone
  /\ row.says = old.says
  /\ row.entry = old.entry
  /\ row.at = old.at

\* A step that writes to row r, or to none.
RowWritten(r) ==
  /\ wa' \in Seq(Row)
  /\ DOMAIN wa' = DOMAIN wa
  /\ \A i \in DOMAIN wa : i # r => wa'[i] = wa[i]
  /\ r \in DOMAIN wa => /\ SameLetter(wa'[r], wa[r])
                        /\ wa'[r].heard = wa[r].heard

\* One more row.
RowAdded(row) ==
  /\ wa' = Append(wa, row)
  /\ wa' \in Seq(Row)
  /\ DOMAIN wa' = DOMAIN wa \cup {Len(wa) + 1}
  /\ Len(wa) + 1 \notin DOMAIN wa
  /\ \A i \in DOMAIN wa : wa'[i] = wa[i]
  /\ wa'[Len(wa) + 1] = row

TimeInv ==
  /\ now \in 0..LastTick
  /\ \E b \in Budgets :
       /\ budget \in [Events -> Nat]
       /\ \A e \in Events : budget[e] <= b[e]
       /\ now + budget["ticks"] <= b["ticks"]

\* Appending a row adds it and leaves the others.
LEMMA AppendedRow ==
  ASSUME wa \in Seq(Row), NEW row \in Row, wa' = Append(wa, row)
  PROVE  RowAdded(row)
BY DEF RowAdded

\* A row that is put in place of one.
LEMMA ReplacedRow ==
  ASSUME wa \in Seq(Row), NEW r \in DOMAIN wa, NEW row \in Row,
         wa' = [wa EXCEPT ![r] = row],
         SameLetter(row, wa[r]),
         row.heard = wa[r].heard
  PROVE  RowWritten(r) /\ wa'[r] = row
<1>1. r \in 1..Len(wa)
  OBVIOUS
<1>2. wa' \in Seq(Row)
  BY <1>1, ExceptSeq
<1> QED
  BY <1>1, <1>2 DEF RowWritten

\* A new row is of the table.
LEMMA NewRowTyped ==
  ASSUME PlacesInv, TimeInv, NEW t \in Thread, NEW type \in Types,
         NEW status \in {"pending", "sent", "failed"}
  PROVE  NewRow(t, type, status) \in Row
<1>1. run[t] \in Runner
  BY DEF PlacesInv
<1> QED
  BY <1>1 DEF TimeInv, NewRow, Row, Runner, MaxAttempts

\* The row comes first, and is sent by the goroutine that wrote it.
LEMMA SendStep ==
  ASSUME PlacesInv, FlightsInv, TimeInv, NEW t \in Thread, NEW type \in Types,
         Send(t, type)
  PROVE  /\ PlacesInv' /\ Only(t)
         /\ run[t].pc = "send" /\ ~run[t].late
         /\ SameErrand(run'[t], run[t])
         /\ RowAdded(NewRow(t, type, "pending"))
         /\ run'[t].pc = "post"
         /\ run'[t].row = Len(wa) + 1
         /\ run'[t].attempt = 1
<1>1. run[t].pc = "send" /\ ~run[t].late /\ run[t] \in Runner
  BY WhoIsWhere DEF Send, RunAt
<1> DEFINE n == [run[t] EXCEPT !.pc = "post", !.row = Len(wa) + 1, !.attempt = 1]
<1>2. run' = [run EXCEPT ![t] = n]
  BY DEF Send, PlacesInv
<1>3. Len(wa) \in Nat
  BY DEF FlightsInv
<1>4. /\ n \in Runner /\ n.pc = "post" /\ n.row = Len(wa) + 1 /\ n.attempt = 1
      /\ SameErrand(n, run[t])
  <2>1. 1 \in 0..MaxAttempts /\ Len(wa) + 1 \in Nat
    BY <1>3 DEF MaxAttempts
  <2>2. n \in Runner
    BY <1>1, <2>1 DEF Runner
  <2> QED
    BY <1>1, <2>2 DEF Runner, SameErrand
<1> HIDE DEF n
<1>5. PlacesInv' /\ Only(t) /\ run'[t] = n
  BY <1>1, <1>2, <1>4, ErrandPlaced, OneMoves
<1>6. wa' = Append(wa, NewRow(t, type, "pending"))
  BY DEF Send, Create, NewRow
<1>7. RowAdded(NewRow(t, type, "pending"))
  BY <1>6, NewRowTyped, AppendedRow DEF FlightsInv
<1> QED
  BY <1>1, <1>4, <1>5, <1>7

\* Without its row a message is not sent.
LEMMA SendFailsStep ==
  ASSUME PlacesInv, NEW t \in Thread, SendFails(t)
  PROVE  /\ PlacesInv' /\ Only(t)
         /\ run[t].pc = "send"
         /\ SameErrand(run'[t], run[t])
         /\ run'[t].pc = "after"
         /\ UNCHANGED wa
<1>1. run[t].pc = "send" /\ (Chatting(run[t]) \/ Reminding(run[t]))
  BY WhoIsWhere DEF SendFails, RunAt
<1>2. Go(t, "after") /\ UNCHANGED wa
  BY DEF SendFails
<1> QED
  BY <1>1, <1>2, GoStep DEF MayGo

Outcome(j, row) == IF Flying(j) THEN Flight(j, row) ELSE Ended(row)

\* A step between a goroutine and the gateway.
AttemptMove(t) ==
  \/ Answered(t) \/ Unanswered(t) \/ Garbled(t)
  \/ Retry(t) \/ UpdateStatus(t) \/ GiveUp(t)

\* What an attempt at the gateway makes of its row, and where it leaves the
\* goroutine: still at it, or done with it.
Attempted(t) ==
  /\ Flying(run[t])
  /\ SameErrand(run'[t], run[t])
  /\ run'[t].pc \in {"post", "wait", "keep", "after"}
  /\ run'[t].row = run[t].row
  /\ RowWritten(run[t].row)
  /\ wa[run[t].row].copies <= wa'[run[t].row].copies
  /\ Outcome(run'[t], wa'[run[t].row])

\* A goroutine on its errand, and a row it writes.
StillSends(n, j) ==
  /\ n \in Runner
  /\ n.pc \in {"post", "wait", "keep", "after"}
  /\ n.row = j.row
  /\ SameErrand(n, j)

Rewrites(row, old) ==
  /\ row \in Row
  /\ SameLetter(row, old)
  /\ row.heard = old.heard
  /\ old.copies <= row.copies

\* What every step of a send does to its row and its goroutine.
LEMMA AttemptMakes ==
  ASSUME PlacesInv, FlightsInv, NEW t \in Thread, Flying(run[t]),
         NEW n, StillSends(n, run[t]), run' = [run EXCEPT ![t] = n],
         NEW row, Rewrites(row, wa[run[t].row]), wa' = [wa EXCEPT ![run[t].row] = row],
         Outcome(n, row)
  PROVE  PlacesInv' /\ Only(t) /\ Attempted(t)
<1>1. PlacesInv' /\ Only(t) /\ run'[t] = n
  BY ErrandPlaced, OneMoves DEF Flying, StillSends
<1>2. run[t].row \in DOMAIN wa /\ wa \in Seq(Row)
  BY DEF FlightsInv
<1>3. RowWritten(run[t].row) /\ wa'[run[t].row] = row
  BY <1>2, ReplacedRow DEF Rewrites
<1> QED
  BY <1>1, <1>3 DEF Attempted, StillSends, Rewrites

\* Each step of a send is such an attempt.
LEMMA AttemptStep ==
  ASSUME PlacesInv, FlightsInv, NEW t \in Thread,
         AttemptMove(t)
  PROVE  PlacesInv' /\ Only(t) /\ Attempted(t)
<1> DEFINE i == run[t].row
           w == wa[i]
<1>1. Flying(run[t]) /\ run[t] \in Runner
  BY WhoIsWhere DEF AttemptMove, Answered, Unanswered, Garbled, Retry, UpdateStatus, GiveUp,
                    RunAt, Flying
<1>2. i \in DOMAIN wa /\ w \in Row /\ Flight(run[t], w) /\ wa \in Seq(Row)
  BY <1>1 DEF FlightsInv
<1>3. wa = [wa EXCEPT ![i] = w] /\ Rewrites(w, w)
  BY <1>2 DEF Rewrites, SameLetter, Row
<1>4. ASSUME NEW c \in {0, 1}, NEW b \in BOOLEAN, run[t].pc = "post",
             NEW row, row = [w EXCEPT !.copies = @ + c, !.blurred = b]
      PROVE  /\ Rewrites(row, w)
             /\ row.copies = w.copies + c
             /\ row.copies <= run[t].attempt
             /\ row.blurred = b
             /\ row.status = "pending"
  <2>1. w.copies + c <= run[t].attempt /\ w.copies + c \in 0..MaxAttempts /\ w.copies \in Nat
    BY <1>1, <1>2, <1>4 DEF Flight, Row, Runner, MaxAttempts
  <2>2. row \in Row
    BY <1>2, <1>4, <2>1 DEF Row
  <2>3. /\ row.copies = w.copies + c /\ row.blurred = b
        /\ row.status = w.status /\ row.heard = w.heard
        /\ SameLetter(row, w)
    BY <1>2, <1>4 DEF Row, SameLetter
  <2> QED
    BY <1>2, <2>1, <2>2, <2>3 DEF Flight, Rewrites
<1>5. CASE Answered(t)
  <2>1. run[t].pc = "post"
    BY <1>5 DEF Answered, RunAt
  <2>2. CASE /\ UNCHANGED wa
             /\ run' = [run EXCEPT ![t].pc = "keep", ![t].to = "failed"]
    <3> DEFINE n == [run[t] EXCEPT !.pc = "keep", !.to = "failed"]
    <3>1. run' = [run EXCEPT ![t] = n]
      BY <2>2 DEF PlacesInv
    <3>2. StillSends(n, run[t]) /\ n.pc = "keep" /\ n.to = "failed" /\ n.attempt = run[t].attempt
      BY <1>1 DEF StillSends, SameErrand, Runner
    <3> HIDE DEF n
    <3>3. Outcome(n, w)
      BY <1>2, <2>1, <3>2 DEF Outcome, Flying, Flight
    <3> QED
      BY <1>1, <1>3, <2>2, <3>1, <3>2, <3>3, AttemptMakes
  <2>3. CASE /\ wa' = [wa EXCEPT ![i].copies = @ + 1]
             /\ run' = [run EXCEPT ![t].pc = "keep", ![t].to = "sent"]
    <3> DEFINE n == [run[t] EXCEPT !.pc = "keep", !.to = "sent"]
               row == [w EXCEPT !.copies = @ + 1, !.blurred = w.blurred]
    <3>1. run' = [run EXCEPT ![t] = n] /\ wa' = [wa EXCEPT ![i] = row]
      BY <1>2, <2>3 DEF PlacesInv, Row
    <3>2. StillSends(n, run[t]) /\ n.pc = "keep" /\ n.to = "sent" /\ n.attempt = run[t].attempt
      BY <1>1 DEF StillSends, SameErrand, Runner
    <3>3. /\ Rewrites(row, w) /\ row.copies = w.copies + 1 /\ row.copies <= run[t].attempt
          /\ row.blurred = w.blurred /\ row.status = "pending"
      BY <1>2, <1>4, <2>1 DEF Row
    <3> HIDE DEF n, row
    <3>4. Outcome(n, row)
      BY <1>2, <2>1, <3>2, <3>3 DEF Outcome, Flying, Flight, Row
    <3> QED
      BY <1>1, <3>1, <3>2, <3>3, <3>4, AttemptMakes
  <2> QED
    BY <1>5, <2>2, <2>3 DEF Answered
<1>6. CASE Unanswered(t) \/ Garbled(t)
  <2>1. run[t].pc = "post"
    BY <1>6 DEF Unanswered, Garbled, RunAt
  <2>2. PICK c \in {0, 1} :
          wa' = [wa EXCEPT ![i].copies = @ + c, ![i].blurred = TRUE]
    BY <1>6 DEF Unanswered, Garbled
  <2> DEFINE row == [w EXCEPT !.copies = @ + c, !.blurred = TRUE]
  <2>3. wa' = [wa EXCEPT ![i] = row]
    BY <1>2, <2>2
  <2>4. Rewrites(row, w) /\ row.copies <= run[t].attempt /\ row.blurred /\ row.status = "pending"
    BY <1>4, <2>1
  <2> HIDE DEF row
  <2>5. CASE run[t].attempt < MaxAttempts /\ run' = [run EXCEPT ![t].pc = "wait"]
    <3> DEFINE n == [run[t] EXCEPT !.pc = "wait"]
    <3>1. run' = [run EXCEPT ![t] = n]
      BY <2>5 DEF PlacesInv
    <3>2. StillSends(n, run[t]) /\ n.pc = "wait" /\ n.attempt = run[t].attempt
      BY <1>1 DEF StillSends, SameErrand, Runner
    <3> HIDE DEF n
    <3>3. Outcome(n, row)
      BY <1>2, <2>4, <2>5, <3>2 DEF Outcome, Flying, Flight
    <3> QED
      BY <1>1, <2>3, <2>4, <3>1, <3>2, <3>3, AttemptMakes
  <2>6. CASE run' = [run EXCEPT ![t].pc = "keep", ![t].to = "failed"]
    <3> DEFINE n == [run[t] EXCEPT !.pc = "keep", !.to = "failed"]
    <3>1. run' = [run EXCEPT ![t] = n]
      BY <2>6 DEF PlacesInv
    <3>2. StillSends(n, run[t]) /\ n.pc = "keep" /\ n.to = "failed" /\ n.attempt = run[t].attempt
      BY <1>1 DEF StillSends, SameErrand, Runner
    <3> HIDE DEF n
    <3>3. Outcome(n, row)
      BY <1>2, <2>4, <3>2 DEF Outcome, Flying, Flight
    <3> QED
      BY <1>1, <2>3, <2>4, <3>1, <3>2, <3>3, AttemptMakes
  <2> QED
    BY <1>6, <2>5, <2>6 DEF Unanswered, Garbled
<1>7. CASE Retry(t)
  <2> DEFINE n == [run[t] EXCEPT !.pc = "post", !.attempt = @ + 1]
  <2>1. run[t].pc = "wait" /\ UNCHANGED wa /\ run' = [run EXCEPT ![t] = n]
    BY <1>7 DEF Retry, RunAt, PlacesInv
  <2>2. run[t].attempt + 1 \in 1..MaxAttempts
    BY <1>2, <2>1 DEF Flight, MaxAttempts
  <2>3. StillSends(n, run[t]) /\ n.pc = "post" /\ n.attempt = run[t].attempt + 1
    <3>1. run[t].attempt + 1 \in 0..MaxAttempts
      BY <2>2 DEF MaxAttempts
    <3>2. n \in Runner
      BY <1>1, <3>1 DEF Runner
    <3> QED
      BY <1>1, <3>2 DEF StillSends, SameErrand, Runner
  <2> HIDE DEF n
  <2>4. Outcome(n, w)
    BY <1>2, <2>1, <2>2, <2>3 DEF Outcome, Flying, Flight, Row, MaxAttempts
  <2> QED
    BY <1>1, <1>3, <2>1, <2>3, <2>4, AttemptMakes
<1>8. ASSUME NEW row, Rewrites(row, w), wa' = [wa EXCEPT ![i] = row], Ended(row), Go(t, "after")
      PROVE  PlacesInv' /\ Only(t) /\ Attempted(t)
  <2> DEFINE n == [run[t] EXCEPT !.pc = "after"]
  <2>1. run' = [run EXCEPT ![t] = n]
    BY <1>8 DEF Go, PlacesInv
  <2>2. StillSends(n, run[t]) /\ n.pc = "after"
    BY <1>1 DEF StillSends, SameErrand, Runner
  <2> HIDE DEF n
  <2>3. Outcome(n, row)
    BY <1>8, <2>2 DEF Outcome, Flying
  <2> QED
    BY <1>1, <1>8, <2>1, <2>2, <2>3, AttemptMakes
<1>9. CASE UpdateStatus(t)
  <2> DEFINE row == [w EXCEPT !.status = run[t].to]
  <2>1. run[t].pc = "keep" /\ wa' = [wa EXCEPT ![i] = row] /\ Go(t, "after")
    BY <1>2, <1>9 DEF UpdateStatus, RunAt
  <2>2. run[t].to \in {"sent", "failed"}
    BY <1>2, <2>1 DEF Flight
  <2>3. row \in Row
    BY <1>2, <2>2 DEF Row
  <2>4. /\ SameLetter(row, w) /\ row.heard = w.heard
        /\ row.copies = w.copies /\ row.blurred = w.blurred
        /\ row.status = run[t].to
    BY <1>2 DEF SameLetter, Row
  <2> HIDE DEF row
  <2>5. Rewrites(row, w)
    BY <1>3, <2>3, <2>4 DEF Rewrites
  <2>6. Ended(row)
    BY <1>2, <2>1, <2>2, <2>4 DEF Ended, Flight
  <2> QED
    BY <1>8, <2>1, <2>5, <2>6
<1>10. CASE GiveUp(t)
  <2> DEFINE row == [w EXCEPT !.cut = TRUE]
  <2>1. wa' = [wa EXCEPT ![i] = row] /\ Go(t, "after")
    BY <1>2, <1>10 DEF GiveUp
  <2>2. row \in Row
    BY <1>2 DEF Row
  <2>3. /\ SameLetter(row, w) /\ row.heard = w.heard
        /\ row.copies = w.copies /\ row.blurred = w.blurred
        /\ row.status = w.status /\ row.cut = TRUE
    BY <1>2 DEF SameLetter, Row
  <2>4. Rewrites(row, w)
    BY <1>2, <2>2, <2>3 DEF Rewrites, Row
  <2>5. Ended(row)
    BY <1>2, <2>3 DEF Ended, Flight
  <2> HIDE DEF row
  <2> QED
    BY <1>8, <2>1, <2>4, <2>5
<1> QED
  BY <1>5, <1>6, <1>7, <1>9, <1>10 DEF AttemptMove

-----------------------------------------------------------------------------
(* Steps of the bot, and what ends a goroutine or its time.                *)

LogsInv ==
  /\ ChatTypeOK
  /\ chat \in [Phone -> Seq(Entry)]

\* The guard counts up to one more than its limit.
LEMMA CountStep ==
  ASSUME LogsInv, NEW p \in Phone, Count(p)
  PROVE  flood' \in [Phone -> 0..FloodLimit + 1]
BY FloodAssumption DEF LogsInv, ChatTypeOK, Count

\* A message that is let through takes an idle goroutine of the server.
LEMMA LetThroughStep ==
  ASSUME PlacesInv, NEW t \in Thread, NEW p \in Phone, NEW says \in Answers \cup {Null},
         LetThrough(t, p, says)
  PROVE  \/ Tripped(p) /\ UNCHANGED run
         \/ /\ ~Tripped(p)
            /\ PlacesInv' /\ Only(t)
            /\ run[t] = Asleep
            /\ run'[t].pc = "hear" /\ run'[t].job = "chat" /\ run'[t].phone = p
<1> DEFINE n == [Asleep EXCEPT !.pc = "hear", !.job = "chat", !.phone = p, !.says = says]
<1>1. CASE ~Tripped(p)
  <2>1. run[t] = Asleep /\ OfServer(t) /\ run' = [run EXCEPT ![t] = n]
    BY <1>1, WhoIsWhere DEF LetThrough, RunAt
  <2>2. Asleep \in Runner /\ Asleep.late = FALSE /\ Asleep.entry = 0
    BY AsleepPlaced DEF Placed, Asleep
  <2>3. /\ n \in Runner /\ n.pc = "hear" /\ n.job = "chat" /\ n.phone = p /\ ~n.late
        /\ n.entry = 0
    BY <2>2 DEF Runner
  <2> HIDE DEF n
  <2>4. Chatting(n)
    BY <2>3 DEF Chatting
  <2>5. Placed(t, n)
    BY <2>1, <2>3, <2>4 DEF Placed
  <2> QED
    BY <1>1, <2>1, <2>3, <2>5, OneMoves
<1> QED
  BY <1>1 DEF LetThrough

\* The log of a number grows at its end.
LEMMA LogStep ==
  ASSUME LogsInv, NEW p \in Phone, NEW role \in {"user", "assistant"},
         NEW says \in Answers \cup {Null}, Log(p, role, says)
  PROVE  /\ chat' \in [Phone -> Seq(Entry)]
         /\ \A o \in Phone \ {p} : chat'[o] = chat[o]
         /\ chat'[p] = Append(chat[p], [role |-> role, says |-> says])
<1>1. [role |-> role, says |-> says] \in Entry
  BY DEF Entry
<1>2. chat[p] \in Seq(Entry)
  BY DEF LogsInv
<1>3. Append(chat[p], [role |-> role, says |-> says]) \in Seq(Entry)
  BY <1>1, <1>2
<1>4. chat' = [chat EXCEPT ![p] = Append(chat[p], [role |-> role, says |-> says])]
  BY DEF Log, LogsInv
<1> QED
  BY <1>3, <1>4 DEF LogsInv

\* The webhook logs the question before it looks at anything else.
LEMMA LogMessageStep ==
  ASSUME PlacesInv, LogsInv, NEW t \in Thread, LogMessage(t)
  PROVE  /\ PlacesInv' /\ Only(t)
         /\ run[t].pc = "hear" /\ Chatting(run[t]) /\ run[t].phone \in Phone
         /\ run'[t].pc = "look"
         /\ SameErrand(run'[t], run[t])
         /\ run[t].says \in Answers \cup {Null}
         /\ Log(run[t].phone, "user", run[t].says)
         /\ UNCHANGED <<wa, flood, handled, excused, misheard>>
<1>1. run[t].pc = "hear" /\ Chatting(run[t]) /\ run[t] \in Runner
  BY WhoIsWhere DEF LogMessage, RunAt
<1>2. PlacesInv' /\ Only(t) /\ run'[t].pc = "look" /\ SameErrand(run'[t], run[t])
  <2>1. Go(t, "look") /\ MayGo(run[t], "look")
    BY <1>1 DEF LogMessage, MayGo
  <2> QED
    BY <2>1, GoStep
<1>3. run[t].phone \in Phone /\ run[t].says \in Answers \cup {Null}
  BY <1>1 DEF Chatting, Runner
<1> QED
  BY <1>1, <1>2, <1>3 DEF LogMessage

\* A number an admin has taken over is not answered.
LEMMA StayOutStep ==
  ASSUME PlacesInv, NEW t \in Thread, StayOut(t)
  PROVE  /\ PlacesInv' /\ Only(t)
         /\ run[t].pc = "look" /\ Chatting(run[t])
         /\ \/ run[t].phone \in handled /\ run'[t] = Asleep
            \/ run'[t].pc = "think" /\ SameErrand(run'[t], run[t])
         /\ UNCHANGED <<wa, chat, flood, handled, excused, misheard>>
<1>1. run[t].pc = "look" /\ Chatting(run[t])
  BY WhoIsWhere DEF StayOut, RunAt
<1>2. CASE Rest(t) /\ run[t].phone \in handled
  BY <1>1, <1>2, RestStep DEF StayOut
<1>3. CASE Go(t, "think")
  <2>1. MayGo(run[t], "think")
    BY <1>1 DEF MayGo
  <2> QED
    BY <1>1, <1>3, <2>1, GoStep DEF StayOut
<1> QED
  BY <1>2, <1>3 DEF StayOut

\* The reply is logged before it is sent.
LEMMA GenerateReplyStep ==
  ASSUME PlacesInv, LogsInv, NEW t \in Thread, GenerateReply(t)
  PROVE  /\ PlacesInv' /\ Only(t)
         /\ run[t].pc = "think" /\ Chatting(run[t]) /\ run[t].phone \in Phone
         /\ run'[t].pc = "send" /\ run'[t].job = "chat"
         /\ run'[t].phone = run[t].phone
         /\ run'[t].says \in Answers
         /\ run'[t].entry = Len(chat[run[t].phone]) + 1
         /\ Log(run[t].phone, "assistant", run'[t].says)
         /\ UNCHANGED <<wa, flood, handled, excused, misheard>>
<1>1. run[t].pc = "think" /\ Chatting(run[t]) /\ run[t] \in Runner /\ OfServer(t)
  BY WhoIsWhere DEF GenerateReply, RunAt
<1>2. PICK a \in Answers :
        /\ Log(run[t].phone, "assistant", a)
        /\ run' = [run EXCEPT ![t].pc = "send", ![t].says = a,
                              ![t].entry = Len(chat[run[t].phone]) + 1]
  BY FallbackAssumption DEF GenerateReply, GeminiAnswers
<1>3. run[t].phone \in Phone
  BY <1>1 DEF Chatting
<1>4. Len(chat[run[t].phone]) + 1 \in Nat
  BY <1>3 DEF LogsInv
<1> DEFINE n == [run[t] EXCEPT !.pc = "send", !.says = a,
                               !.entry = Len(chat[run[t].phone]) + 1]
<1>5. run' = [run EXCEPT ![t] = n]
  BY <1>2 DEF PlacesInv
<1>6. n \in Runner
  BY <1>1, <1>4 DEF Runner
<1>7. /\ n.pc = "send" /\ n.says = a /\ n.entry = Len(chat[run[t].phone]) + 1
      /\ n.job = run[t].job /\ n.phone = run[t].phone /\ n.late = run[t].late
  BY <1>1 DEF Runner
<1> HIDE DEF n
<1>8. Chatting(n)
  BY <1>1, <1>7 DEF Chatting
<1>9. Placed(t, n)
  BY <1>1, <1>6, <1>8 DEF Placed, Chatting
<1> QED
  BY <1>1, <1>2, <1>3, <1>5, <1>7, <1>8, <1>9, OneMoves DEF GenerateReply, Chatting

\* A statement on the way to a reply fails: the answer goes on without it, or ends.
LEMMA FailsStep ==
  ASSUME PlacesInv, LogsInv, NEW t \in Thread, Fails(t)
  PROVE  /\ PlacesInv' /\ Only(t)
         /\ Chatting(run[t]) /\ run[t].phone \in Phone
         /\ \/ run[t].pc = "hear" /\ run'[t].pc = "look" /\ SameErrand(run'[t], run[t])
            \/ run[t].pc = "look" /\ run'[t].pc = "think" /\ SameErrand(run'[t], run[t])
            \/ run[t].pc = "think" /\ run'[t] = Asleep
            \/ /\ run[t].pc = "think" /\ run'[t].pc = "send"
               /\ run'[t].job = "chat" /\ run'[t].phone = run[t].phone
               /\ run'[t].says \in Answers /\ run'[t].entry = run[t].entry
            \/ run[t].pc = "send" /\ run'[t].pc = "after" /\ SameErrand(run'[t], run[t])
         /\ \/ Excuse(t)
            \/ run[t].pc = "look" /\ UNCHANGED excused
         /\ UNCHANGED <<wa, chat, flood, handled, misheard>>
<1>1. /\ Chatting(run[t]) /\ OfServer(t) /\ run[t] \in Runner /\ Placed(t, run[t])
      /\ run[t].phone \in Phone /\ run[t].job = "chat"
  BY WhoIsWhere DEF Fails, Chatting, PlacesInv
<1>2. CASE RunAt(t, "hear") /\ Go(t, "look") /\ Excuse(t)
  BY <1>1, <1>2, GoStep DEF MayGo, RunAt, Fails
<1>3. CASE RunAt(t, "look") /\ Go(t, "think") /\ UNCHANGED excused
  BY <1>1, <1>3, GoStep DEF MayGo, RunAt, Fails
<1>4. CASE RunAt(t, "think") /\ Excuse(t) /\ Rest(t)
  BY <1>1, <1>4, RestStep DEF RunAt, Fails
<1>5. ASSUME RunAt(t, "think"), Excuse(t), NEW a \in GeminiAnswers \cup {Fallback},
             run' = [run EXCEPT ![t].pc = "send", ![t].says = a]
      PROVE  /\ PlacesInv' /\ Only(t)
             /\ run'[t].pc = "send" /\ run'[t].job = "chat" /\ run'[t].phone = run[t].phone
             /\ run'[t].says \in Answers /\ run'[t].entry = run[t].entry
  <2> DEFINE n == [run[t] EXCEPT !.pc = "send", !.says = a]
  <2>1. run' = [run EXCEPT ![t] = n] /\ a \in Answers
    BY <1>5, FallbackAssumption DEF PlacesInv, GeminiAnswers
  <2>2. /\ n \in Runner /\ n.pc = "send" /\ n.says = a /\ n.entry = run[t].entry
        /\ n.job = run[t].job /\ n.phone = run[t].phone /\ n.late = run[t].late
    BY <1>1, <2>1 DEF Runner
  <2> HIDE DEF n
  <2>3. Chatting(n)
    BY <1>1, <2>2 DEF Chatting
  <2>4. Placed(t, n)
    BY <1>1, <2>2, <2>3 DEF Placed
  <2> QED
    BY <1>1, <2>1, <2>2, <2>4, OneMoves
<1>6. CASE SendFails(t) /\ Excuse(t)
  BY <1>1, <1>6, SendFailsStep DEF Fails
<1> QED
  BY <1>1, <1>2, <1>3, <1>4, <1>5, <1>6 DEF Fails, RunAt

\* A goroutine whose time is over goes on where it was.
LEMMA TimesOutStep ==
  ASSUME PlacesInv, NEW t \in Thread, TimesOut(t)
  PROVE  /\ PlacesInv' /\ Only(t)
         /\ run[t].job \in JobTypes
         /\ run'[t].pc = run[t].pc
         /\ run'[t].job = run[t].job
         /\ run'[t].left = run[t].left
         /\ run'[t].on = run[t].on
         /\ run'[t].late
         /\ \A row : Flight(run[t], row) => Flight(run'[t], row)
         /\ run'[t].row = run[t].row
         /\ UNCHANGED <<wa, now, chatVars, catalogueVars, jobVars>>
<1> DEFINE n == [run[t] EXCEPT !.late = TRUE]
<1>1. run[t] \in Runner /\ (Warning(run[t]) \/ Reminding(run[t])) /\ run[t].job \in JobTypes
  BY WhoIsWhere DEF TimesOut, JobTypes
<1>2. run' = [run EXCEPT ![t] = n] /\ JobNamed[run[t].job].limited
  BY DEF TimesOut, PlacesInv
<1>3. /\ n \in Runner /\ n.late = TRUE
      /\ n.pc = run[t].pc /\ n.job = run[t].job /\ n.left = run[t].left /\ n.on = run[t].on
      /\ n.attempt = run[t].attempt /\ n.to = run[t].to /\ n.row = run[t].row
      /\ n.entry = run[t].entry
  BY <1>1 DEF Runner
<1> HIDE DEF n
<1>4. Warning(n) \/ Reminding(n)
  BY <1>1, <1>3 DEF Warning, Reminding
<1>5. Placed(t, n)
  BY <1>1, <1>2, <1>3, <1>4 DEF Placed
<1>6. \A row : Flight(run[t], row) => Flight(n, row)
  BY <1>3 DEF Flight
<1> QED
  BY <1>1, <1>2, <1>3, <1>5, <1>6, OneMoves DEF TimesOut

\* Goroutines that go down together leave the rest as it was.
LEMMA DieStep ==
  ASSUME PlacesInv, NEW P \in Processes, Die(P)
  PROVE  /\ PlacesInv'
         /\ P \subseteq Thread
         /\ \A t \in P : run'[t] = Asleep
         /\ \A t \in Thread \ P : run'[t] = run[t]
<1>1. P \subseteq Thread
  BY ThreadAssumption DEF Processes
<1>2. run' = [t \in Thread |-> IF t \in P THEN Asleep ELSE run[t]]
  BY DEF Die
<1>3. \A t \in Thread : run'[t] \in Runner /\ Placed(t, run'[t])
  BY <1>2, AsleepPlaced DEF PlacesInv, Placed
<1>4. \A t \in Thread : Placed(t, run[t])' <=> Placed(t, run'[t])
  BY DEF Placed, OfServer, Chatting, Warning, Reminding
<1> QED
  BY <1>1, <1>2, <1>3, <1>4 DEF PlacesInv

-----------------------------------------------------------------------------
(* What a step can be.                                                     *)

\* A step of a job at one goroutine.
JobMove(t) ==
  \/ \E j \in Jobs : ListDue(t, j)
  \/ \E x \in Ref : Take(t, x)
  \/ After(t) \/ CheckToday(t) \/ CheckFails(t) \/ Warn(t) \/ Mark(t) \/ MarkFails(t)
  \/ Finish(t)

\* What a goroutine logs what it sends as.
MessageType(t) == IF run[t].job = "chat" THEN "CHATBOT_REPLY" ELSE run[t].job

\* A message goes out, or one of a job does not, its row missing.
SendMove(t) == Send(t, MessageType(t)) \/ (SendFails(t) /\ run[t].job # "chat")

\* The answer has been sent, or not.
Replied(t) ==
  /\ run[t].job = "chat" /\ run[t].pc = "after"
  /\ Rest(t)
  /\ UNCHANGED <<wa, chatVars>>

ChatMove(t) ==
  \/ \E p \in Phone : HandleFonnteWebhook(t, p)
  \/ \E i \in DOMAIN wa : EchoArrives(t, i) \/ EchoUnread(t, i)
  \/ LogMessage(t) \/ StayOut(t) \/ GenerateReply(t) \/ Replied(t) \/ Fails(t)

PhoneMove(p) == TakeOver(p) \/ HandBack(p) \/ NewMinute(p)

TimeMove == now' = now + 1 /\ UNCHANGED <<wa, run, chatVars, jobVars>>

Still == UNCHANGED <<Outbox, chatVars, jobVars>>

\* Every step is one of these.
LEMMA Moves ==
  ASSUME [Next]_vars
  PROVE  \/ \E t \in Thread : JobMove(t) /\ UNCHANGED <<chatVars, now>>
         \/ \E t \in Thread : AttemptMove(t) /\ UNCHANGED <<chatVars, jobVars, now>>
         \/ \E t \in Thread : SendMove(t) /\ UNCHANGED <<chatVars, jobVars, now>>
         \/ \E t \in Thread : ChatMove(t) /\ UNCHANGED <<jobVars, now>>
         \/ \E p \in Phone : PhoneMove(p) /\ UNCHANGED <<jobVars, now>>
         \/ \E t \in Thread : TimesOut(t)
         \/ \E P \in Processes : Die(P)
         \/ TimeMove
         \/ Still
<1>1. CASE RunJob \/ JobSteps
  BY <1>1 DEF RunJob, JobSteps, JobMove
<1>2. CASE Gateway
  BY <1>2 DEF Gateway, AttemptMove
<1>3. CASE SendOfJob
  BY <1>3 DEF SendOfJob, SendMove, MessageType
<1>4. CASE ChatCalls
  BY <1>4 DEF ChatCalls, ChatMove, PhoneMove
<1>9. CASE ChatFaults
  BY <1>9 DEF ChatFaults, ChatMove
<1>5. CASE ChatSteps
  BY <1>5 DEF ChatSteps, ChatMove, SendReply, Replied, SendMove, MessageType, RunAt
<1>6. CASE CatalogueCalls \/ CatalogueSteps \/ UNCHANGED vars
  BY <1>6 DEF CatalogueCalls, CatalogueSteps, vars, Still
<1>7. CASE Minute
  BY <1>7 DEF Minute, PhoneMove
<1>8. CASE Tick
  BY <1>8 DEF Tick, TimeMove
<1> QED
  BY <1>1, <1>2, <1>3, <1>4, <1>5, <1>6, <1>7, <1>8, <1>9 DEF Next

\* Time passes, and things happen, only as long as they are bounded.
LEMMA TimeStep == TimeInv /\ [Next]_vars => TimeInv'
<1> SUFFICES ASSUME TimeInv, [Next]_vars PROVE TimeInv'
  OBVIOUS
<1>1. \/ UNCHANGED <<now, budget>>
      \/ \E e \in Events : Spend(e) /\ UNCHANGED now
      \/ Spend("ticks") /\ now' = now + 1
  <2>1. CASE JobSteps
    <3>1. PICK t \in Thread :
            \/ \E x \in Ref : Take(t, x)
            \/ After(t) \/ Finish(t)
            \/ CheckToday(t) \/ CheckFails(t) \/ Warn(t) \/ Mark(t) \/ MarkFails(t)
      BY <2>1 DEF JobSteps
    <3>2. UNCHANGED now
      BY <2>1 DEF JobSteps
    <3>3. UNCHANGED budget \/ Spend("faults")
      BY <3>1 DEF Take, After, CheckToday, CheckFails, Warn, Mark, MarkFails, Finish,
                  Mailed, Fault
    <3> QED
      BY <3>2, <3>3 DEF Events
  <2>2. CASE Gateway
    BY <2>2 DEF Gateway, Fault, Events
  <2>3. CASE RunJob \/ ChatCalls \/ ChatFaults \/ CatalogueCalls \/ Minute
    BY <2>3 DEF RunJob, ChatCalls, ChatFaults, CatalogueCalls, Minute, Events, Outbox
  <2>4. CASE \/ SendOfJob \/ ChatSteps \/ CatalogueSteps \/ UNCHANGED vars
    BY <2>4 DEF SendOfJob, Fault, ChatSteps, CatalogueSteps, vars, Outbox, Events
  <2>5. CASE \/ \E P \in Processes : Die(P)
             \/ \E t \in Thread : TimesOut(t)
    BY <2>5 DEF Die, TimesOut, Events
  <2>6. CASE Tick
    BY <2>6 DEF Tick
  <2> QED
    BY <2>1, <2>2, <2>3, <2>4, <2>5, <2>6 DEF Next
<1>2. PICK b \in Budgets :
        /\ budget \in [Events -> Nat]
        /\ \A e \in Events : budget[e] <= b[e]
        /\ now + budget["ticks"] <= b["ticks"]
  BY DEF TimeInv
<1>3. b \in [Events -> Nat] /\ b["ticks"] <= LastTick /\ LastTick \in Nat /\ now \in Nat
      /\ "ticks" \in Events
  BY BudgetAssumption, TickAssumption DEF TimeInv, Events
<1>4. ASSUME NEW e \in Events, Spend(e)
      PROVE  /\ budget' \in [Events -> Nat]
             /\ \A o \in Events : budget'[o] <= b[o]
             /\ budget'["ticks"] <= budget["ticks"]
             /\ e = "ticks" => budget'["ticks"] + 1 <= budget["ticks"]
  BY <1>2, <1>3, <1>4 DEF Spend
<1>5. CASE UNCHANGED <<now, budget>>
  BY <1>5 DEF TimeInv
<1>6. ASSUME NEW e \in Events, Spend(e), UNCHANGED now
      PROVE  TimeInv'
  <2>1. now' + budget'["ticks"] <= b["ticks"]
    BY <1>2, <1>3, <1>4, <1>6
  <2> QED
    BY <1>4, <1>6, <2>1 DEF TimeInv
<1>7. CASE Spend("ticks") /\ now' = now + 1
  <2>1. now' + budget'["ticks"] <= b["ticks"]
    BY <1>2, <1>3, <1>4, <1>7
  <2>2. now' \in 0..LastTick
    BY <1>3, <1>4, <1>7, <2>1
  <2> QED
    BY <1>3, <1>4, <1>7, <2>1, <2>2 DEF TimeInv
<1> QED
  BY <1>1, <1>5, <1>6, <1>7

\* What goes out is of a type of the table.
LEMMA MessageTyped ==
  ASSUME PlacesInv, NEW t \in Thread, run[t].pc = "send"
  PROVE  /\ MessageType(t) \in Types
         /\ run[t].job # "chat" => MessageType(t) = run[t].job /\ Reminding(run[t])
         /\ run[t].job = "chat" <=> MessageType(t) = "CHATBOT_REPLY"
<1>1. Chatting(run[t]) \/ Reminding(run[t])
  BY WhoIsWhere
<1>2. JobTypes \subseteq Types \ {"CHATBOT_REPLY"}
  BY JobNames DEF Types
<1> QED
  BY <1>1, <1>2 DEF MessageType, Chatting, Reminding, Types

-----------------------------------------------------------------------------
(* Places, logs and rows keep what is known of them.                       *)

BaseInv == PlacesInv /\ LogsInv /\ FlightsInv /\ TimeInv

\* The letter a message carries is of the table.
LEMMA RowTyped ==
  ASSUME FlightsInv, NEW i \in DOMAIN wa
  PROVE  wa[i] \in Row
BY DEF FlightsInv

\* Places that nothing touched.
LEMMA PlacesStay == PlacesInv /\ UNCHANGED run => PlacesInv'
BY DEF PlacesInv, Placed, OfServer, Chatting, Warning, Reminding

\* Goroutines stay in places the code has.
LEMMA PlacesStep == BaseInv /\ [Next]_vars => PlacesInv'
<1> SUFFICES ASSUME BaseInv, [Next]_vars PROVE PlacesInv'
  OBVIOUS
<1> USE DEF BaseInv
<1>1. ASSUME NEW t \in Thread, JobMove(t)
      PROVE  PlacesInv'
  BY <1>1, ListDueStep, TakeStep, AfterStep, CheckTodayStep, WarnStep, MarkStep, FinishStep
     DEF JobMove
<1>2. ASSUME NEW t \in Thread, AttemptMove(t)
      PROVE  PlacesInv'
  BY <1>2, AttemptStep DEF AttemptMove
<1>3. ASSUME NEW t \in Thread, SendMove(t)
      PROVE  PlacesInv'
  BY <1>3, MessageTyped, SendStep, SendFailsStep DEF SendMove, Send, RunAt
<1>4. ASSUME NEW t \in Thread, ChatMove(t)
      PROVE  PlacesInv'
  <2>1. ASSUME NEW p \in Phone, HandleFonnteWebhook(t, p)
        PROVE  PlacesInv'
    BY <2>1, LetThroughStep, PlacesStay DEF HandleFonnteWebhook
  <2>2. ASSUME NEW i \in DOMAIN wa, EchoArrives(t, i) \/ EchoUnread(t, i)
        PROVE  PlacesInv'
    <3>1. wa[i].phone \in Phone /\ wa[i].says \in Answers \cup {Null}
      BY <2>2, RowTyped DEF EchoArrives, EchoUnread, Row
    <3>2. UNCHANGED run \/ LetThrough(t, wa[i].phone, wa[i].says)
      BY <2>2 DEF EchoArrives, EchoUnread
    <3> QED
      BY <3>1, <3>2, LetThroughStep, PlacesStay
  <2>3. CASE LogMessage(t) \/ StayOut(t) \/ GenerateReply(t) \/ Replied(t) \/ Fails(t)
    BY <2>3, LogMessageStep, StayOutStep, GenerateReplyStep, FailsStep, RestStep DEF Replied
  <2> QED
    BY <1>4, <2>1, <2>2, <2>3 DEF ChatMove
<1>5. CASE \/ \E p \in Phone : PhoneMove(p)
           \/ TimeMove
           \/ Still
  BY <1>5, PlacesStay DEF PhoneMove, TakeOver, HandBack, NewMinute, TimeMove, Still, Outbox
<1>6. ASSUME NEW t \in Thread, TimesOut(t)
      PROVE  PlacesInv'
  BY <1>6, TimesOutStep
<1>7. ASSUME NEW P \in Processes, Die(P)
      PROVE  PlacesInv'
  BY <1>7, DieStep
<1> QED
  BY <1>1, <1>2, <1>3, <1>4, <1>5, <1>6, <1>7, Moves

\* The logs of the bot grow by entries of the table, and its counters stay
\* within the guard's.
LEMMA LogsStep == BaseInv /\ [Next]_vars => LogsInv'
<1> SUFFICES ASSUME BaseInv, [Next]_vars PROVE LogsInv'
  OBVIOUS
<1> USE DEF BaseInv
<1>1. ASSUME UNCHANGED <<handled, excused, misheard>>,
             chat' \in [Phone -> Seq(Entry)],
             flood' \in [Phone -> 0..FloodLimit + 1]
      PROVE  LogsInv'
  <2>1. \A p \in Phone : \A i \in DOMAIN chat'[p] : chat'[p][i] \in Entry
    BY <1>1
  <2> QED
    BY <1>1, <2>1 DEF LogsInv, ChatTypeOK
<1>2. CASE UNCHANGED chatVars
  BY <1>1, <1>2 DEF chatVars, LogsInv, ChatTypeOK
<1>3. ASSUME NEW t \in Thread, ChatMove(t)
      PROVE  LogsInv'
  <2>1. ASSUME NEW p \in Phone, HandleFonnteWebhook(t, p)
        PROVE  LogsInv'
    BY <1>1, <2>1, CountStep DEF HandleFonnteWebhook, LetThrough, LogsInv
  <2>2. ASSUME NEW i \in DOMAIN wa, EchoArrives(t, i) \/ EchoUnread(t, i)
        PROVE  LogsInv'
    <3>1. wa[i].phone \in Phone
      BY <2>2, RowTyped DEF EchoArrives, EchoUnread, Row
    <3>2. misheard' \in BOOLEAN /\ UNCHANGED <<chat, handled, excused>>
      BY <2>2 DEF EchoArrives, EchoUnread, LogsInv, ChatTypeOK
    <3>3. flood' \in [Phone -> 0..FloodLimit + 1]
      BY <2>2, <3>1, CountStep DEF EchoArrives, EchoUnread, LetThrough, LogsInv, ChatTypeOK
    <3> QED
      BY <3>2, <3>3 DEF LogsInv, ChatTypeOK
  <2>3. CASE LogMessage(t)
    BY <1>1, <2>3, LogMessageStep, LogStep DEF LogsInv, ChatTypeOK
  <2>4. CASE GenerateReply(t)
    BY <1>1, <2>4, GenerateReplyStep, LogStep DEF LogsInv, ChatTypeOK
  <2>5. CASE StayOut(t) \/ Replied(t)
    BY <1>2, <2>5 DEF StayOut, Replied, chatVars
  <2>6. CASE Fails(t)
    <3>1. UNCHANGED <<chat, flood, handled, misheard>> /\ excused' \subseteq excused \cup {run[t].phone}
          /\ excused \subseteq excused' /\ run[t].phone \in Phone
      BY <2>6, FailsStep DEF Excuse
    <3> QED
      BY <3>1 DEF LogsInv, ChatTypeOK
  <2> QED
    BY <1>3, <2>1, <2>2, <2>3, <2>4, <2>5, <2>6 DEF ChatMove
<1>4. ASSUME NEW p \in Phone, PhoneMove(p)
      PROVE  LogsInv'
  <2>1. UNCHANGED <<chat, misheard>> /\ flood' \in [Phone -> 0..FloodLimit + 1]
    BY <1>4, FloodAssumption DEF PhoneMove, TakeOver, HandBack, NewMinute, LogsInv, ChatTypeOK
  <2>2. handled' \subseteq excused' /\ excused' \subseteq Phone
    BY <1>4 DEF PhoneMove, TakeOver, HandBack, NewMinute, LogsInv, ChatTypeOK
  <2> QED
    BY <2>1, <2>2 DEF LogsInv, ChatTypeOK
<1>5. ASSUME NEW P \in Processes, Die(P)
      PROVE  LogsInv'
  <2>1. UNCHANGED <<chat, handled, misheard>>
    BY <1>5 DEF Die
  <2>2. \A t \in P : run[t].job = "chat" => run[t].phone \in Phone
    BY <1>5, DieStep, WhoIsWhere DEF Chatting
  <2>3. excused \subseteq excused' /\ excused' \subseteq Phone
    BY <1>5, <2>2 DEF Die, LogsInv, ChatTypeOK
  <2>4. flood' \in [Phone -> 0..FloodLimit + 1]
    BY <1>5, FloodAssumption DEF Die, LogsInv, ChatTypeOK
  <2> QED
    BY <2>1, <2>3, <2>4 DEF LogsInv, ChatTypeOK
<1>6. CASE (\E t \in Thread : TimesOut(t)) \/ TimeMove \/ Still
  BY <1>2, <1>6 DEF TimesOut, TimeMove, Still, chatVars
<1> QED
  BY <1>2, <1>3, <1>4, <1>5, <1>6, Moves

\* A step that writes no row and sends none.
LEMMA FlightsQuiet ==
  ASSUME FlightsInv, NEW t \in Thread, Only(t), ~Flying(run[t]), ~Flying(run'[t]),
         UNCHANGED <<wa, now>>
  PROVE  FlightsInv'
<1>1. \A o \in Thread : Flying(run'[o]) => o # t /\ run'[o] = run[o] /\ Flying(run[o])
  BY DEF Only
<1>2. \A o \in Thread : Flying(run[o]) => o # t /\ run'[o] = run[o] /\ Flying(run'[o])
  BY DEF Only
<1> QED
  BY <1>1, <1>2 DEF FlightsInv

\* A step that writes a row of its own and sends none.
LEMMA FlightsAdded ==
  ASSUME FlightsInv, NEW t \in Thread, Only(t), ~Flying(run[t]),
         NEW row, RowAdded(row), row.at <= now, row.heard <= row.copies,
         UNCHANGED now,
         IF Flying(run'[t]) THEN run'[t].row = Len(wa) + 1 /\ Flight(run'[t], row)
                            ELSE Ended(row)
  PROVE  FlightsInv'
<1> DEFINE k == Len(wa) + 1
<1>1. /\ wa' \in Seq(Row) /\ DOMAIN wa' = DOMAIN wa \cup {k} /\ k \notin DOMAIN wa
      /\ wa'[k] = row /\ \A i \in DOMAIN wa : wa'[i] = wa[i]
  BY DEF RowAdded
<1> HIDE DEF k
<1>2. \A o \in Thread : o # t => run'[o] = run[o]
  BY DEF Only
<1>3. \A o \in Thread : Flying(run[o]) => o # t /\ run'[o] = run[o] /\ run[o].row \in DOMAIN wa
                                          /\ Flight(run[o], wa[run[o].row])
  BY <1>2 DEF FlightsInv
<1>4. \A i \in DOMAIN wa' : wa'[i].at <= now' /\ wa'[i].heard <= wa'[i].copies
  BY <1>1 DEF FlightsInv
<1>5. \A o \in Thread : Flying(run'[o]) => /\ run'[o].row \in DOMAIN wa'
                                           /\ Flight(run'[o], wa'[run'[o].row])
                                           /\ o = t <=> run'[o].row = k
  BY <1>1, <1>2, <1>3 DEF k
<1>6. \A o, u \in Thread :
        Flying(run'[o]) /\ Flying(run'[u]) /\ run'[o].row = run'[u].row => o = u
  BY <1>2, <1>3, <1>5 DEF FlightsInv
<1>7. \A i \in DOMAIN wa' :
        Ended(wa'[i]) \/ \E o \in Thread : Flying(run'[o]) /\ run'[o].row = i
  <2>1. Ended(wa'[k]) \/ (Flying(run'[t]) /\ run'[t].row = k)
    BY <1>1 DEF k
  <2>2. ASSUME NEW i \in DOMAIN wa
        PROVE  Ended(wa'[i]) \/ \E o \in Thread : Flying(run'[o]) /\ run'[o].row = i
    BY <1>1, <1>3 DEF FlightsInv
  <2> QED
    BY <1>1, <2>1, <2>2
<1> QED
  BY <1>1, <1>4, <1>5, <1>6, <1>7 DEF FlightsInv

\* An attempt writes its own row.
LEMMA FlightsAttempted ==
  ASSUME FlightsInv, NEW t \in Thread, Only(t), Attempted(t), UNCHANGED now
  PROVE  FlightsInv'
<1> DEFINE r == run[t].row
<1>1. /\ Flying(run[t]) /\ r \in DOMAIN wa /\ run'[t].row = r
      /\ wa' \in Seq(Row) /\ DOMAIN wa' = DOMAIN wa
      /\ \A i \in DOMAIN wa : i # r => wa'[i] = wa[i]
      /\ SameLetter(wa'[r], wa[r]) /\ wa'[r].heard = wa[r].heard
      /\ wa[r].copies <= wa'[r].copies
      /\ Outcome(run'[t], wa'[r])
  BY DEF Attempted, RowWritten, FlightsInv
<1>2. wa[r] \in Row /\ wa'[r] \in Row
  BY <1>1 DEF FlightsInv
<1> HIDE DEF r
<1>3. \A o \in Thread : o # t => run'[o] = run[o] /\ (Flying(run[o]) => run[o].row # r)
  BY <1>1 DEF Only, FlightsInv, r
<1>4. \A i \in DOMAIN wa' : wa'[i].at <= now' /\ wa'[i].heard <= wa'[i].copies
  <2>1. wa'[r].at = wa[r].at /\ wa[r].heard <= wa[r].copies /\ wa[r].at <= now
    BY <1>1 DEF SameLetter, FlightsInv
  <2>2. wa[r].heard \in Nat /\ wa[r].copies \in Nat /\ wa'[r].copies \in Nat
    BY <1>2 DEF Row
  <2>3. wa'[r].at <= now' /\ wa'[r].heard <= wa'[r].copies
    BY <1>1, <2>1, <2>2
  <2> QED
    BY <1>1, <2>3 DEF FlightsInv
<1>5. \A o \in Thread : Flying(run'[o]) => /\ run'[o].row \in DOMAIN wa'
                                           /\ Flight(run'[o], wa'[run'[o].row])
  BY <1>1, <1>3 DEF FlightsInv, Outcome
<1>6. \A o, u \in Thread :
        Flying(run'[o]) /\ Flying(run'[u]) /\ run'[o].row = run'[u].row => o = u
  BY <1>1, <1>3 DEF FlightsInv
<1>7. \A i \in DOMAIN wa' :
        Ended(wa'[i]) \/ \E o \in Thread : Flying(run'[o]) /\ run'[o].row = i
  <2>1. Ended(wa'[r]) \/ (Flying(run'[t]) /\ run'[t].row = r)
    BY <1>1 DEF Outcome
  <2>2. ASSUME NEW i \in DOMAIN wa, i # r
        PROVE  Ended(wa'[i]) \/ \E o \in Thread : Flying(run'[o]) /\ run'[o].row = i
    <3>1. CASE Ended(wa[i])
      BY <1>1, <2>2, <3>1
    <3>2. ASSUME NEW o \in Thread, Flying(run[o]), run[o].row = i
          PROVE  Flying(run'[o]) /\ run'[o].row = i
      BY <1>3, <2>2, <3>2 DEF r
    <3> QED
      BY <3>1, <3>2 DEF FlightsInv
  <2> QED
    BY <1>1, <2>1, <2>2
<1> QED
  BY <1>1, <1>4, <1>5, <1>6, <1>7 DEF FlightsInv

\* Goroutines that die leave their rows pending, and cut off.
LEMMA FlightsDie ==
  ASSUME BaseInv, NEW P \in Processes, Die(P)
  PROVE  FlightsInv'
<1> USE DEF BaseInv
<1>1. /\ P \subseteq Thread
      /\ \A t \in P : run'[t] = Asleep
      /\ \A t \in Thread \ P : run'[t] = run[t]
      /\ ~Flying(Asleep)
      /\ UNCHANGED now
  BY DieStep DEF Die, Flying, Asleep
<1> DEFINE cut(i) == \E t \in P : Sending(t, i)
<1>2. wa' = [i \in DOMAIN wa |-> IF cut(i) THEN [wa[i] EXCEPT !.cut = TRUE] ELSE wa[i]]
  BY DEF Die
<1>3. \A i \in DOMAIN wa : cut(i) <=> \E t \in P : Flying(run[t]) /\ run[t].row = i
  BY DEF Sending, Flying
<1> HIDE DEF cut
<1>4. \A i \in DOMAIN wa : wa[i] \in Row
  BY RowTyped
<1>5. DOMAIN wa' = DOMAIN wa
  BY <1>2
<1>6. ASSUME NEW i \in DOMAIN wa
      PROVE  /\ wa'[i] \in Row
             /\ wa'[i].at = wa[i].at
             /\ wa'[i].heard = wa[i].heard
             /\ wa'[i].copies = wa[i].copies
             /\ \A j : Flight(j, wa[i]) => Flight(j, wa'[i])
             /\ Ended(wa[i]) => Ended(wa'[i])
             /\ cut(i) => Ended(wa'[i])
  <2>1. CASE ~cut(i)
    BY <1>2, <1>4, <2>1
  <2>2. CASE cut(i)
    <3>1. wa'[i] = [wa[i] EXCEPT !.cut = TRUE] /\ wa[i] \in Row
      BY <1>2, <1>4, <2>2
    <3>2. /\ wa'[i] \in Row
          /\ wa'[i].at = wa[i].at /\ wa'[i].heard = wa[i].heard
          /\ wa'[i].copies = wa[i].copies /\ wa'[i].blurred = wa[i].blurred
          /\ wa'[i].status = wa[i].status /\ wa'[i].type = wa[i].type
          /\ wa'[i].cut
      BY <3>1 DEF Row
    <3>3. PICK t \in P : Flying(run[t]) /\ run[t].row = i
      BY <1>3, <2>2
    <3>4. Flight(run[t], wa[i])
      BY <1>1, <3>3 DEF FlightsInv
    <3>5. Ended(wa'[i])
      BY <3>2, <3>4 DEF Flight, Ended
    <3>6. \A j : Flight(j, wa[i]) => Flight(j, wa'[i])
      BY <3>2 DEF Flight
    <3> QED
      BY <3>2, <3>5, <3>6
  <2> QED
    BY <2>1, <2>2
<1>7. wa' \in Seq(Row)
  <2>1. DOMAIN wa = 1..Len(wa) /\ Len(wa) \in Nat
    BY DEF FlightsInv
  <2>2. wa' = [i \in 1..Len(wa) |-> wa'[i]]
    BY <1>2, <2>1
  <2> QED
    BY <1>5, <1>6, <2>1, <2>2
<1>8. \A i \in DOMAIN wa' : wa'[i].at <= now' /\ wa'[i].heard <= wa'[i].copies
  BY <1>1, <1>5, <1>6 DEF FlightsInv
<1>9. \A o \in Thread : Flying(run'[o]) => o \notin P /\ run'[o] = run[o]
  BY <1>1
<1>10. \A o \in Thread : Flying(run'[o]) => /\ run'[o].row \in DOMAIN wa'
                                            /\ Flight(run'[o], wa'[run'[o].row])
  BY <1>5, <1>6, <1>9 DEF FlightsInv
<1>11. \A o, u \in Thread :
         Flying(run'[o]) /\ Flying(run'[u]) /\ run'[o].row = run'[u].row => o = u
  BY <1>9 DEF FlightsInv
<1>12. ASSUME NEW i \in DOMAIN wa'
       PROVE  Ended(wa'[i]) \/ \E o \in Thread : Flying(run'[o]) /\ run'[o].row = i
  <2>1. CASE Ended(wa[i])
    BY <1>5, <1>6, <2>1
  <2>2. ASSUME NEW o \in Thread, Flying(run[o]), run[o].row = i
        PROVE  Ended(wa'[i]) \/ (Flying(run'[o]) /\ run'[o].row = i)
    BY <1>1, <1>3, <1>5, <1>6, <2>2
  <2> QED
    BY <1>5, <2>1, <2>2 DEF FlightsInv
<1> QED
  BY <1>7, <1>8, <1>10, <1>11, <1>12 DEF FlightsInv

\* A message that comes back is counted in its row, and no more often than it
\* went out.
LEMMA EchoRow ==
  ASSUME FlightsInv, NEW t \in Thread, NEW i \in DOMAIN wa,
         EchoArrives(t, i) \/ EchoUnread(t, i)
  PROVE  /\ wa' \in Seq(Row)
         /\ DOMAIN wa' = DOMAIN wa
         /\ \A k \in DOMAIN wa :
              /\ SameLetter(wa'[k], wa[k])
              /\ wa'[k].status = wa[k].status
              /\ wa'[k].copies = wa[k].copies
              /\ wa'[k].blurred = wa[k].blurred
              /\ wa'[k].cut = wa[k].cut
              /\ wa'[k].heard <= wa'[k].copies
<1> DEFINE row == [wa[i] EXCEPT !.heard = @ + 1]
<1>1. wa[i] \in Row /\ wa[i].heard < wa[i].copies /\ wa' = [wa EXCEPT ![i] = row]
  BY RowTyped DEF EchoArrives, EchoUnread
<1>2. wa[i].heard + 1 \in 0..MaxAttempts /\ wa[i].heard + 1 <= wa[i].copies
  BY <1>1 DEF Row, MaxAttempts
<1>3. row \in Row
  BY <1>1, <1>2 DEF Row
<1>4. /\ SameLetter(row, wa[i]) /\ row.status = wa[i].status /\ row.copies = wa[i].copies
      /\ row.blurred = wa[i].blurred /\ row.cut = wa[i].cut /\ row.heard <= row.copies
  BY <1>1, <1>2 DEF Row, SameLetter
<1> HIDE DEF row
<1>5. i \in 1..Len(wa) /\ wa \in Seq(Row)
  BY DEF FlightsInv
<1>6. wa' \in Seq(Row) /\ DOMAIN wa' = DOMAIN wa
  BY <1>1, <1>3, <1>5, ExceptSeq
<1>7. \A k \in DOMAIN wa : wa'[k] = IF k = i THEN row ELSE wa[k]
  BY <1>1, <1>5
<1>8. \A k \in DOMAIN wa : wa[k].heard <= wa[k].copies /\ SameLetter(wa[k], wa[k])
  BY DEF FlightsInv, SameLetter
<1> QED
  BY <1>4, <1>6, <1>7, <1>8

\* An echo of a message that went out is counted on its row.
LEMMA FlightsEcho ==
  ASSUME BaseInv, NEW t \in Thread, NEW i \in DOMAIN wa,
         EchoArrives(t, i) \/ EchoUnread(t, i), UNCHANGED now
  PROVE  FlightsInv'
<1> USE DEF BaseInv
<1>1. /\ wa' \in Seq(Row) /\ DOMAIN wa' = DOMAIN wa
      /\ \A k \in DOMAIN wa : wa'[k].at = wa[k].at /\ wa'[k].heard <= wa'[k].copies
      /\ \A k \in DOMAIN wa : Ended(wa[k]) => Ended(wa'[k])
      /\ \A k \in DOMAIN wa : \A j : Flight(j, wa[k]) => Flight(j, wa'[k])
  BY EchoRow DEF SameLetter, Ended, Flight
<1>2. \A o \in Thread : /\ Flying(run'[o]) <=> Flying(run[o])
                        /\ Flying(run[o]) => run'[o] = run[o]
  <2>1. wa[i].phone \in Phone /\ wa[i].says \in Answers \cup {Null}
    BY RowTyped DEF EchoArrives, EchoUnread, Row
  <2>2. \/ UNCHANGED run
        \/ Only(t) /\ run[t] = Asleep /\ run'[t].pc = "hear"
    BY <2>1, LetThroughStep DEF EchoArrives, EchoUnread
  <2> QED
    BY <2>2 DEF Only, Flying, Asleep
<1>3. \A k \in DOMAIN wa' : wa'[k].at <= now' /\ wa'[k].heard <= wa'[k].copies
  BY <1>1 DEF FlightsInv
<1>4. \A o \in Thread : Flying(run'[o]) => /\ run'[o].row \in DOMAIN wa'
                                           /\ Flight(run'[o], wa'[run'[o].row])
  BY <1>1, <1>2 DEF FlightsInv
<1>5. \A o, u \in Thread :
        Flying(run'[o]) /\ Flying(run'[u]) /\ run'[o].row = run'[u].row => o = u
  BY <1>2 DEF FlightsInv
<1>6. \A k \in DOMAIN wa' :
        Ended(wa'[k]) \/ \E o \in Thread : Flying(run'[o]) /\ run'[o].row = k
  BY <1>1, <1>2 DEF FlightsInv
<1> QED
  BY <1>1, <1>3, <1>4, <1>5, <1>6 DEF FlightsInv

\* Each row stays with the goroutine that wrote it until it has ended.
LEMMA FlightsStep == BaseInv /\ [Next]_vars => FlightsInv'
<1> SUFFICES ASSUME BaseInv, [Next]_vars PROVE FlightsInv'
  OBVIOUS
<1> USE DEF BaseInv
<1>1. ~Flying(Asleep)
  BY DEF Flying, Asleep
<1>2. CASE UNCHANGED <<wa, run, now>>
  BY <1>2 DEF FlightsInv
<1>3. ASSUME NEW t \in Thread, JobMove(t), UNCHANGED now
      PROVE  FlightsInv'
  <2>1. ASSUME NEW j \in Jobs, ListDue(t, j)
        PROVE  FlightsInv'
    BY <1>1, <1>3, <2>1, ListDueStep, FlightsQuiet DEF Flying
  <2>2. ASSUME NEW x \in Ref, Take(t, x)
        PROVE  FlightsInv'
    BY <1>3, <2>2, TakeStep, FlightsQuiet DEF Flying
  <2>3. CASE After(t) \/ CheckToday(t) \/ CheckFails(t) \/ Warn(t) \/ Finish(t)
    BY <1>1, <1>3, <2>3, AfterStep, CheckTodayStep, WarnStep, FinishStep, FlightsQuiet
       DEF Flying
  <2>4. CASE Mark(t) \/ MarkFails(t)
    <3>1. ~Flying(run[t]) /\ ~Flying(run'[t]) /\ Only(t)
      BY <2>4, MarkStep DEF Flying
    <3>2. CASE UNCHANGED wa
      BY <1>3, <3>1, <3>2, FlightsQuiet
    <3>3. CASE wa' = Append(wa, NewRow(t, "QUOTA_WARNING", "sent"))
      <4> DEFINE row == NewRow(t, "QUOTA_WARNING", "sent")
      <4>1. row \in Row
        BY NewRowTyped DEF Types
      <4>2. RowAdded(row)
        BY <3>3, <4>1, AppendedRow DEF FlightsInv
      <4>3. row.at <= now /\ row.heard <= row.copies /\ Ended(row)
        BY DEF NewRow, Ended, TimeInv
      <4> HIDE DEF row
      <4> QED
        BY <1>3, <3>1, <4>2, <4>3, FlightsAdded
    <3> QED
      BY <2>4, <3>2, <3>3, MarkStep
  <2> QED
    BY <1>3, <2>1, <2>2, <2>3, <2>4 DEF JobMove
<1>4. ASSUME NEW t \in Thread, AttemptMove(t), UNCHANGED now
      PROVE  FlightsInv'
  BY <1>4, AttemptStep, FlightsAttempted
<1>5. ASSUME NEW t \in Thread, SendMove(t), UNCHANGED now
      PROVE  FlightsInv'
  <2>1. CASE SendFails(t)
    BY <1>5, <2>1, SendFailsStep, FlightsQuiet DEF Flying
  <2>2. CASE Send(t, MessageType(t))
    <3> DEFINE row == NewRow(t, MessageType(t), "pending")
    <3>1. run[t].pc = "send" /\ MessageType(t) \in Types
      BY <2>2, MessageTyped DEF Send, RunAt
    <3>2. /\ Only(t) /\ RowAdded(row)
          /\ run'[t].pc = "post" /\ run'[t].row = Len(wa) + 1 /\ run'[t].attempt = 1
      BY <2>2, <3>1, SendStep
    <3>3. row.at <= now /\ row.heard <= row.copies /\ row.copies = 0 /\ row.status = "pending"
      BY DEF NewRow, TimeInv
    <3> HIDE DEF row
    <3>4. Flying(run'[t]) /\ ~Flying(run[t]) /\ Flight(run'[t], row)
      BY <3>1, <3>2, <3>3 DEF Flying, Flight, MaxAttempts
    <3> QED
      BY <1>5, <3>2, <3>3, <3>4, FlightsAdded
  <2> QED
    BY <1>5, <2>1, <2>2 DEF SendMove
<1>6. ASSUME NEW t \in Thread, ChatMove(t), UNCHANGED now
      PROVE  FlightsInv'
  <2>1. ASSUME NEW p \in Phone, HandleFonnteWebhook(t, p)
        PROVE  FlightsInv'
    <3>1. \/ UNCHANGED run
          \/ Only(t) /\ run[t] = Asleep /\ run'[t].pc = "hear"
      BY <2>1, LetThroughStep DEF HandleFonnteWebhook
    <3> QED
      BY <1>1, <1>2, <1>6, <2>1, <3>1, FlightsQuiet DEF HandleFonnteWebhook, Flying
  <2>2. ASSUME NEW i \in DOMAIN wa, EchoArrives(t, i) \/ EchoUnread(t, i)
        PROVE  FlightsInv'
    BY <1>6, <2>2, FlightsEcho
  <2>3. CASE LogMessage(t) \/ StayOut(t) \/ GenerateReply(t) \/ Fails(t)
    BY <1>1, <1>6, <2>3, LogMessageStep, StayOutStep, GenerateReplyStep, FailsStep, FlightsQuiet
       DEF Flying
  <2>4. CASE Replied(t)
    BY <1>1, <1>6, <2>4, RestStep, FlightsQuiet DEF Replied, Flying
  <2> QED
    BY <1>6, <2>1, <2>2, <2>3, <2>4 DEF ChatMove
<1>7. ASSUME NEW t \in Thread, TimesOut(t)
      PROVE  FlightsInv'
  <2>1. /\ Only(t) /\ run'[t].pc = run[t].pc /\ run'[t].row = run[t].row
        /\ \A row : Flight(run[t], row) => Flight(run'[t], row)
        /\ UNCHANGED <<wa, now>>
    BY <1>7, TimesOutStep
  <2>2. \A o \in Thread : /\ Flying(run'[o]) <=> Flying(run[o])
                          /\ run'[o].row = run[o].row
                          /\ \A row : Flight(run[o], row) => Flight(run'[o], row)
    BY <2>1 DEF Only, Flying
  <2>3. \A o \in Thread : Flying(run'[o]) => /\ run'[o].row \in DOMAIN wa'
                                             /\ Flight(run'[o], wa'[run'[o].row])
    BY <2>1, <2>2 DEF FlightsInv
  <2>4. \A o, u \in Thread :
          Flying(run'[o]) /\ Flying(run'[u]) /\ run'[o].row = run'[u].row => o = u
    BY <2>2 DEF FlightsInv
  <2>5. \A i \in DOMAIN wa' :
          Ended(wa'[i]) \/ \E o \in Thread : Flying(run'[o]) /\ run'[o].row = i
    BY <2>1, <2>2 DEF FlightsInv
  <2> QED
    BY <2>1, <2>3, <2>4, <2>5 DEF FlightsInv
<1>8. ASSUME NEW P \in Processes, Die(P)
      PROVE  FlightsInv'
  BY <1>8, FlightsDie
<1>9. CASE TimeMove
  <2>1. ASSUME NEW i \in DOMAIN wa
        PROVE  wa[i].at <= now + 1
    <3>1. wa[i].at <= now /\ wa[i].at \in Int /\ now \in Int
      BY RowTyped DEF FlightsInv, TimeInv, Row
    <3> QED
      BY <3>1
  <2> QED
    BY <1>9, <2>1 DEF TimeMove, FlightsInv
<1> QED
  BY <1>2, <1>3, <1>4, <1>5, <1>6, <1>7, <1>8, <1>9, Moves
     DEF PhoneMove, TakeOver, HandBack, NewMinute, Still, Outbox

\* Nothing is under way at first.
LEMMA BaseInit == Init => BaseInv
<1> SUFFICES ASSUME Init PROVE BaseInv
  OBVIOUS
<1>1. PlacesInv
  BY AsleepPlaced DEF Init, PlacesInv, Placed
<1>2. LogsInv
  <2>1. chat \in [Phone -> Seq(Entry)] /\ \A p \in Phone : chat[p] = <<>>
    BY DEF Init, ChatInit
  <2>2. flood \in [Phone -> 0..FloodLimit + 1]
    BY FloodAssumption DEF Init, ChatInit
  <2>3. handled = {} /\ excused = {} /\ misheard \in BOOLEAN
    BY DEF Init, ChatInit
  <2> QED
    BY <2>1, <2>2, <2>3 DEF LogsInv, ChatTypeOK
<1>3. FlightsInv
  <2>1. ~Flying(Asleep)
    BY DEF Flying, Asleep
  <2> QED
    BY <2>1 DEF Init, FlightsInv
<1>4. TimeInv
  BY BudgetAssumption, TickAssumption DEF Init, TimeInv, Events
<1> QED
  BY <1>1, <1>2, <1>3, <1>4 DEF BaseInv

\* Every step keeps the base invariant.
LEMMA BaseStep == BaseInv /\ [Next]_vars => BaseInv'
BY PlacesStep, LogsStep, FlightsStep, TimeStep DEF BaseInv

\* The log does not lie.  A row is pending while a goroutine sends it, or when
\* what became of it could not be written; what is marked sent went out, what is
\* marked failed did not, unless an answer got lost or told nothing.
THEOREM LogIsTrue == Spec => []StatusIsTrue
<1>1. ASSUME BaseInv
      PROVE  StatusIsTrue
  <2> SUFFICES ASSUME NEW i \in DOMAIN wa
               PROVE  /\ wa[i].status = "sent" => wa[i].copies > 0 \/ wa[i].type = "QUOTA_WARNING"
                      /\ wa[i].status = "failed" /\ wa[i].copies > 0 => wa[i].blurred
                      /\ wa[i].copies > 1 => wa[i].blurred
                      /\ wa[i].status = "pending" => wa[i].cut \/ \E t \in Thread : Sending(t, i)
    BY DEF StatusIsTrue
  <2>1. CASE Ended(wa[i])
    BY <2>1 DEF Ended
  <2>2. ASSUME NEW t \in Thread, Flying(run[t]), run[t].row = i
        PROVE  /\ wa[i].status = "pending"
               /\ wa[i].copies > 1 => wa[i].blurred
               /\ Sending(t, i)
    BY <1>1, <2>2 DEF BaseInv, FlightsInv, Flight, Sending, Flying
  <2> QED
    BY <1>1, <2>1, <2>2 DEF BaseInv, FlightsInv
<1> QED
  BY <1>1, BaseInit, BaseStep, PTL DEF Spec

-----------------------------------------------------------------------------
(* What was sent is remembered.                                            *)

Letter == [type : JobTypes, ref : Ref \cup {Null}, at : 0..LastTick]

MailInv ==
  /\ mail \in Seq(Letter)
  /\ \A i \in DOMAIN mail : mail[i].at <= now
  /\ overlap \subseteq JobTypes
  /\ unmarked \subseteq Batch

\* An e-mail is about what the goroutine that sends it is at.
LEMMA PostStep ==
  ASSUME MailInv, TimeInv, NEW type \in JobTypes, NEW x \in Ref \cup {Null}, Post(type, x),
         UNCHANGED now
  PROVE  /\ mail' \in Seq(Letter)
         /\ \A i \in DOMAIN mail' : mail'[i].at <= now'
<1>1. CASE UNCHANGED mail
  BY <1>1 DEF MailInv
<1>2. CASE mail' = Append(mail, [type |-> type, ref |-> x, at |-> now])
  <2> DEFINE letter == [type |-> type, ref |-> x, at |-> now]
  <2>1. letter \in Letter /\ letter.at <= now
    BY DEF Letter, TimeInv
  <2> HIDE DEF letter
  <2>2. mail' \in Seq(Letter) /\ DOMAIN mail' = DOMAIN mail \cup {Len(mail) + 1}
    BY <1>2, <2>1 DEF MailInv, letter
  <2>3. /\ \A i \in DOMAIN mail : mail'[i] = mail[i]
        /\ mail'[Len(mail) + 1] = letter
    BY <1>2 DEF MailInv, letter
  <2> QED
    BY <2>1, <2>2, <2>3 DEF MailInv
<1> QED
  BY <1>1, <1>2 DEF Post

\* Every step keeps what is known of the e-mails.
LEMMA MailStep == BaseInv /\ MailInv /\ [Next]_vars => MailInv'
<1> SUFFICES ASSUME BaseInv, MailInv, [Next]_vars PROVE MailInv'
  OBVIOUS
<1> USE DEF BaseInv
<1>1. ASSUME NEW type \in JobTypes, NEW x \in Ref \cup {Null}, Post(type, x),
             UNCHANGED <<overlap, unmarked, now>>
      PROVE  MailInv'
  BY <1>1, PostStep DEF MailInv
<1>2. CASE UNCHANGED <<jobVars, now>>
  BY <1>2 DEF MailInv, jobVars
<1>3. ASSUME NEW t \in Thread, JobMove(t), UNCHANGED now
      PROVE  MailInv'
  <2>1. ASSUME NEW j \in Jobs, ListDue(t, j)
        PROVE  MailInv'
    <3>1. j.type \in JobTypes
      BY JobNames
    <3>2. overlap' \subseteq overlap \cup {j.type} /\ UNCHANGED <<mail, unmarked>>
      BY <2>1, ListDueStep
    <3> QED
      BY <1>3, <3>1, <3>2 DEF MailInv
  <2>2. CASE \E x \in Ref : Take(t, x)
    BY <1>2, <1>3, <2>2, TakeStep DEF jobVars
  <2>7. CASE CheckToday(t) \/ CheckFails(t)
    BY <1>3, <2>7, CheckTodayStep DEF MailInv, Warning
  <2>3. CASE After(t)
    <3>1. /\ run[t].job \in JobTypes
          /\ run[t].on \in Ref
          /\ Post(run[t].job, run[t].on)
          /\ UNCHANGED <<overlap, unmarked, now>>
      BY <1>3, <2>3, AfterStep, JobNames, JobFacts DEF Reminding
    <3> QED
      BY <1>1, <3>1
  <2>4. CASE Warn(t)
    <3>1. /\ "QUOTA_WARNING" \in JobTypes
          /\ run[t].on \in Ref
          /\ Post("QUOTA_WARNING", run[t].on)
          /\ UNCHANGED <<overlap, unmarked, now>>
      BY <1>3, <2>4, WarnStep, JobNames, RefAssumption DEF Warning
    <3> QED
      BY <1>1, <3>1
  <2>5. CASE Finish(t)
    BY <1>1, <1>3, <2>5, FinishStep, JobNames
  <2>6. CASE Mark(t) \/ MarkFails(t)
    BY <1>3, <2>6, MarkStep DEF MailInv, Warning
  <2> QED
    BY <1>3, <2>1, <2>2, <2>3, <2>4, <2>5, <2>6, <2>7 DEF JobMove
<1>4. ASSUME NEW P \in Processes, Die(P)
      PROVE  MailInv'
  <2>1. \A t \in P : RunAt(t, "mark") => run[t].on \in Batch
    BY <1>4, DieStep, WhoIsWhere DEF RunAt, Warning
  <2>2. unmarked' \subseteq Batch
    BY <1>4, <2>1 DEF Die, MailInv
  <2> QED
    BY <1>4, <2>2 DEF Die, MailInv
<1>5. CASE TimeMove
  <2>1. ASSUME NEW i \in DOMAIN mail
        PROVE  mail[i].at <= now + 1
    <3>1. mail[i] \in Letter /\ mail[i].at <= now
      BY DEF MailInv
    <3>2. mail[i].at \in Int /\ now \in Int
      BY <3>1 DEF TimeInv, Letter
    <3> QED
      BY <3>1, <3>2
  <2> QED
    BY <1>5, <2>1 DEF TimeMove, MailInv, jobVars
<1> QED
  BY <1>2, <1>3, <1>4, <1>5, Moves DEF TimesOut, Still, Outbox

\* Less apart than the job tells things apart.
RecentAt(j, m, n) ==
  CASE j.memory = "window" -> WithinWindow(m, n)
    [] j.memory = "day" -> SameDay(m, n)
    [] OTHER -> FALSE

\* Rows of the job about x that it remembers at time n.
RemindedIn(rows, n, j, x) ==
  \E i \in DOMAIN rows : rows[i].type = j.type /\ rows[i].ref = x /\ RecentAt(j, rows[i].at, n)

\* Reminded reads the present log at the present time.
LEMMA RemindedHere ==
  ASSUME NEW j, NEW x
  PROVE  Reminded(j, x) <=> RemindedIn(wa, now, j, x)
BY DEF Reminded, RemindedIn, Recent, RecentAt

\* What a goroutine may still send, or mark, without asking again.
Owes(j) ==
  IF j.job = "QUOTA_WARNING"
  THEN IF j.pc \in {"warn", "mark"} /\ ~j.late THEN {j.on} ELSE {}
  ELSE IF j.pc = "send" THEN j.left \cup {j.on} ELSE j.left

\* Two rows of a job about the same thing.
RemindedApart ==
  \A i, k \in DOMAIN wa :
    /\ i < k
    /\ wa[i].type \in JobTypes /\ wa[k].type = wa[i].type /\ wa[k].ref = wa[i].ref
    /\ wa[i].type \notin overlap /\ wa[i].ref \notin unmarked
    => ~RecentAt(JobNamed[wa[i].type], wa[i].at, wa[k].at)

\* Two runs of a job are an overlap.
Alone ==
  \A t, u \in Thread :
    t # u /\ run[t].job \in JobTypes /\ run[u].job = run[t].job => run[t].job \in overlap

\* Nothing a run still owes has been sent, as far as it could look.
Unsent ==
  \A t \in Thread : run[t].job \in JobTypes /\ run[t].job \notin overlap =>
    \A x \in Owes(run[t]) \ unmarked : ~RemindedIn(wa, now, JobNamed[run[t].job], x)

MemoryInv == RemindedApart /\ Alone /\ Unsent

\* What is not recent any more will not be recent again.
LEMMA RecentLater ==
  ASSUME NEW j, NEW m \in Nat, NEW n \in Nat, NEW l \in Nat, m <= n, n <= l,
         RecentAt(j, m, l)
  PROVE  RecentAt(j, m, n)
<1>1. WithinWindow(m, l) => WithinWindow(m, n)
  BY DEF WithinWindow, TicksPerDay
<1>2. SameDay(m, l) => SameDay(m, n)
  <2> SUFFICES ASSUME m \div 2 = l \div 2 PROVE m \div 2 = n \div 2
    BY DEF SameDay, TicksPerDay
  <2>1. m \div 2 <= n \div 2 /\ n \div 2 <= l \div 2
    OBVIOUS
  <2> QED
    BY <2>1
<1> QED
  BY <1>1, <1>2 DEF RecentAt

\* Rows of jobs are those there were.
JobRowsKept ==
  \A i \in DOMAIN wa' : wa'[i].type \in JobTypes => i \in DOMAIN wa /\ SameLetter(wa'[i], wa[i])

\* What a run owes after a step it owed before, or has just looked up.
StillOwes(t) ==
  run'[t].job \in JobTypes /\ run'[t].job \notin overlap' =>
    \A x \in Owes(run'[t]) \ unmarked' :
      \/ run'[t].job = run[t].job /\ x \in Owes(run[t])
      \/ ~RemindedIn(wa, now, JobNamed[run'[t].job], x)

\* Rows that count later counted before.
LEMMA RemindedBefore ==
  ASSUME BaseInv, JobRowsKept, now' \in Nat, now <= now', NEW type \in JobTypes, NEW x,
         RemindedIn(wa, now, JobNamed[type], x)'
  PROVE  RemindedIn(wa, now, JobNamed[type], x)
<1> DEFINE j == JobNamed[type]
<1>1. PICK i \in DOMAIN wa' : wa'[i].type = j.type /\ wa'[i].ref = x /\ RecentAt(j, wa'[i].at, now')
  BY DEF RemindedIn
<1>2. j.type = type
  BY JobNames
<1>3. /\ i \in DOMAIN wa /\ wa[i].type = type /\ wa[i].ref = x
      /\ wa[i].at = wa'[i].at
  BY <1>1, <1>2 DEF JobRowsKept, SameLetter
<1>4. wa[i].at \in Nat /\ wa[i].at <= now /\ now \in Nat
  BY <1>3, RowTyped DEF BaseInv, FlightsInv, TimeInv, Row
<1> HIDE DEF j
<1>5. RecentAt(j, wa[i].at, now)
  BY <1>1, <1>3, <1>4, RecentLater
<1> QED
  BY <1>2, <1>3, <1>5 DEF RemindedIn, j

\* A step that writes no row of a job.
LEMMA MemoryKept ==
  ASSUME BaseInv, MemoryInv, JobRowsKept, now' \in Nat, now <= now',
         overlap \subseteq overlap', unmarked \subseteq unmarked',
         Alone', \A t \in Thread : StillOwes(t)
  PROVE  MemoryInv'
<1>1. RemindedApart'
  BY DEF MemoryInv, RemindedApart, JobRowsKept, SameLetter
<1>2. Unsent'
  <2> SUFFICES ASSUME NEW t \in Thread, run'[t].job \in JobTypes, run'[t].job \notin overlap',
                      NEW x \in Owes(run'[t]) \ unmarked',
                      RemindedIn(wa, now, JobNamed[run[t].job], x)'
               PROVE  FALSE
    BY DEF Unsent
  <2>1. RemindedIn(wa, now, JobNamed[run'[t].job], x)
    BY RemindedBefore
  <2>2. run'[t].job = run[t].job /\ x \in Owes(run[t])
    BY <2>1 DEF StillOwes
  <2> QED
    BY <2>1, <2>2 DEF MemoryInv, Unsent
<1> QED
  BY <1>1, <1>2 DEF MemoryInv

\* The run that owed the message sends it, and owes it no more.
LEMMA MemoryAdded ==
  ASSUME BaseInv, MemoryInv, NEW t \in Thread, Only(t), NEW row, RowAdded(row),
         run[t].job \in JobTypes, run'[t].job = run[t].job,
         row.type = run[t].job, row.ref \in Owes(run[t]), row.at = now,
         Owes(run'[t]) \subseteq Owes(run[t]) \ {row.ref},
         UNCHANGED <<now, overlap, unmarked>>
  PROVE  MemoryInv'
<1> DEFINE n == Len(wa) + 1
           type == run[t].job
<1>1. /\ DOMAIN wa' = DOMAIN wa \cup {n}
      /\ \A i \in DOMAIN wa : wa'[i] = wa[i] /\ i < n /\ i \in Nat
      /\ wa'[n] = row /\ n \in Nat
  BY DEF RowAdded, BaseInv, FlightsInv
<1>2. \A o \in Thread : run'[o].job = run[o].job /\ (o # t => run'[o] = run[o])
  BY DEF Only
<1>3. type \notin overlap /\ row.ref \notin unmarked => ~RemindedIn(wa, now, JobNamed[type], row.ref)
  BY DEF MemoryInv, Unsent
<1>4. JobNamed[type].type = type
  BY JobNames
<1> HIDE DEF n
<1>5. RemindedApart'
  <2> SUFFICES ASSUME NEW i \in DOMAIN wa', NEW k \in DOMAIN wa', i < k,
                      wa'[i].type \in JobTypes, wa'[k].type = wa'[i].type,
                      wa'[k].ref = wa'[i].ref, wa'[i].type \notin overlap,
                      wa'[i].ref \notin unmarked
               PROVE  ~RecentAt(JobNamed[wa'[i].type], wa'[i].at, wa'[k].at)
    BY DEF RemindedApart
  <2>1. CASE k \in DOMAIN wa
    <3>1. i \in DOMAIN wa
      BY <1>1, <2>1
    <3> QED
      BY <1>1, <2>1, <3>1 DEF MemoryInv, RemindedApart
  <2>2. CASE k = n
    <3>1. i \in DOMAIN wa
      BY <1>1, <2>2
    <3>2. wa[i].type = type /\ wa[i].ref = row.ref /\ wa'[k].at = now
      BY <1>1, <2>2, <3>1
    <3> QED
      BY <1>1, <1>3, <1>4, <3>1, <3>2 DEF RemindedIn
  <2> QED
    BY <1>1, <2>1, <2>2
<1>6. Alone'
  BY <1>2 DEF MemoryInv, Alone
<1>7. Unsent'
  <2> SUFFICES ASSUME NEW o \in Thread, run'[o].job \in JobTypes, run'[o].job \notin overlap,
                      NEW x \in Owes(run'[o]) \ unmarked, RemindedIn(wa, now, JobNamed[run[o].job], x)'
               PROVE  FALSE
    BY DEF Unsent
  <2> DEFINE j == JobNamed[run[o].job]
  <2>1. j.type = run[o].job /\ x \in Owes(run[o])
    BY <1>2, JobNames
  <2>2. ~RemindedIn(wa, now, j, x)
    BY <1>2, <2>1 DEF MemoryInv, Unsent
  <2>3. PICK i \in DOMAIN wa' : wa'[i].type = j.type /\ wa'[i].ref = x /\ RecentAt(j, wa'[i].at, now)
    BY <1>2 DEF RemindedIn
  <2> HIDE DEF j
  <2>4. i \notin DOMAIN wa
    BY <1>1, <2>2, <2>3 DEF RemindedIn
  <2>5. run[o].job = type /\ x = row.ref
    BY <1>1, <2>1, <2>3, <2>4
  <2>6. o # t
    BY <2>5
  <2> QED
    BY <1>2, <2>5, <2>6 DEF MemoryInv, Alone
<1> QED
  BY <1>5, <1>6, <1>7 DEF MemoryInv

\* Rows that a step leaves alone, or writes only what became of them to.
LEMMA RowsKept ==
  ASSUME FlightsInv, UNCHANGED wa \/ \E r \in DOMAIN wa : RowWritten(r)
  PROVE  JobRowsKept
BY DEF JobRowsKept, SameLetter, RowWritten

\* One goroutine moves on at the job it does, and owes no more than before.
LEMMA MemoryLess ==
  ASSUME BaseInv, MemoryInv, JobRowsKept, NEW t \in Thread, Only(t),
         \/ run'[t].job \notin JobTypes
         \/ run'[t].job = run[t].job /\ StillOwes(t),
         UNCHANGED <<now, overlap>>, unmarked \subseteq unmarked'
  PROVE  MemoryInv'
<1>1. \A o \in Thread : StillOwes(o)
  BY DEF Only, StillOwes
<1>2. \A o \in Thread : run'[o].job \in JobTypes => run'[o].job = run[o].job
  BY DEF Only
<1>3. Alone'
  BY <1>2 DEF MemoryInv, Alone
<1> QED
  BY <1>1, <1>3, MemoryKept DEF BaseInv, TimeInv

\* A job that starts owes only what it has just found not to be sent.
LEMMA MemoryListed ==
  ASSUME BaseInv, MemoryInv, NEW t \in Thread, NEW j \in Jobs, ListDue(t, j), UNCHANGED now
  PROVE  MemoryInv'
<1>1. /\ Only(t) /\ run[t] = Asleep
      /\ run'[t].pc = "next" /\ run'[t].job = j.type
      /\ j # checkBatchQuota => \A x \in run'[t].left : ~Reminded(j, x)
      /\ overlap' = IF Running(t, j) THEN overlap \cup {j.type} ELSE overlap
      /\ UNCHANGED wa
  BY ListDueStep DEF BaseInv
<1>2. /\ JobNamed[j.type] = j /\ j.type \in JobTypes
      /\ j = checkBatchQuota <=> j.type = "QUOTA_WARNING"
  BY JobNames, JobFacts
<1>3. StillOwes(t)
  <2>1. CASE j = checkBatchQuota
    BY <1>1, <1>2, <2>1 DEF StillOwes, Owes
  <2>2. CASE j # checkBatchQuota
    <3>1. Owes(run'[t]) = run'[t].left
      BY <1>1, <1>2, <2>2 DEF Owes
    <3>2. \A x \in run'[t].left : ~RemindedIn(wa, now, j, x)
      BY <1>1, <2>2, RemindedHere
    <3> QED
      BY <1>1, <1>2, <3>1, <3>2 DEF StillOwes
  <2> QED
    BY <2>1, <2>2
<1>4. \A o \in Thread : StillOwes(o)
  BY <1>1, <1>3 DEF Only, StillOwes
<1>5. Alone'
  <2> SUFFICES ASSUME NEW o \in Thread, NEW u \in Thread, o # u,
                      run'[o].job \in JobTypes, run'[u].job = run'[o].job
               PROVE  run'[o].job \in overlap'
    BY DEF Alone
  <2>1. CASE o # t /\ u # t
    BY <1>1, <2>1 DEF Only, MemoryInv, Alone
  <2>2. CASE o = t
    BY <1>1, <2>2 DEF Only, Running
  <2>3. CASE u = t
    BY <1>1, <2>3 DEF Only, Running
  <2> QED
    BY <2>1, <2>2, <2>3
<1>6. JobRowsKept /\ overlap \subseteq overlap' /\ unmarked \subseteq unmarked'
  BY <1>1 DEF JobRowsKept, SameLetter, ListDue
<1> QED
  BY <1>4, <1>5, <1>6, MemoryKept DEF BaseInv, TimeInv

\* The marker of a warning: the run that warned owed it.
LEMMA MemoryMarked ==
  ASSUME BaseInv, MemoryInv, NEW t \in Thread, Mark(t) \/ MarkFails(t), UNCHANGED now
  PROVE  MemoryInv'
<1> DEFINE row == NewRow(t, "QUOTA_WARNING", "sent")
<1>1. /\ Only(t)
      /\ run[t].pc = "mark" /\ run[t].job = "QUOTA_WARNING" /\ run[t].on \in Batch
      /\ run'[t].pc = "next" /\ run'[t].job = run[t].job
      /\ UNCHANGED overlap
  BY MarkStep DEF BaseInv, Warning
<1>2. Owes(run'[t]) = {} /\ "QUOTA_WARNING" \in JobTypes
  BY <1>1, JobNames DEF Owes
<1>3. CASE UNCHANGED wa /\ unmarked' = unmarked \cup {run[t].on}
  BY <1>1, <1>2, <1>3, RowsKept, MemoryLess DEF BaseInv, StillOwes
<1>4. CASE ~run[t].late /\ wa' = Append(wa, row) /\ UNCHANGED unmarked
  <2>1. row \in Row
    BY NewRowTyped DEF Types, BaseInv
  <2>2. RowAdded(row)
    BY <1>4, <2>1, AppendedRow DEF BaseInv, FlightsInv
  <2>3. row.type = run[t].job /\ row.ref = run[t].on /\ row.at = now
    BY <1>1 DEF NewRow
  <2>4. row.ref \in Owes(run[t])
    BY <1>1, <1>4, <2>3 DEF Owes
  <2> HIDE DEF row
  <2> QED
    BY <1>1, <1>2, <1>4, <2>2, <2>3, <2>4, MemoryAdded
<1> QED
  BY <1>3, <1>4, MarkStep DEF BaseInv

\* A message of a job is about what its run owed; a reply is none of a job's.
LEMMA MemorySent ==
  ASSUME BaseInv, MemoryInv, NEW t \in Thread, SendMove(t),
         UNCHANGED <<now, overlap, unmarked>>
  PROVE  MemoryInv'
<1> DEFINE row == NewRow(t, MessageType(t), "pending")
<1>1. /\ run[t].pc = "send" /\ MessageType(t) \in Types
      /\ run[t].job # "chat" => MessageType(t) = run[t].job /\ Reminding(run[t])
      /\ run[t].job = "chat" <=> MessageType(t) = "CHATBOT_REPLY"
  BY MessageTyped DEF SendMove, Send, SendFails, RunAt, BaseInv
<1>2. /\ Only(t) /\ SameErrand(run'[t], run[t])
      /\ \/ run'[t].pc = "after" /\ UNCHANGED wa
         \/ RowAdded(row) /\ run'[t].pc = "post"
  BY <1>1, SendStep, SendFailsStep DEF SendMove, BaseInv
<1>3. run'[t].job = run[t].job /\ run'[t].left = run[t].left /\ run'[t].on = run[t].on
  BY <1>2 DEF SameErrand
<1>4. row.type = MessageType(t) /\ row.ref = run[t].on /\ row.at = now
  BY DEF NewRow
<1>5. "chat" \notin JobTypes /\ "CHATBOT_REPLY" \notin JobTypes
  BY JobNames
<1> HIDE DEF row
<1>6. CASE UNCHANGED wa /\ run'[t].pc = "after"
  <2>1. StillOwes(t)
    BY <1>1, <1>3, <1>6 DEF StillOwes, Owes
  <2> QED
    BY <1>2, <1>3, <1>6, <2>1, RowsKept, MemoryLess DEF BaseInv
<1>7. CASE RowAdded(row) /\ run[t].job = "chat"
  <2>1. JobRowsKept
    BY <1>1, <1>4, <1>5, <1>7 DEF JobRowsKept, RowAdded, SameLetter
  <2> QED
    BY <1>2, <1>3, <1>5, <1>7, <2>1, MemoryLess
<1>8. CASE RowAdded(row) /\ run'[t].pc = "post" /\ run[t].job # "chat"
  <2>1. /\ run[t].job \in JobTypes \ {"QUOTA_WARNING"}
        /\ run[t].on \notin run[t].left
    BY <1>1, <1>8 DEF Reminding
  <2>2. Owes(run[t]) = run[t].left \cup {run[t].on} /\ Owes(run'[t]) = run[t].left
    BY <1>1, <1>3, <1>8, <2>1 DEF Owes
  <2> QED
    BY <1>1, <1>2, <1>3, <1>4, <1>8, <2>1, <2>2, MemoryAdded
<1> QED
  BY <1>2, <1>6, <1>7, <1>8

\* Chat messages are no business of the jobs.
LEMMA ChatKeepsRows ==
  ASSUME BaseInv, NEW t \in Thread, ChatMove(t)
  PROVE  /\ JobRowsKept
         /\ UNCHANGED run \/ (Only(t) /\ run'[t].job \notin JobTypes)
<1> USE DEF BaseInv
<1>1. "chat" \notin JobTypes /\ Asleep.job \notin JobTypes
  BY JobNames, NumberAssumption DEF Asleep, Types
<1>2. ASSUME NEW p \in Phone, HandleFonnteWebhook(t, p)
      PROVE  JobRowsKept /\ (UNCHANGED run \/ (Only(t) /\ run'[t].job \notin JobTypes))
  BY <1>1, <1>2, RowsKept, LetThroughStep DEF HandleFonnteWebhook
<1>3. ASSUME NEW i \in DOMAIN wa, EchoArrives(t, i) \/ EchoUnread(t, i)
      PROVE  JobRowsKept /\ (UNCHANGED run \/ (Only(t) /\ run'[t].job \notin JobTypes))
  <2>1. wa[i].phone \in Phone /\ wa[i].says \in Answers \cup {Null}
    BY <1>3, RowTyped DEF EchoArrives, EchoUnread, Row
  <2>2. JobRowsKept
    BY <1>3, EchoRow DEF JobRowsKept
  <2> QED
    BY <1>1, <1>3, <2>1, <2>2, LetThroughStep DEF EchoArrives, EchoUnread
<1>4. CASE LogMessage(t) \/ StayOut(t) \/ GenerateReply(t) \/ Fails(t)
  <2>1. Only(t) /\ UNCHANGED wa /\ run'[t].job \notin JobTypes
    BY <1>1, <1>4, LogMessageStep, StayOutStep, GenerateReplyStep, FailsStep
       DEF SameErrand, Chatting
  <2> QED
    BY <2>1, RowsKept
<1>5. CASE Replied(t)
  BY <1>1, <1>5, RestStep, RowsKept DEF Replied
<1> QED
  BY <1>2, <1>3, <1>4, <1>5 DEF ChatMove

\* Every step of a job keeps what the jobs remember.
LEMMA MemoryOfJobs ==
  ASSUME BaseInv, MemoryInv, NEW t \in Thread, JobMove(t), UNCHANGED now
  PROVE  MemoryInv'
<1> USE DEF BaseInv
<1>1. CASE \E j \in Jobs : ListDue(t, j)
  BY <1>1, MemoryListed
<1>2. ASSUME NEW x \in Ref, Take(t, x)
      PROVE  MemoryInv'
  <2>1. /\ Only(t) /\ UNCHANGED <<wa, overlap, unmarked>>
        /\ run[t].pc = "next" /\ x \in run[t].left
        /\ run'[t].job = run[t].job
        /\ run'[t].left = run[t].left \ {x}
        /\ \/ run[t].job = "QUOTA_WARNING" /\ run'[t].pc = "check"
           \/ run[t].job # "QUOTA_WARNING" /\ (run'[t].pc = "send" => run'[t].on = x)
    BY <1>2, TakeStep DEF jobVars
  <2>2. StillOwes(t)
    BY <2>1 DEF StillOwes, Owes
  <2> QED
    BY <2>1, <2>2, RowsKept, MemoryLess
<1>3. CASE After(t)
  <2>1. StillOwes(t)
    BY <1>3, AfterStep DEF StillOwes, Owes, Reminding
  <2> QED
    BY <1>3, <2>1, AfterStep, RowsKept, MemoryLess
<1>4. CASE CheckToday(t) \/ CheckFails(t)
  <2>1. /\ Only(t) /\ run[t].job = "QUOTA_WARNING" /\ run'[t].job = run[t].job
        /\ \/ run'[t].pc = "next"
           \/ /\ run'[t].pc = "warn" /\ run'[t].on = run[t].on
              /\ \/ run'[t].late \/ run[t].on \in unmarked'
                 \/ ~Reminded(checkBatchQuota, run[t].on)
        /\ UNCHANGED <<wa, overlap>> /\ unmarked \subseteq unmarked'
    BY <1>4, CheckTodayStep DEF Warning
  <2>2. JobNamed["QUOTA_WARNING"] = checkBatchQuota
    BY JobNames, JobFields DEF Jobs
  <2>3. StillOwes(t)
    BY <2>1, <2>2, RemindedHere DEF StillOwes, Owes
  <2> QED
    BY <2>1, <2>3, RowsKept, MemoryLess
<1>5. CASE Warn(t)
  <2>1. StillOwes(t)
    BY <1>5, WarnStep DEF StillOwes, Owes, Warning
  <2> QED
    BY <1>5, <2>1, WarnStep, RowsKept, MemoryLess
<1>6. CASE Mark(t) \/ MarkFails(t)
  BY <1>6, MemoryMarked
<1>7. CASE Finish(t)
  <2>1. run'[t].job \notin JobTypes
    BY <1>7, FinishStep, JobNames, NumberAssumption DEF Asleep, Types
  <2> QED
    BY <1>7, <2>1, FinishStep, RowsKept, MemoryLess
<1> QED
  BY <1>1, <1>2, <1>3, <1>4, <1>5, <1>6, <1>7 DEF JobMove

\* What was sent is remembered, and what a run still owes was not sent.
LEMMA MemoryStep == BaseInv /\ MemoryInv /\ [Next]_vars => MemoryInv'
<1> SUFFICES ASSUME BaseInv, MemoryInv, [Next]_vars PROVE MemoryInv'
  OBVIOUS
<1> USE DEF BaseInv
<1>1. ASSUME JobRowsKept, now' \in Nat, now <= now', UNCHANGED overlap,
             unmarked \subseteq unmarked',
             \A t \in Thread : run'[t] = run[t] \/ run'[t].job \notin JobTypes
      PROVE  MemoryInv'
  <2>1. \A t \in Thread : StillOwes(t)
    BY <1>1 DEF StillOwes
  <2>2. Alone'
    BY <1>1 DEF MemoryInv, Alone
  <2> QED
    BY <1>1, <2>1, <2>2, MemoryKept
<1>2. now \in Nat /\ now <= now
  BY DEF TimeInv
<1>3. ASSUME NEW t \in Thread, AttemptMove(t), UNCHANGED <<jobVars, now>>
      PROVE  MemoryInv'
  <2>1. /\ Only(t) /\ Flying(run[t]) /\ SameErrand(run'[t], run[t])
        /\ run'[t].pc \in {"post", "wait", "keep", "after"}
        /\ RowWritten(run[t].row)
        /\ run[t].row \in DOMAIN wa
    BY <1>3, AttemptStep DEF Attempted, FlightsInv
  <2>2. StillOwes(t) /\ run'[t].job = run[t].job
    <3>1. run[t].job # "QUOTA_WARNING"
      BY <2>1, WhoIsWhere DEF Flying, Chatting, Reminding
    <3> QED
      BY <2>1, <3>1 DEF StillOwes, Owes, SameErrand, Flying
  <2> QED
    BY <1>3, <2>1, <2>2, RowsKept, MemoryLess DEF jobVars
<1>4. ASSUME NEW t \in Thread, ChatMove(t), UNCHANGED <<jobVars, now>>
      PROVE  MemoryInv'
  BY <1>1, <1>2, <1>4, ChatKeepsRows DEF Only, jobVars
<1>5. ASSUME NEW t \in Thread, TimesOut(t)
      PROVE  MemoryInv'
  <2>1. StillOwes(t)
    BY <1>5, TimesOutStep DEF StillOwes, Owes
  <2> QED
    BY <1>5, <2>1, TimesOutStep, RowsKept, MemoryLess DEF jobVars
<1>6. ASSUME NEW P \in Processes, Die(P)
      PROVE  MemoryInv'
  <2>1. Asleep.job \notin JobTypes
    BY JobNames, NumberAssumption DEF Asleep, Types
  <2>2. \A t \in Thread : run'[t] = run[t] \/ run'[t].job \notin JobTypes
    BY <1>6, <2>1, DieStep
  <2>3. JobRowsKept
    <3>1. \A i \in DOMAIN wa : wa[i] \in Row
      BY RowTyped
    <3>2. DOMAIN wa' = DOMAIN wa
      BY <1>6 DEF Die
    <3>3. \A i \in DOMAIN wa : wa'[i] = wa[i] \/ wa'[i] = [wa[i] EXCEPT !.cut = TRUE]
      BY <1>6 DEF Die
    <3>4. \A i \in DOMAIN wa : SameLetter(wa'[i], wa[i])
      BY <3>1, <3>3 DEF SameLetter, Row
    <3> QED
      BY <3>2, <3>4 DEF JobRowsKept
  <2> QED
    BY <1>1, <1>2, <1>6, <2>2, <2>3 DEF Die
<1>7. CASE TimeMove
  BY <1>1, <1>2, <1>7, RowsKept DEF TimeMove, jobVars
<1>8. CASE (\E p \in Phone : PhoneMove(p) /\ UNCHANGED <<jobVars, now>>) \/ Still
  BY <1>1, <1>2, <1>8, RowsKept
     DEF PhoneMove, TakeOver, HandBack, NewMinute, jobVars, Still, Outbox
<1> QED
  BY <1>3, <1>4, <1>5, <1>6, <1>7, <1>8, Moves, MemoryOfJobs, MemorySent DEF jobVars

\* Nothing has been sent at first.
LEMMA MemoryInit == Init => MemoryInv
<1> SUFFICES ASSUME Init PROVE MemoryInv
  OBVIOUS
<1>1. \A t \in Thread : run[t].job \notin JobTypes
  BY JobNames, NumberAssumption DEF Init, Asleep, Types
<1>2. DOMAIN wa = {}
  BY DEF Init
<1> QED
  BY <1>1, <1>2 DEF MemoryInv, RemindedApart, Alone, Unsent

\* Nobody is told twice: two messages of a job about the same thing are as far
\* apart as the job remembers what it sent, unless two runs of it overlapped, or
\* the marker of a warning could not be read or written.
THEOREM NobodyToldTwice == Spec => []RemindedOnce
<1>1. RemindedApart => RemindedOnce
  BY JobNames, JobFacts DEF RemindedApart, RemindedOnce, Repeats, RecentAt, JobTypes
<1>2. BaseInv /\ MemoryInv => RemindedOnce
  BY <1>1 DEF MemoryInv
<1> QED
  BY <1>2, BaseInit, BaseStep, MemoryInit, MemoryStep, PTL DEF Spec

-----------------------------------------------------------------------------
(* Whom the admins were warned of.                                         *)

\* A warning has its marker, as late as itself or later, or is getting it.
Followed(letter) ==
  \/ \E k \in DOMAIN wa : /\ wa[k].type = "QUOTA_WARNING" /\ wa[k].ref = letter.ref
                          /\ letter.at <= wa[k].at
  \/ \E t \in Thread : /\ run[t].job = "QUOTA_WARNING" /\ run[t].pc = "mark"
                       /\ run[t].on = letter.ref

Marked ==
  \A i \in DOMAIN mail :
    /\ mail[i].type = "QUOTA_WARNING"
    /\ mail[i].ref \notin unmarked
    /\ "QUOTA_WARNING" \notin overlap
    => Followed(mail[i])

WarnedApart ==
  \A i, k \in DOMAIN mail :
    /\ i < k
    /\ mail[i].type = "QUOTA_WARNING" /\ mail[k].type = "QUOTA_WARNING"
    /\ mail[k].ref = mail[i].ref
    /\ mail[i].ref \notin unmarked
    /\ "QUOTA_WARNING" \notin overlap
    => ~SameDay(mail[i].at, mail[k].at)

WarnInv == WarnedApart /\ Marked

\* Rows stay, with what was written.
RowsStay == \A k \in DOMAIN wa : k \in DOMAIN wa' /\ SameLetter(wa'[k], wa[k])

\* A run that is to write a marker still is, or has, or never will.
MarksCome ==
  \A t \in Thread : run[t].job = "QUOTA_WARNING" /\ run[t].pc = "mark" =>
    \/ run'[t].job = "QUOTA_WARNING" /\ run'[t].pc = "mark" /\ run'[t].on = run[t].on
    \/ run[t].on \in unmarked'
    \/ \E k \in DOMAIN wa' : /\ wa'[k].type = "QUOTA_WARNING" /\ wa'[k].ref = run[t].on
                             /\ wa'[k].at = now

HistoryGrows == unmarked \subseteq unmarked' /\ overlap \subseteq overlap'

WarningsStay ==
  \A i \in DOMAIN mail' : mail'[i].type = "QUOTA_WARNING" => i \in DOMAIN mail /\ mail'[i] = mail[i]

\* A warning that had a marker, or was getting it, has it or is getting it.
LEMMA FollowedStays ==
  ASSUME RowsStay, MarksCome, NEW letter, letter.at <= now, Followed(letter),
         letter.ref \notin unmarked'
  PROVE  \/ \E k \in DOMAIN wa' : /\ wa'[k].type = "QUOTA_WARNING" /\ wa'[k].ref = letter.ref
                                  /\ letter.at <= wa'[k].at
         \/ \E t \in Thread : /\ run'[t].job = "QUOTA_WARNING" /\ run'[t].pc = "mark"
                              /\ run'[t].on = letter.ref
BY DEF RowsStay, MarksCome, SameLetter, Followed

\* A step that warns of nothing.
LEMMA WarnKept ==
  ASSUME MailInv, WarnInv, RowsStay, MarksCome, HistoryGrows, WarningsStay
  PROVE  WarnInv'
<1>1. WarnedApart'
  BY DEF WarnInv, WarnedApart, HistoryGrows, WarningsStay
<1>2. Marked'
  <2> SUFFICES ASSUME NEW i \in DOMAIN mail', mail'[i].type = "QUOTA_WARNING",
                      mail'[i].ref \notin unmarked', "QUOTA_WARNING" \notin overlap'
               PROVE  Followed(mail[i])'
    BY DEF Marked
  <2>1. i \in DOMAIN mail /\ mail'[i] = mail[i]
    BY DEF WarningsStay
  <2>2. Followed(mail[i]) /\ mail[i].at <= now
    BY <2>1 DEF WarnInv, Marked, HistoryGrows, MailInv
  <2> QED
    BY <2>1, <2>2, FollowedStays DEF Followed
<1> QED
  BY <1>1, <1>2 DEF WarnInv

\* A warning goes out when the last one was on an earlier day: its marker has
\* been looked for, and no other run is about to write one.
LEMMA WarnGoesOut ==
  ASSUME BaseInv, MemoryInv, MailInv, WarnInv, NEW t \in Thread, Warn(t), UNCHANGED now
  PROVE  WarnInv'
<1> DEFINE b == run[t].on
           n == Len(mail) + 1
           letter == [type |-> "QUOTA_WARNING", ref |-> b, at |-> now]
<1>1. /\ Only(t)
      /\ run[t].pc = "warn" /\ run[t].job = "QUOTA_WARNING" /\ b \in Batch
      /\ run'[t].pc = "mark" /\ run'[t].on = b /\ run'[t].job = "QUOTA_WARNING"
      /\ run[t].late => UNCHANGED mail
      /\ Post("QUOTA_WARNING", b)
      /\ UNCHANGED <<wa, overlap, unmarked>>
  BY WarnStep DEF BaseInv, Warning
<1>2. RowsStay /\ MarksCome /\ HistoryGrows
  <2>1. \A o \in Thread : run[o].pc = "mark" => run'[o] = run[o]
    BY <1>1 DEF Only
  <2> QED
    BY <1>1, <2>1 DEF RowsStay, MarksCome, HistoryGrows, SameLetter
<1>3. CASE UNCHANGED mail
  BY <1>2, <1>3, WarnKept DEF WarningsStay
<1>4. CASE ~run[t].late /\ mail' = Append(mail, letter)
  <2>1. /\ DOMAIN mail' = DOMAIN mail \cup {n}
        /\ \A i \in DOMAIN mail : mail'[i] = mail[i] /\ i < n /\ i \in Nat
        /\ mail'[n] = letter /\ n \in Nat
    BY <1>4 DEF MailInv
  <2>2. letter.type = "QUOTA_WARNING" /\ letter.ref = b /\ letter.at = now
    OBVIOUS
  <2> HIDE DEF n, letter
  <2>3. Marked'
    <3> SUFFICES ASSUME NEW i \in DOMAIN mail', mail'[i].type = "QUOTA_WARNING",
                        mail'[i].ref \notin unmarked', "QUOTA_WARNING" \notin overlap'
                 PROVE  Followed(mail[i])'
      BY DEF Marked
    <3>1. CASE i \in DOMAIN mail
      <4>1. mail'[i] = mail[i] /\ mail[i].at <= now /\ Followed(mail[i])
        BY <1>1, <2>1, <3>1 DEF WarnInv, Marked, MailInv
      <4> QED
        BY <1>2, <4>1, FollowedStays DEF Followed
    <3>2. CASE i = n
      BY <1>1, <2>1, <2>2, <3>2 DEF Followed
    <3> QED
      BY <2>1, <3>1, <3>2
  <2>4. ASSUME NEW i \in DOMAIN mail, mail[i].type = "QUOTA_WARNING", mail[i].ref = b,
               b \notin unmarked, "QUOTA_WARNING" \notin overlap
        PROVE  ~SameDay(mail[i].at, now)
    <3>1. Followed(mail[i]) /\ mail[i] \in Letter
      BY <2>4 DEF WarnInv, Marked, MailInv
    <3>2. ASSUME NEW u \in Thread, run[u].job = "QUOTA_WARNING", run[u].pc = "mark"
          PROVE  FALSE
      BY <1>1, <2>4, <3>2, JobNames DEF MemoryInv, Alone
    <3>3. PICK k \in DOMAIN wa : /\ wa[k].type = "QUOTA_WARNING" /\ wa[k].ref = b
                                 /\ mail[i].at <= wa[k].at
      BY <2>4, <3>1, <3>2 DEF Followed
    <3>4. "QUOTA_WARNING" \in JobTypes /\ JobNamed["QUOTA_WARNING"] = checkBatchQuota
      BY JobNames, JobFields DEF Jobs
    <3>5. ~RemindedIn(wa, now, checkBatchQuota, b)
      <4>1. b \in Owes(run[t])
        BY <1>1, <1>4 DEF Owes
      <4> QED
        BY <1>1, <2>4, <3>4, <4>1 DEF MemoryInv, Unsent
    <3>6. ~RecentAt(checkBatchQuota, wa[k].at, now)
      BY <3>3, <3>5, JobFields DEF RemindedIn
    <3>7. ~SameDay(wa[k].at, now)
      BY <3>6, JobFields DEF RecentAt
    <3>8. /\ mail[i].at \in Nat /\ wa[k].at \in Nat /\ now \in Nat
          /\ wa[k].at <= now
      BY <3>1, RowTyped DEF Letter, BaseInv, FlightsInv, TimeInv, Row
    <3> QED
      <4> SUFFICES ASSUME mail[i].at \div 2 = now \div 2 PROVE wa[k].at \div 2 = now \div 2
        BY <3>7 DEF SameDay, TicksPerDay
      <4>1. mail[i].at \div 2 <= wa[k].at \div 2 /\ wa[k].at \div 2 <= now \div 2
        BY <3>3, <3>8
      <4> QED
        BY <3>8, <4>1
  <2>5. WarnedApart'
    <3> SUFFICES ASSUME NEW i \in DOMAIN mail', NEW k \in DOMAIN mail', i < k,
                        mail'[i].type = "QUOTA_WARNING", mail'[k].type = "QUOTA_WARNING",
                        mail'[k].ref = mail'[i].ref, mail'[i].ref \notin unmarked,
                        "QUOTA_WARNING" \notin overlap
                 PROVE  ~SameDay(mail'[i].at, mail'[k].at)
      BY <1>1 DEF WarnedApart
    <3>1. CASE k \in DOMAIN mail
      BY <2>1, <3>1 DEF WarnInv, WarnedApart
    <3>2. CASE k = n
      BY <2>1, <2>2, <2>4, <3>2
    <3> QED
      BY <2>1, <3>1, <3>2
  <2> QED
    BY <2>3, <2>5 DEF WarnInv
<1> QED
  BY <1>1, <1>3, <1>4 DEF Post

\* A step that posts something else, or nothing.
LEMMA OtherPost ==
  ASSUME MailInv, NEW type, type # "QUOTA_WARNING", NEW x, Post(type, x)
  PROVE  WarningsStay
<1>1. CASE UNCHANGED mail
  BY <1>1 DEF WarningsStay
<1>2. CASE mail' = Append(mail, [type |-> type, ref |-> x, at |-> now])
  <2>1. /\ DOMAIN mail' = DOMAIN mail \cup {Len(mail) + 1}
        /\ \A i \in DOMAIN mail : mail'[i] = mail[i]
        /\ mail'[Len(mail) + 1].type = type
    BY <1>2 DEF MailInv
  <2> QED
    BY <2>1 DEF WarningsStay
<1> QED
  BY <1>1, <1>2 DEF Post

\* No other step of a goroutine touches a marker.
LEMMA MarksElsewhere ==
  ASSUME NEW t \in Thread, Only(t), run[t].pc # "mark"
  PROVE  MarksCome
BY DEF Only, MarksCome

\* The log only grows: no row is lost, or rewritten beyond what became of its
\* message.
LEMMA LogGrows == BaseInv /\ [Next]_vars => RowsStay
<1> SUFFICES ASSUME BaseInv, [Next]_vars PROVE RowsStay
  OBVIOUS
<1> USE DEF BaseInv
<1>1. CASE UNCHANGED wa \/ \E r \in DOMAIN wa : RowWritten(r)
  BY <1>1 DEF RowsStay, SameLetter, RowWritten
<1>2. CASE \E row : RowAdded(row)
  BY <1>2 DEF RowsStay, SameLetter, RowAdded
<1>3. ASSUME NEW t \in Thread, JobMove(t)
      PROVE  RowsStay
  <2>1. CASE Mark(t) /\ wa' = Append(wa, NewRow(t, "QUOTA_WARNING", "sent"))
    <3>1. NewRow(t, "QUOTA_WARNING", "sent") \in Row
      BY NewRowTyped DEF Types
    <3> QED
      BY <1>2, <2>1, <3>1, AppendedRow DEF FlightsInv
  <2>2. CASE UNCHANGED wa
    BY <1>1, <2>2
  <2> QED
    BY <1>3, <2>1, <2>2, MarkStep
       DEF JobMove, ListDue, Take, After, CheckToday, CheckFails, Warn, MarkFails, Finish
<1>4. ASSUME NEW t \in Thread, AttemptMove(t)
      PROVE  RowsStay
  <2>1. RowWritten(run[t].row) /\ run[t].row \in DOMAIN wa
    BY <1>4, AttemptStep DEF Attempted, FlightsInv
  <2> QED
    BY <1>1, <2>1
<1>5. ASSUME NEW t \in Thread, SendMove(t)
      PROVE  RowsStay
  <2>1. CASE SendFails(t)
    BY <1>1, <2>1 DEF SendFails
  <2>2. CASE Send(t, MessageType(t))
    <3>1. MessageType(t) \in Types
      BY <2>2, MessageTyped DEF Send, RunAt
    <3> QED
      BY <1>2, <2>2, <3>1, SendStep
  <2> QED
    BY <1>5, <2>1, <2>2 DEF SendMove
<1>6. ASSUME NEW t \in Thread, ChatMove(t)
      PROVE  RowsStay
  <2>1. ASSUME NEW i \in DOMAIN wa, EchoArrives(t, i) \/ EchoUnread(t, i)
        PROVE  RowsStay
    BY <2>1, EchoRow DEF RowsStay
  <2> QED
    BY <1>1, <1>6, <2>1
       DEF ChatMove, HandleFonnteWebhook, LogMessage, StayOut, GenerateReply, Replied, Fails
<1>7. ASSUME NEW P \in Processes, Die(P)
      PROVE  RowsStay
  <2>1. \A i \in DOMAIN wa : wa[i] \in Row
    BY RowTyped
  <2>2. DOMAIN wa' = DOMAIN wa
    BY <1>7 DEF Die
  <2>3. \A i \in DOMAIN wa : wa'[i] = wa[i] \/ wa'[i] = [wa[i] EXCEPT !.cut = TRUE]
    BY <1>7 DEF Die
  <2>4. \A i \in DOMAIN wa : SameLetter(wa'[i], wa[i])
    BY <2>1, <2>3 DEF SameLetter, Row
  <2> QED
    BY <2>2, <2>4 DEF RowsStay
<1>8. CASE \/ \E t \in Thread : TimesOut(t)
           \/ \E p \in Phone : PhoneMove(p)
           \/ TimeMove
           \/ Still
  BY <1>1, <1>8
     DEF TimesOut, PhoneMove, TakeOver, HandBack, NewMinute, TimeMove, Still, Outbox
<1> QED
  BY <1>3, <1>4, <1>5, <1>6, <1>7, <1>8, Moves

\* What the admins were warned of is marked, or is being marked.
LEMMA WarningsStep == BaseInv /\ MemoryInv /\ MailInv /\ WarnInv /\ [Next]_vars => WarnInv'
<1> SUFFICES ASSUME BaseInv, MemoryInv, MailInv, WarnInv, [Next]_vars PROVE WarnInv'
  OBVIOUS
<1> USE DEF BaseInv
<1>1. RowsStay
  BY LogGrows
<1>2. UNCHANGED mail => WarningsStay
  BY DEF WarningsStay
<1>3. ASSUME UNCHANGED jobVars,
             \A t \in Thread : run[t].pc = "mark" =>
               /\ run'[t].job = run[t].job
               /\ run'[t].pc = "mark"
               /\ run'[t].on = run[t].on
      PROVE  WarnInv'
  <2>1. MarksCome /\ HistoryGrows
    BY <1>3 DEF MarksCome, HistoryGrows, jobVars
  <2> QED
    BY <1>1, <1>2, <1>3, <2>1, WarnKept DEF jobVars
<1>4. ASSUME NEW t \in Thread, Only(t), run[t].pc # "mark", HistoryGrows, WarningsStay
      PROVE  WarnInv'
  BY <1>1, <1>4, MarksElsewhere, WarnKept
<1>5. ASSUME NEW t \in Thread, JobMove(t), UNCHANGED now
      PROVE  WarnInv'
  <2>1. ASSUME NEW j \in Jobs, ListDue(t, j)
        PROVE  WarnInv'
    <3>1. Only(t) /\ run[t].pc # "mark" /\ HistoryGrows /\ UNCHANGED mail
      BY <2>1, ListDueStep DEF HistoryGrows, Asleep
    <3> QED
      BY <1>2, <1>4, <3>1
  <2>2. CASE CheckToday(t) \/ CheckFails(t) \/ \E x \in Ref : Take(t, x)
    <3>1. Only(t) /\ run[t].pc # "mark" /\ UNCHANGED mail /\ HistoryGrows
      BY <2>2, CheckTodayStep, TakeStep DEF HistoryGrows, jobVars
    <3> QED
      BY <1>2, <1>4, <3>1
  <2>3. CASE After(t)
    <3>1. /\ Only(t) /\ run[t].pc # "mark" /\ UNCHANGED <<overlap, unmarked>>
          /\ run[t].job # "QUOTA_WARNING" /\ Post(run[t].job, run[t].on)
      BY <2>3, AfterStep DEF Reminding
    <3> QED
      BY <1>4, <3>1, OtherPost DEF HistoryGrows
  <2>4. CASE Warn(t)
    BY <1>5, <2>4, WarnGoesOut
  <2>5. CASE Mark(t) \/ MarkFails(t)
    <3>1. /\ Only(t) /\ run[t].pc = "mark" /\ run[t].job = "QUOTA_WARNING"
          /\ UNCHANGED <<mail, overlap>>
      BY <2>5, MarkStep DEF Warning
    <3>2. \/ unmarked' = unmarked \cup {run[t].on}
          \/ /\ UNCHANGED unmarked
             /\ \E k \in DOMAIN wa' : /\ wa'[k].type = "QUOTA_WARNING"
                                      /\ wa'[k].ref = run[t].on /\ wa'[k].at = now
      <4>1. CASE unmarked' = unmarked \cup {run[t].on}
        BY <4>1
      <4>2. CASE wa' = Append(wa, NewRow(t, "QUOTA_WARNING", "sent")) /\ UNCHANGED unmarked
        <5>1. NewRow(t, "QUOTA_WARNING", "sent") \in Row
          BY NewRowTyped DEF Types
        <5>2. RowAdded(NewRow(t, "QUOTA_WARNING", "sent"))
          BY <4>2, <5>1, AppendedRow DEF FlightsInv
        <5> QED
          BY <4>2, <5>2 DEF RowAdded, NewRow
      <4> QED
        BY <2>5, <4>1, <4>2, MarkStep
    <3>3. MarksCome /\ HistoryGrows
      BY <3>1, <3>2 DEF Only, MarksCome, HistoryGrows
    <3> QED
      BY <1>1, <1>2, <3>1, <3>3, WarnKept
  <2>6. CASE Finish(t)
    BY <1>4, <2>6, FinishStep, OtherPost DEF HistoryGrows
  <2> QED
    BY <1>5, <2>1, <2>2, <2>3, <2>4, <2>5, <2>6 DEF JobMove
<1>6. ASSUME NEW t \in Thread, AttemptMove(t), UNCHANGED jobVars
      PROVE  WarnInv'
  <2>1. Only(t) /\ run[t].pc # "mark"
    BY <1>6, AttemptStep DEF Attempted, Flying
  <2> QED
    BY <1>2, <1>4, <1>6, <2>1 DEF HistoryGrows, jobVars
<1>7. ASSUME NEW t \in Thread, SendMove(t), UNCHANGED jobVars
      PROVE  WarnInv'
  <2>1. Only(t) /\ run[t].pc # "mark"
    BY <1>7, MessageTyped, SendStep, SendFailsStep DEF SendMove, Send, RunAt
  <2> QED
    BY <1>2, <1>4, <1>7, <2>1 DEF HistoryGrows, jobVars
<1>8. ASSUME NEW t \in Thread, ChatMove(t), UNCHANGED jobVars
      PROVE  WarnInv'
  <2>1. UNCHANGED run \/ (Only(t) /\ run[t].pc # "mark")
    <3>1. ASSUME NEW p \in Phone, HandleFonnteWebhook(t, p)
          PROVE  UNCHANGED run \/ (Only(t) /\ run[t].pc # "mark")
      BY <3>1, LetThroughStep DEF HandleFonnteWebhook, Asleep
    <3>2. ASSUME NEW i \in DOMAIN wa, EchoArrives(t, i) \/ EchoUnread(t, i)
          PROVE  UNCHANGED run \/ (Only(t) /\ run[t].pc # "mark")
      <4>1. wa[i].phone \in Phone /\ wa[i].says \in Answers \cup {Null}
        BY <3>2, RowTyped DEF EchoArrives, EchoUnread, Row
      <4>2. UNCHANGED run \/ LetThrough(t, wa[i].phone, wa[i].says)
        BY <3>2 DEF EchoArrives, EchoUnread
      <4>3. UNCHANGED run \/ (Only(t) /\ run[t] = Asleep)
        BY <4>1, <4>2, LetThroughStep
      <4> QED
        BY <4>3 DEF Asleep
    <3>3. CASE LogMessage(t) \/ StayOut(t) \/ GenerateReply(t) \/ Replied(t) \/ Fails(t)
      BY <3>3, LogMessageStep, StayOutStep, GenerateReplyStep, FailsStep, RestStep DEF Replied
    <3> QED
      BY <1>8, <3>1, <3>2, <3>3 DEF ChatMove
  <2> QED
    BY <1>2, <1>3, <1>4, <1>8, <2>1 DEF HistoryGrows, jobVars
<1>9. ASSUME NEW t \in Thread, TimesOut(t)
      PROVE  WarnInv'
  BY <1>3, <1>9, TimesOutStep DEF Only
<1>10. ASSUME NEW P \in Processes, Die(P)
       PROVE  WarnInv'
  <2>1. \A t \in Thread : run[t].pc = "mark" => t \in P \/ run'[t] = run[t]
    BY <1>10, DieStep
  <2>2. \A t \in P : run[t].pc = "mark" => run[t].on \in unmarked'
    BY <1>10 DEF Die, RunAt
  <2>3. MarksCome /\ HistoryGrows /\ WarningsStay
    BY <1>2, <1>10, <2>1, <2>2 DEF MarksCome, HistoryGrows, Die
  <2> QED
    BY <1>1, <2>3, WarnKept
<1>11. CASE (\E p \in Phone : PhoneMove(p) /\ UNCHANGED jobVars) \/ TimeMove \/ Still
  BY <1>3, <1>11 DEF PhoneMove, TakeOver, HandBack, NewMinute, TimeMove, Still, Outbox
<1> QED
  BY <1>5, <1>6, <1>7, <1>8, <1>9, <1>10, <1>11, Moves DEF jobVars

\* No letter has gone out at first.
LEMMA MailInit == Init => MailInv /\ WarnInv
<1> SUFFICES ASSUME Init PROVE MailInv /\ WarnInv
  OBVIOUS
<1>1. mail = <<>> /\ overlap = {} /\ unmarked = {} /\ DOMAIN mail = {}
  BY DEF Init
<1> QED
  BY <1>1 DEF MailInv, WarnInv, WarnedApart, Marked

\* The admins hear of a departure once a day: the marker of a warning is looked
\* for before the next, and is there and found unless the run that warned them
\* ended before it could write it, or one of these two statements failed.
THEOREM AdminsWarnedOnce == Spec => []WarnedOnce
<1>1. ASSUME MailInv, WarnInv
      PROVE  WarnedOnce
  <2> SUFFICES ASSUME NEW i \in DOMAIN mail, NEW k \in DOMAIN mail, i < k,
                      mail[i].type = "QUOTA_WARNING",
                      mail[k] = [mail[i] EXCEPT !.at = mail[k].at],
                      mail[i].ref \notin unmarked, "QUOTA_WARNING" \notin overlap
               PROVE  ~SameDay(mail[i].at, mail[k].at)
    BY DEF WarnedOnce
  <2>1. mail[i] \in Letter /\ mail[k] \in Letter
    BY <1>1 DEF MailInv
  <2>2. mail[k].type = mail[i].type /\ mail[k].ref = mail[i].ref
    BY <2>1 DEF Letter
  <2> QED
    BY <1>1, <2>2 DEF WarnInv, WarnedApart
<1> QED
  BY <1>1, BaseInit, BaseStep, MemoryInit, MemoryStep, MailInit, MailStep, WarningsStep, PTL
     DEF Spec

-----------------------------------------------------------------------------
(* A reply is in the log before it is sent.                                *)

\* Entry e of the log of number p is a reply that says this.
IsReply(p, e, says) ==
  /\ p \in Phone
  /\ e \in Replies(p)
  /\ chat[p][e].says = says

ReplyInv ==
  /\ ~misheard
  /\ \A i \in DOMAIN wa :
       wa[i].entry > 0 => IsReply(wa[i].phone, wa[i].entry, wa[i].says)
  /\ \A t \in Thread :
       run[t].pc = "send" /\ run[t].entry > 0 =>
         IsReply(run[t].phone, run[t].entry, run[t].says)

\* Logs only grow, whichever goroutine writes to them.
LEMMA ChatGrows ==
  ASSUME BaseInv, [Next]_vars, NEW p \in Phone, NEW e \in DOMAIN chat[p]
  PROVE  e \in DOMAIN chat'[p] /\ chat'[p][e] = chat[p][e]
<1> USE DEF BaseInv
<1>1. CASE UNCHANGED chat
  BY <1>1
<1>2. ASSUME NEW q \in Phone, NEW role \in {"user", "assistant"},
             NEW says \in Answers \cup {Null}, Log(q, role, says)
      PROVE  e \in DOMAIN chat'[p] /\ chat'[p][e] = chat[p][e]
  <2>1. chat[q] \in Seq(Entry)
    BY DEF LogsInv
  <2>2. /\ \A o \in Phone \ {q} : chat'[o] = chat[o]
        /\ chat'[q] = Append(chat[q], [role |-> role, says |-> says])
    BY <1>2, LogStep
  <2>3. CASE p = q
    BY <2>1, <2>2, <2>3
  <2> QED
    BY <2>2, <2>3
<1>3. ASSUME NEW t \in Thread, ChatMove(t)
      PROVE  e \in DOMAIN chat'[p] /\ chat'[p][e] = chat[p][e]
  <2>1. CASE LogMessage(t)
    BY <1>2, <2>1, LogMessageStep
  <2>2. CASE GenerateReply(t)
    BY <1>2, <2>2, GenerateReplyStep
  <2> QED
    BY <1>1, <1>3, <2>1, <2>2
       DEF ChatMove, HandleFonnteWebhook, EchoArrives, EchoUnread, StayOut, Replied, Fails,
           chatVars
<1> QED
  BY <1>1, <1>3, Moves
     DEF PhoneMove, TakeOver, HandBack, NewMinute, TimesOut, Die, TimeMove, Still, chatVars

\* A reply stays one.
LEMMA ReplyStays ==
  ASSUME BaseInv, [Next]_vars, NEW p, NEW e, NEW says, IsReply(p, e, says)
  PROVE  /\ p \in Phone
         /\ e \in DOMAIN chat'[p]
         /\ chat'[p][e].role = "assistant"
         /\ chat'[p][e].says = says
BY ChatGrows DEF IsReply, Replies

\* A goroutine that is to send a logged reply has been there, or has just composed it.
LEMMA Composed ==
  ASSUME BaseInv, [Next]_vars, NEW t \in Thread, run'[t].pc = "send", run'[t].entry > 0
  PROVE  run'[t] = run[t] \/ (GenerateReply(t) /\ UNCHANGED wa)
<1> USE DEF BaseInv
<1>1. Asleep.pc # "send"
  BY DEF Asleep
<1>2. ASSUME NEW o \in Thread, Only(o), o = t => run'[t].entry = 0 \/ run'[t].pc # "send"
      PROVE  run'[t] = run[t]
  BY <1>2 DEF Only
<1>3. ASSUME NEW o \in Thread, JobMove(o)
      PROVE  run'[t] = run[t]
  <2>1. Only(o) /\ (run'[o].job \in JobTypes \/ run'[o].pc # "send")
    BY <1>3, JobNames, ListDueStep, TakeStep, AfterStep, CheckTodayStep, WarnStep, MarkStep,
       FinishStep, WhoIsWhere DEF JobMove, Warning, Reminding, Asleep
  <2>2. PlacesInv'
    BY PlacesStep
  <2>3. run'[o].job \in JobTypes => run'[o].entry = 0
    BY <2>2, JobNames DEF PlacesInv, Placed, Chatting, Warning, Reminding, Asleep
  <2> QED
    BY <1>2, <2>1, <2>3
<1>4. ASSUME NEW o \in Thread, AttemptMove(o)
      PROVE  run'[t] = run[t]
  BY <1>2, <1>4, AttemptStep DEF Attempted
<1>5. ASSUME NEW o \in Thread, SendMove(o)
      PROVE  run'[t] = run[t]
  <2>1. Only(o) /\ run'[o].pc # "send"
    BY <1>5, MessageTyped, SendStep, SendFailsStep DEF SendMove, Send, RunAt
  <2> QED
    BY <1>2, <2>1
<1>6. ASSUME NEW o \in Thread, ChatMove(o)
      PROVE  run'[t] = run[t] \/ (GenerateReply(t) /\ UNCHANGED wa)
  <2>1. ASSUME NEW p \in Phone, HandleFonnteWebhook(o, p)
        PROVE  run'[t] = run[t]
    BY <1>2, <2>1, LetThroughStep DEF HandleFonnteWebhook
  <2>2. ASSUME NEW i \in DOMAIN wa, EchoArrives(o, i) \/ EchoUnread(o, i)
        PROVE  run'[t] = run[t]
    <3>1. wa[i].phone \in Phone /\ wa[i].says \in Answers \cup {Null}
      BY <2>2, RowTyped DEF EchoArrives, EchoUnread, Row
    <3>2. UNCHANGED run \/ LetThrough(o, wa[i].phone, wa[i].says)
      BY <2>2 DEF EchoArrives, EchoUnread
    <3>3. UNCHANGED run \/ (Only(o) /\ run'[o].pc = "hear")
      BY <3>1, <3>2, LetThroughStep
    <3> QED
      BY <1>2, <3>3
  <2>3. CASE LogMessage(o) \/ StayOut(o) \/ Replied(o)
    <3>1. Only(o) /\ run'[o].pc # "send"
      BY <1>1, <2>3, LogMessageStep, StayOutStep, RestStep DEF Replied
    <3> QED
      BY <1>2, <3>1
  <2>4. CASE GenerateReply(o)
    <3>1. Only(o) /\ UNCHANGED wa
      BY <2>4, GenerateReplyStep
    <3> QED
      BY <2>4, <3>1 DEF Only
  <2>5. CASE Fails(o)
    <3>1. Only(o) /\ (run'[o].pc # "send" \/ run'[o].entry = 0)
      BY <1>1, <2>5, FailsStep DEF Chatting
    <3> QED
      BY <1>2, <3>1
  <2> QED
    BY <1>6, <2>1, <2>2, <2>3, <2>4, <2>5 DEF ChatMove
<1>7. ASSUME NEW o \in Thread, TimesOut(o)
      PROVE  run'[t] = run[t]
  <2>1. PlacesInv' /\ Only(o) /\ run'[o].job \in JobTypes
    BY <1>7, TimesOutStep
  <2>2. run'[o].entry = 0
    BY <2>1, JobNames DEF PlacesInv, Placed, Chatting, Warning, Reminding, Asleep
  <2> QED
    BY <1>2, <2>1, <2>2
<1>8. ASSUME NEW P \in Processes, Die(P)
      PROVE  run'[t] = run[t]
  BY <1>1, <1>8, DieStep
<1> QED
  BY <1>3, <1>4, <1>5, <1>6, <1>7, <1>8, Moves
     DEF PhoneMove, TakeOver, HandBack, NewMinute, TimeMove, Still, Outbox

\* A row of a logged reply was there, or is what a goroutine just sent.
LEMMA ReplyRows ==
  ASSUME BaseInv, [Next]_vars, NEW k \in DOMAIN wa', wa'[k].entry > 0
  PROVE  \/ k \in DOMAIN wa /\ SameLetter(wa'[k], wa[k])
         \/ \E t \in Thread : /\ run[t].pc = "send"
                              /\ wa'[k].phone = run[t].phone
                              /\ wa'[k].entry = run[t].entry
                              /\ wa'[k].says = run[t].says
<1> USE DEF BaseInv
<1>1. CASE DOMAIN wa' = DOMAIN wa
  BY <1>1, LogGrows DEF RowsStay
<1>2. ASSUME NEW t \in Thread, Mark(t)
      PROVE  k \in DOMAIN wa /\ SameLetter(wa'[k], wa[k])
  <2>1. CASE UNCHANGED wa
    BY <2>1, LogGrows DEF RowsStay
  <2>2. CASE wa' = Append(wa, NewRow(t, "QUOTA_WARNING", "sent"))
    <3>1. NewRow(t, "QUOTA_WARNING", "sent") \in Row
      BY NewRowTyped DEF Types
    <3>2. RowAdded(NewRow(t, "QUOTA_WARNING", "sent"))
      BY <2>2, <3>1, AppendedRow DEF FlightsInv
    <3>3. run[t].entry = 0
      BY <1>2, MarkStep DEF Warning
    <3>4. k \in DOMAIN wa
      BY <3>2, <3>3 DEF RowAdded, NewRow
    <3> QED
      BY <3>4, LogGrows DEF RowsStay
  <2> QED
    BY <1>2, <2>1, <2>2, MarkStep
<1>3. ASSUME NEW t \in Thread, JobMove(t)
      PROVE  k \in DOMAIN wa /\ SameLetter(wa'[k], wa[k])
  <2>1. Mark(t) \/ UNCHANGED wa
    BY <1>3 DEF JobMove, ListDue, Take, After, CheckToday, CheckFails, Warn, MarkFails, Finish
  <2> QED
    BY <1>1, <1>2, <2>1, LogGrows DEF RowsStay
<1>4. ASSUME NEW t \in Thread, SendMove(t)
      PROVE  \/ k \in DOMAIN wa /\ SameLetter(wa'[k], wa[k])
             \/ /\ run[t].pc = "send"
                /\ wa'[k].phone = run[t].phone
                /\ wa'[k].entry = run[t].entry
                /\ wa'[k].says = run[t].says
  <2>1. run[t].pc = "send" /\ MessageType(t) \in Types
    BY <1>4, MessageTyped DEF SendMove, Send, SendFails, RunAt
  <2>2. UNCHANGED wa \/ RowAdded(NewRow(t, MessageType(t), "pending"))
    BY <1>4, <2>1, SendStep, SendFailsStep DEF SendMove
  <2>3. CASE k \in DOMAIN wa
    BY <2>3, LogGrows DEF RowsStay
  <2>4. CASE k \notin DOMAIN wa
    BY <2>1, <2>2, <2>4 DEF RowAdded, NewRow
  <2> QED
    BY <2>3, <2>4
<1>5. ASSUME NEW t \in Thread, AttemptMove(t)
      PROVE  DOMAIN wa' = DOMAIN wa
  BY <1>5, AttemptStep DEF Attempted, RowWritten
<1>6. ASSUME NEW t \in Thread, ChatMove(t)
      PROVE  DOMAIN wa' = DOMAIN wa
  <2>1. ASSUME NEW i \in DOMAIN wa, EchoArrives(t, i) \/ EchoUnread(t, i)
        PROVE  DOMAIN wa' = DOMAIN wa
    BY <2>1, EchoRow
  <2> QED
    BY <1>6, <2>1
       DEF ChatMove, HandleFonnteWebhook, LogMessage, StayOut, GenerateReply, Replied, Fails
<1>7. ASSUME \/ \E t \in Thread : TimesOut(t)
             \/ \E P \in Processes : Die(P)
             \/ \E p \in Phone : PhoneMove(p)
             \/ TimeMove
             \/ Still
      PROVE  DOMAIN wa' = DOMAIN wa
  BY <1>7 DEF TimesOut, Die, PhoneMove, TakeOver, HandBack, NewMinute, TimeMove, Still, Outbox
<1> QED
  BY <1>1, <1>3, <1>4, <1>5, <1>6, <1>7, Moves

\* What is in the log of what the bot says is there before it goes out, so an echo
\* it does not know for its own, the log being read, has a newer reply beside it.
LEMMA ReplyStep == BaseInv /\ ReplyInv /\ [Next]_vars => ReplyInv'
<1> SUFFICES ASSUME BaseInv, ReplyInv, [Next]_vars PROVE ReplyInv'
  OBVIOUS
<1> USE DEF BaseInv
<1>1. ASSUME NEW p, NEW e, NEW says, IsReply(p, e, says)
      PROVE  /\ p \in Phone /\ e \in DOMAIN chat'[p]
             /\ chat'[p][e].role = "assistant" /\ chat'[p][e].says = says
  BY <1>1, ReplyStays
<1>2. ASSUME NEW t \in Thread, run'[t].pc = "send", run'[t].entry > 0
      PROVE  IsReply(run[t].phone, run[t].entry, run[t].says)'
  <2>1. CASE run'[t] = run[t]
    BY <1>1, <1>2, <2>1 DEF ReplyInv, IsReply, Replies
  <2>2. CASE GenerateReply(t)
    <3> DEFINE p == run[t].phone
    <3>1. /\ p \in Phone /\ run'[t].phone = p
          /\ run'[t].says \in Answers
          /\ run'[t].entry = Len(chat[p]) + 1
          /\ Log(p, "assistant", run'[t].says)
      BY <2>2, GenerateReplyStep
    <3>2. chat'[p] = Append(chat[p], [role |-> "assistant", says |-> run'[t].says])
      BY <3>1, LogStep
    <3>3. chat[p] \in Seq(Entry)
      BY <3>1 DEF LogsInv
    <3>4. /\ run'[t].entry \in DOMAIN chat'[p]
          /\ chat'[p][run'[t].entry] = [role |-> "assistant", says |-> run'[t].says]
      BY <3>1, <3>2, <3>3
    <3> QED
      BY <3>1, <3>4 DEF IsReply, Replies
  <2> QED
    BY <1>2, <2>1, <2>2, Composed
<1>3. ASSUME NEW k \in DOMAIN wa', wa'[k].entry > 0
      PROVE  IsReply(wa[k].phone, wa[k].entry, wa[k].says)'
  <2>1. CASE k \in DOMAIN wa /\ SameLetter(wa'[k], wa[k])
    BY <1>1, <1>3, <2>1 DEF ReplyInv, IsReply, Replies, SameLetter
  <2>2. ASSUME NEW t \in Thread, run[t].pc = "send",
               wa'[k].phone = run[t].phone, wa'[k].entry = run[t].entry,
               wa'[k].says = run[t].says
        PROVE  IsReply(wa[k].phone, wa[k].entry, wa[k].says)'
    BY <1>1, <1>3, <2>2 DEF ReplyInv, IsReply, Replies
  <2> QED
    BY <1>3, <2>1, <2>2, ReplyRows
<1>4. ~misheard'
  <2>1. ASSUME NEW t \in Thread, NEW i \in DOMAIN wa, EchoArrives(t, i)
        PROVE  ~misheard'
    <3> DEFINE p == wa[i].phone
    <3>1. CASE EchoesOurLastReply(p, wa[i].says) \/ Signed
      BY <2>1, <3>1 DEF EchoArrives, ReplyInv
    <3>2. CASE ~EchoesOurLastReply(p, wa[i].says) /\ wa[i].entry > 0
      <4>1. wa[i].entry \in Replies(p) /\ chat[p][wa[i].entry].says = wa[i].says
        BY <3>2 DEF ReplyInv, IsReply
      <4>2. ~\A j \in Replies(p) : j <= wa[i].entry
        BY <3>2, <4>1 DEF EchoesOurLastReply
      <4> QED
        BY <2>1, <3>2, <4>2 DEF EchoArrives, ReplyInv
    <3>3. CASE ~(wa[i].entry > 0)
      BY <2>1, <3>3 DEF EchoArrives, ReplyInv
    <3> QED
      BY <3>1, <3>2, <3>3
  <2>2. ASSUME NEW t \in Thread, ChatMove(t)
        PROVE  ~misheard'
    BY <2>1, <2>2
       DEF ChatMove, HandleFonnteWebhook, EchoUnread, LogMessage, StayOut, GenerateReply, Replied,
           Fails, chatVars, ReplyInv
  <2> QED
    BY <2>2, Moves
       DEF PhoneMove, TakeOver, HandBack, NewMinute, TimesOut, Die, TimeMove, Still,
           chatVars, ReplyInv
<1> QED
  BY <1>2, <1>3, <1>4 DEF ReplyInv

\* The bot does not answer itself at once: a reply that could be logged is known
\* when it comes back, as long as it is the last and the log can be read.
THEOREM OwnEchoKnown == Spec => []EchoNeedsNewerReply
<1>1. Init => ReplyInv
  <2> SUFFICES ASSUME Init PROVE ReplyInv
    OBVIOUS
  <2>1. DOMAIN wa = {} /\ ~misheard /\ \A t \in Thread : run[t].pc = "idle"
    BY DEF Init, ChatInit, Asleep
  <2> QED
    BY <2>1 DEF ReplyInv
<1>2. ReplyInv => EchoNeedsNewerReply
  BY DEF ReplyInv, EchoNeedsNewerReply
<1> QED
  BY <1>1, <1>2, BaseInit, BaseStep, ReplyStep, PTL DEF Spec

-----------------------------------------------------------------------------
(* The catalogue.                                                          *)

PackageEdit == [on : Package, row : PackageRow]

BatchEdit == [on : Batch, row : BatchRow]

CatalogueInv ==
  /\ package \in [Package -> PackageRow \cup {NoPackage}]
  /\ batch \in [Batch -> BatchRow \cup {NoPackage}]
  /\ edit \in [Editor -> {NoEdit} \cup PackageEdit \cup BatchEdit]
  /\ sold \in [Batch -> 0..MaxSold]

\* An edit is of what it says it is on.
LEMMA EditOf ==
  ASSUME CatalogueInv, NEW e \in Editor
  PROVE  /\ edit[e].on \in Package => edit[e].row \in PackageRow
         /\ edit[e].on \in Batch => edit[e].row \in BatchRow
<1>1. edit[e] \in {NoEdit} \cup PackageEdit \cup BatchEdit
  BY DEF CatalogueInv
<1>2. NoEdit.on \notin Package /\ NoEdit.on \notin Batch
  BY NoPackageAssumption DEF NoEdit
<1>3. CASE edit[e] = NoEdit
  BY <1>2, <1>3
<1>4. CASE edit[e] \in PackageEdit
  BY <1>4, NoPackageAssumption DEF PackageEdit
<1>5. CASE edit[e] \in BatchEdit
  BY <1>5, NoPackageAssumption DEF BatchEdit
<1> QED
  BY <1>1, <1>3, <1>4, <1>5

\* Whether a package is deleted, and what a departure belongs to, as the steps
\* of the catalogue leave them.
NothingBack ==
  /\ \A b \in Batch : batch[b] # NoPackage => batch'[b] # NoPackage /\ batch'[b].of = batch[b].of
  /\ \A p \in Package : package[p] # NoPackage /\ package[p].deleted => package'[p].deleted

\* A package that is put in place of one, or of none.
LEMMA PackagePut ==
  ASSUME CatalogueInv, NEW p \in Package, NEW row \in PackageRow,
         package' = [package EXCEPT ![p] = row],
         package[p] # NoPackage /\ package[p].deleted => row.deleted,
         UNCHANGED <<batch, sold>>,
         edit' \in [Editor -> {NoEdit} \cup PackageEdit \cup BatchEdit]
  PROVE  CatalogueInv' /\ NothingBack
<1>1. /\ package' \in [Package -> PackageRow \cup {NoPackage}]
      /\ package'[p] = row
      /\ \A o \in Package : o # p => package'[o] = package[o]
  BY DEF CatalogueInv
<1> QED
  BY <1>1 DEF CatalogueInv, NothingBack

\* An edit ends.
LEMMA EditEnds ==
  ASSUME CatalogueInv, NEW e \in Editor, edit' = [edit EXCEPT ![e] = NoEdit]
  PROVE  edit' \in [Editor -> {NoEdit} \cup PackageEdit \cup BatchEdit]
BY DEF CatalogueInv

\* An edit begins with the row it is to write.
LEMMA EditBegins ==
  ASSUME CatalogueInv, NEW e \in Editor, NEW x, NEW row, OpenEdit(e, x, row),
         \/ x \in Package /\ row \in PackageRow
         \/ x \in Batch /\ row \in BatchRow,
         UNCHANGED <<package, batch, sold>>
  PROVE  CatalogueInv' /\ NothingBack
<1> DEFINE n == [on |-> x, row |-> row]
<1>1. n \in PackageEdit \cup BatchEdit
  BY DEF PackageEdit, BatchEdit
<1>2. edit' = [edit EXCEPT ![e] = n]
  BY DEF OpenEdit
<1> HIDE DEF n
<1>3. edit' \in [Editor -> {NoEdit} \cup PackageEdit \cup BatchEdit]
  BY <1>1, <1>2 DEF CatalogueInv
<1> QED
  BY <1>3 DEF CatalogueInv, NothingBack

\* A departure that is put in place of itself, or of none.
LEMMA BatchPut ==
  ASSUME CatalogueInv, NEW b \in Batch, NEW row \in BatchRow,
         batch' = [batch EXCEPT ![b] = row],
         batch[b] # NoPackage => row.of = batch[b].of,
         UNCHANGED <<package, sold>>,
         edit' \in [Editor -> {NoEdit} \cup PackageEdit \cup BatchEdit]
  PROVE  CatalogueInv' /\ NothingBack
<1>1. /\ batch' \in [Batch -> BatchRow \cup {NoPackage}]
      /\ batch'[b] = row
      /\ \A o \in Batch : o # b => batch'[o] = batch[o]
  BY DEF CatalogueInv
<1>2. row # NoPackage
  BY NoPackageAssumption
<1> QED
  BY <1>1, <1>2 DEF CatalogueInv, NothingBack

\* What is done to packages leaves the departures alone, and the other way
\* round.
LEMMA CatalogueMove ==
  ASSUME CatalogueInv, CatalogueCalls \/ CatalogueSteps
  PROVE  CatalogueInv' /\ NothingBack
<1>0. edit \in [Editor -> {NoEdit} \cup PackageEdit \cup BatchEdit]
  BY DEF CatalogueInv
<1>1. ASSUME NEW p \in Package, DeletePackage(p)
      PROVE  CatalogueInv' /\ NothingBack
  <2> DEFINE row == [package[p] EXCEPT !.deleted = TRUE]
  <2>1. package[p] \in PackageRow /\ package' = [package EXCEPT ![p] = row]
    BY <1>1 DEF DeletePackage, LivePackage, CatalogueInv
  <2>2. row \in PackageRow /\ row.deleted
    BY <2>1 DEF PackageRow
  <2> HIDE DEF row
  <2> QED
    BY <1>0, <1>1, <2>1, <2>2, PackagePut DEF DeletePackage, CatalogueInv
<1>2. ASSUME NEW p \in Package, NEW s \in Slug, CreatePackage(p, s)
      PROVE  CatalogueInv' /\ NothingBack
  <2>1. PICK a \in BOOLEAN :
          package' = [package EXCEPT ![p] = [slug |-> s, active |-> a, deleted |-> FALSE]]
    BY <1>2 DEF CreatePackage, InsertPackage
  <2>2. [slug |-> s, active |-> a, deleted |-> FALSE] \in PackageRow
    BY DEF PackageRow
  <2> QED
    BY <1>0, <1>2, <2>1, <2>2, PackagePut DEF CreatePackage, CatalogueInv
<1>3. ASSUME NEW b \in Batch, MoveDeal(b)
      PROVE  CatalogueInv' /\ NothingBack
  <2>1. sold[b] \in 0..MaxSold /\ MaxSold \in Nat
    BY QuotaAssumption DEF CatalogueInv
  <2>2. sold' \in [Batch -> 0..MaxSold]
    BY <1>3, <2>1 DEF MoveDeal, CatalogueInv
  <2> QED
    BY <1>3, <2>2 DEF MoveDeal, CatalogueInv, NothingBack
<1>4. ASSUME NEW e \in Editor, NEW b \in Batch, NEW p \in Package, NEW c,
             CreateBatch(e, b, p, c)
      PROVE  CatalogueInv' /\ NothingBack
  <2>1. PICK s \in BatchStatuses, q \in Quotas :
          OpenEdit(e, b, [of |-> p, status |-> s, quota |-> q])
    BY <1>4 DEF CreateBatch
  <2>2. [of |-> p, status |-> s, quota |-> q] \in BatchRow
    BY DEF BatchRow
  <2> QED
    BY <1>4, <2>1, <2>2, EditBegins DEF CreateBatch
<1>5. ASSUME NEW e \in Editor, NEW p \in Package, UpdatePackage(e, p)
      PROVE  CatalogueInv' /\ NothingBack
  <2>1. PICK s \in Slug, a \in BOOLEAN :
          OpenEdit(e, p, [package[p] EXCEPT !.slug = s, !.active = a])
    BY <1>5 DEF UpdatePackage
  <2>2. package[p] \in PackageRow
    BY <1>5 DEF UpdatePackage, LivePackage, CatalogueInv
  <2>3. [package[p] EXCEPT !.slug = s, !.active = a] \in PackageRow
    BY <2>2 DEF PackageRow
  <2> QED
    BY <1>5, <2>1, <2>3, EditBegins DEF UpdatePackage
<1>6. ASSUME NEW e \in Editor, NEW b \in Batch, NEW c \in Package \cup {NoPackage},
             UpdateBatch(e, b, c)
      PROVE  CatalogueInv' /\ NothingBack
  <2> DEFINE of == IF c = NoPackage THEN batch[b].of ELSE c
  <2>1. PICK s \in BatchStatuses, q \in Quotas :
          OpenEdit(e, b, [of |-> of, status |-> s, quota |-> q])
    BY <1>6 DEF UpdateBatch
  <2>2. batch[b] \in BatchRow /\ batch[b] # NoPackage
    BY <1>6 DEF UpdateBatch, CatalogueInv
  <2>3. of \in Package
    BY <2>2 DEF BatchRow
  <2> HIDE DEF of
  <2>4. [of |-> of, status |-> s, quota |-> q] \in BatchRow
    BY <2>3 DEF BatchRow
  <2> QED
    BY <1>6, <2>1, <2>2, <2>4, EditBegins DEF UpdateBatch
<1>7. ASSUME NEW e \in Editor, WritePackage(e)
      PROVE  CatalogueInv' /\ NothingBack
  <2> DEFINE p == edit[e].on
             new == edit[e].row
             row == [package[p] EXCEPT !.slug = new.slug, !.active = new.active]
  <2>1. p \in Package /\ new \in PackageRow
    BY <1>7, EditOf DEF WritePackage
  <2>2. /\ edit' \in [Editor -> {NoEdit} \cup PackageEdit \cup BatchEdit]
        /\ UNCHANGED <<batch, sold>>
    BY <1>7, EditEnds DEF WritePackage
  <2>3. CASE UNCHANGED package
    BY <2>2, <2>3 DEF CatalogueInv, NothingBack
  <2>4. CASE LivePackage(p) /\ package' = [package EXCEPT ![p].slug = new.slug,
                                                          ![p].active = new.active]
    <3>1. package[p] \in PackageRow /\ package \in [Package -> PackageRow \cup {NoPackage}]
      BY <2>1, <2>4 DEF LivePackage, CatalogueInv
    <3>2. row \in PackageRow /\ row.deleted = package[p].deleted
      BY <2>1, <3>1 DEF PackageRow
    <3>3. package' = [package EXCEPT ![p] = row]
      BY <2>1, <2>4, <3>1
    <3> HIDE DEF row
    <3> QED
      BY <2>1, <2>2, <3>2, <3>3, PackagePut
  <2> QED
    BY <1>7, <2>3, <2>4 DEF WritePackage
<1>8. ASSUME NEW e \in Editor, WriteBatch(e)
      PROVE  CatalogueInv' /\ NothingBack
  <2> DEFINE b == edit[e].on
             row == [edit[e].row EXCEPT !.of = batch[b].of]
  <2>1. b \in Batch /\ edit[e].row \in BatchRow /\ batch[b] \in BatchRow
    BY <1>8, EditOf DEF WriteBatch, CatalogueInv
  <2>2. row \in BatchRow /\ row.of = batch[b].of
    BY <2>1 DEF BatchRow
  <2>3. batch' = [batch EXCEPT ![b] = row] /\ UNCHANGED <<package, sold>>
    BY <1>8 DEF WriteBatch
  <2>4. edit' \in [Editor -> {NoEdit} \cup PackageEdit \cup BatchEdit]
    BY <1>8, EditEnds DEF WriteBatch
  <2> HIDE DEF row
  <2> QED
    BY <2>1, <2>2, <2>3, <2>4, BatchPut
<1>9. ASSUME NEW e \in Editor, InsertBatch(e)
      PROVE  CatalogueInv' /\ NothingBack
  <2>1. edit[e].on \in Batch /\ edit[e].row \in BatchRow
    BY <1>9, EditOf DEF InsertBatch
  <2>2. edit' \in [Editor -> {NoEdit} \cup PackageEdit \cup BatchEdit]
    BY <1>9, EditEnds DEF InsertBatch
  <2> QED
    BY <1>9, <2>1, <2>2, BatchPut DEF InsertBatch
<1> QED
  BY <1>1, <1>2, <1>3, <1>4, <1>5, <1>6, <1>7, <1>8, <1>9 DEF CatalogueCalls, CatalogueSteps

\* Edits write rows of the tables, and bring nothing back.
LEMMA CatalogueStep == CatalogueInv /\ [Next]_vars => CatalogueInv' /\ NothingBack
<1> SUFFICES ASSUME CatalogueInv, [Next]_vars PROVE CatalogueInv' /\ NothingBack
  OBVIOUS
<1>1. CASE UNCHANGED catalogueVars
  BY <1>1 DEF catalogueVars, CatalogueInv, NothingBack
<1>2. CASE CatalogueCalls \/ CatalogueSteps
  BY <1>2, CatalogueMove
<1>3. \/ UNCHANGED catalogueVars
      \/ CatalogueCalls \/ CatalogueSteps
  BY DEF Next, RunJob, JobSteps, SendOfJob, Gateway, ChatCalls, ChatSteps, ChatFaults, Die, TimesOut,
         Minute, Tick, vars
<1> QED
  BY <1>1, <1>2, <1>3

\* The catalogue begins with packages and departures that are not deleted.
LEMMA CatalogueStarts == Init => CatalogueInv
<1> SUFFICES ASSUME Init PROVE CatalogueInv
  OBVIOUS
<1> USE DEF Init, CatalogueInit
<1>1. package \in [Package -> PackageRow \cup {NoPackage}]
  BY StartAssumption DEF PackageRow
<1>2. batch \in [Batch -> BatchRow \cup {NoPackage}]
  BY StartAssumption DEF BatchRow, BatchStatuses
<1>3. edit \in [Editor -> {NoEdit} \cup PackageEdit \cup BatchEdit]
  OBVIOUS
<1>4. sold \in [Batch -> 0..MaxSold]
  BY QuotaAssumption
<1> QED
  BY <1>1, <1>2, <1>3, <1>4 DEF CatalogueInv

\* However edits interleave with each other and with a deletion, a departure
\* stays with its package and a deleted package stays deleted.
THEOREM NothingComesBack == Spec => EditsBringNothingBack
<1>1. CatalogueInv /\ [Next]_vars =>
        [/\ \A b \in Batch : batch[b] # NoPackage => batch'[b].of = batch[b].of
         /\ \A p \in Package : package[p] # NoPackage /\ package[p].deleted
                                 => package'[p].deleted]_vars
  BY CatalogueStep DEF NothingBack
<1> QED
  BY <1>1, CatalogueStarts, CatalogueStep, PTL DEF Spec, EditsBringNothingBack

-----------------------------------------------------------------------------
(* Types.                                                                  *)

\* Everything the state holds is of its kind: rows of the tables, goroutines in
\* places the code has with a list of their job's, letters of the jobs.
THEOREM OutreachTypeCorrect == Spec => []TypeOK
<1>1. ASSUME BaseInv, MailInv, CatalogueInv
      PROVE  TypeOK
  <2>1. ChatTypeOK
    BY <1>1 DEF BaseInv, LogsInv
  <2>2. CatalogueTypeOK
    <3>1. \A e \in Editor : \/ edit[e] = NoEdit
                            \/ edit[e].on \in Package /\ edit[e].row \in PackageRow
                            \/ edit[e].on \in Batch /\ edit[e].row \in BatchRow
      BY <1>1, EditOf DEF CatalogueInv, PackageEdit, BatchEdit
    <3> QED
      BY <1>1, <3>1 DEF CatalogueTypeOK, CatalogueInv
  <2>3. \A i \in DOMAIN wa : wa[i] \in Row
    BY <1>1, RowTyped DEF BaseInv
  <2>4. ASSUME NEW t \in Thread
        PROVE  \/ run[t] = Asleep
               \/ run[t].job = "chat" /\ OfServer(t) /\ run[t].phone \in Phone
               \/ /\ run[t].job \in DOMAIN JobNamed
                  /\ run[t].left \subseteq JobNamed[run[t].job].of
                  /\ run[t].late => JobNamed[run[t].job].limited
    <3>1. Placed(t, run[t])
      BY <1>1 DEF BaseInv, PlacesInv
    <3>2. "QUOTA_WARNING" \in JobTypes /\ JobNamed["QUOTA_WARNING"].of = Batch
      BY JobNames, JobFields DEF Jobs
    <3> QED
      BY <3>1, <3>2 DEF Placed, Chatting, Warning, Reminding, JobTypes
  <2>5. \A i \in DOMAIN mail :
          mail[i] \in [type : DOMAIN JobNamed, ref : Ref \cup {Null}, at : 0..LastTick]
    <3>1. \A i \in DOMAIN mail : mail[i] \in Letter
      BY <1>1 DEF MailInv
    <3> QED
      BY <3>1 DEF Letter, JobTypes
  <2>6. now \in 0..LastTick /\ overlap \subseteq DOMAIN JobNamed /\ unmarked \subseteq Batch
    BY <1>1 DEF BaseInv, TimeInv, MailInv, JobTypes
  <2>7. \E b \in Budgets : \A e \in Events : budget[e] \in 0..b[e]
    <3>1. PICK b \in Budgets : budget \in [Events -> Nat] /\ \A e \in Events : budget[e] <= b[e]
      BY <1>1 DEF BaseInv, TimeInv
    <3>2. \A e \in Events : budget[e] \in Nat /\ b[e] \in Nat
      BY <3>1, BudgetAssumption
    <3> QED
      BY <3>1, <3>2
  <2> QED
    BY <2>1, <2>2, <2>3, <2>4, <2>5, <2>6, <2>7 DEF TypeOK
<1> QED
  BY <1>1, BaseInit, BaseStep, MailInit, MailStep, CatalogueStarts, CatalogueStep, PTL DEF Spec

-----------------------------------------------------------------------------
(* Every question has its reply, every reply its message.                  *)

Asked(p) == {i \in DOMAIN chat[p] : chat[p][i].role = "user"}

Messages(p) == {i \in DOMAIN wa : wa[i].type = "CHATBOT_REPLY" /\ wa[i].phone = p}

\* A goroutine that has logged a question of p, and not yet a reply.
Waits(j, p) == j.job = "chat" /\ j.phone = p /\ j.pc \in {"look", "think"}

\* A goroutine that has logged a reply to p, and not yet its message.
HasReply(j, p) == j.job = "chat" /\ j.phone = p /\ j.pc = "send"

Awaiting(p) == {t \in Thread : Waits(run[t], p)}

Replying(p) == {t \in Thread : HasReply(run[t], p)}

\* As many questions as replies and goroutines that are to write one; as many
\* replies as messages and goroutines that are to send one.
Counted(asked, replies, messages, awaiting, replying) ==
  /\ IsFiniteSet(asked) /\ IsFiniteSet(replies) /\ IsFiniteSet(messages)
  /\ IsFiniteSet(awaiting) /\ IsFiniteSet(replying)
  /\ Cardinality(asked) = Cardinality(replies) + Cardinality(awaiting)
  /\ Cardinality(replies) = Cardinality(messages) + Cardinality(replying)

KeepsUp(p) == Counted(Asked(p), Replies(p), Messages(p), Awaiting(p), Replying(p))

AnswerInv == \A p \in Phone \ excused : KeepsUp(p)

\* One more question, and a goroutine that is at it.
LEMMA CountQuestion ==
  ASSUME NEW a, NEW r, NEW m, NEW w, NEW s, Counted(a, r, m, w, s),
         NEW i, i \notin a, NEW t, t \notin w
  PROVE  Counted(a \cup {i}, r, m, w \cup {t}, s)
<1>1. /\ IsFiniteSet(a \cup {i}) /\ Cardinality(a \cup {i}) = Cardinality(a) + 1
      /\ IsFiniteSet(w \cup {t}) /\ Cardinality(w \cup {t}) = Cardinality(w) + 1
  BY FS_AddElement DEF Counted
<1>2. Cardinality(r) \in Nat /\ Cardinality(w) \in Nat
  BY FS_CardinalityType DEF Counted
<1> QED
  BY <1>1, <1>2 DEF Counted

\* One more reply, by a goroutine that is to send it.
LEMMA CountReply ==
  ASSUME NEW a, NEW r, NEW m, NEW w, NEW s, Counted(a, r, m, w, s),
         NEW i, i \notin r, NEW t, t \in w, t \notin s
  PROVE  Counted(a, r \cup {i}, m, w \ {t}, s \cup {t})
<1>1. /\ IsFiniteSet(r \cup {i}) /\ Cardinality(r \cup {i}) = Cardinality(r) + 1
      /\ IsFiniteSet(s \cup {t}) /\ Cardinality(s \cup {t}) = Cardinality(s) + 1
      /\ IsFiniteSet(w \ {t}) /\ Cardinality(w \ {t}) = Cardinality(w) - 1
  BY FS_AddElement, FS_RemoveElement DEF Counted
<1>2. /\ Cardinality(r) \in Nat /\ Cardinality(w) \in Nat
      /\ Cardinality(m) \in Nat /\ Cardinality(s) \in Nat
  BY FS_CardinalityType DEF Counted
<1> QED
  BY <1>1, <1>2 DEF Counted

\* One more message, with the reply a goroutine had.
LEMMA CountMessage ==
  ASSUME NEW a, NEW r, NEW m, NEW w, NEW s, Counted(a, r, m, w, s),
         NEW i, i \notin m, NEW t, t \in s
  PROVE  Counted(a, r, m \cup {i}, w, s \ {t})
<1>1. /\ IsFiniteSet(m \cup {i}) /\ Cardinality(m \cup {i}) = Cardinality(m) + 1
      /\ IsFiniteSet(s \ {t}) /\ Cardinality(s \ {t}) = Cardinality(s) - 1
  BY FS_AddElement, FS_RemoveElement DEF Counted
<1>2. Cardinality(m) \in Nat /\ Cardinality(s) \in Nat
  BY FS_CardinalityType DEF Counted
<1> QED
  BY <1>1, <1>2 DEF Counted

\* Messages to p stay what they are when no row of one to p is added.
LEMMA MessagesStay ==
  ASSUME BaseInv, [Next]_vars, NEW p,
         \A k \in DOMAIN wa' \ DOMAIN wa : wa'[k].type # "CHATBOT_REPLY" \/ wa'[k].phone # p
  PROVE  Messages(p)' = Messages(p)
<1>1. \A k \in DOMAIN wa : k \in DOMAIN wa' /\ wa'[k].type = wa[k].type /\ wa'[k].phone = wa[k].phone
  BY LogGrows DEF RowsStay, SameLetter
<1> QED
  BY <1>1 DEF Messages

\* A step that is about another number, or about none.
LEMMA AnswersStay ==
  ASSUME BaseInv, [Next]_vars, NEW p \in Phone, KeepsUp(p),
         chat'[p] = chat[p],
         \A t \in Thread : /\ Waits(run'[t], p) <=> Waits(run[t], p)
                           /\ HasReply(run'[t], p) <=> HasReply(run[t], p),
         \A k \in DOMAIN wa' \ DOMAIN wa : wa'[k].type # "CHATBOT_REPLY" \/ wa'[k].phone # p
  PROVE  KeepsUp(p)'
<1>1. Messages(p)' = Messages(p)
  BY MessagesStay
<1>2. Asked(p)' = Asked(p) /\ Replies(p)' = Replies(p)
  BY DEF Asked, Replies
<1>3. Awaiting(p)' = Awaiting(p) /\ Replying(p)' = Replying(p)
  BY DEF Awaiting, Replying
<1> QED
  BY <1>1, <1>2, <1>3 DEF KeepsUp

\* What a log gains with an entry.
LEMMA LogGains ==
  ASSUME LogsInv, NEW p \in Phone, NEW role \in {"user", "assistant"},
         NEW says \in Answers \cup {Null}, Log(p, role, says)
  PROVE  LET n == Len(chat[p]) + 1 IN
         /\ n \notin Asked(p) /\ n \notin Replies(p)
         /\ Asked(p)' = IF role = "user" THEN Asked(p) \cup {n} ELSE Asked(p)
         /\ Replies(p)' = IF role = "assistant" THEN Replies(p) \cup {n} ELSE Replies(p)
<1> DEFINE n == Len(chat[p]) + 1
           entry == [role |-> role, says |-> says]
<1>1. chat[p] \in Seq(Entry) /\ chat'[p] = Append(chat[p], entry)
  BY LogStep DEF LogsInv
<1>2. /\ DOMAIN chat'[p] = DOMAIN chat[p] \cup {n} /\ n \notin DOMAIN chat[p]
      /\ \A i \in DOMAIN chat[p] : chat'[p][i] = chat[p][i]
      /\ chat'[p][n].role = role
  BY <1>1
<1> HIDE DEF n, entry
<1>3. n \notin Asked(p) /\ n \notin Replies(p)
  BY <1>2 DEF Asked, Replies
<1>4. Asked(p)' = IF role = "user" THEN Asked(p) \cup {n} ELSE Asked(p)
  BY <1>2 DEF Asked
<1>5. Replies(p)' = IF role = "assistant" THEN Replies(p) \cup {n} ELSE Replies(p)
  BY <1>2 DEF Replies
<1> QED
  BY <1>3, <1>4, <1>5 DEF n

\* A question that is logged waits for its reply.
LEMMA AnswersAsked ==
  ASSUME BaseInv, [Next]_vars, NEW t \in Thread, LogMessage(t), NEW p \in Phone, KeepsUp(p)
  PROVE  KeepsUp(p)'
<1> USE DEF BaseInv
<1>1. /\ Only(t) /\ run[t].pc = "hear" /\ run[t].job = "chat" /\ run[t].phone \in Phone
      /\ run'[t].pc = "look" /\ run'[t].job = "chat" /\ run'[t].phone = run[t].phone
      /\ run[t].says \in Answers \cup {Null}
      /\ Log(run[t].phone, "user", run[t].says)
      /\ UNCHANGED wa
  BY LogMessageStep DEF SameErrand, Chatting
<1>2. CASE run[t].phone # p
  <2>1. chat'[p] = chat[p]
    BY <1>1, <1>2, LogStep
  <2>2. \A o \in Thread : /\ Waits(run'[o], p) <=> Waits(run[o], p)
                          /\ HasReply(run'[o], p) <=> HasReply(run[o], p)
    BY <1>1, <1>2 DEF Only, Waits, HasReply
  <2> QED
    BY <1>1, <2>1, <2>2, AnswersStay
<1>3. CASE run[t].phone = p
  <2> DEFINE n == Len(chat[p]) + 1
  <2>1. n \notin Asked(p) /\ Asked(p)' = Asked(p) \cup {n} /\ Replies(p)' = Replies(p)
    BY <1>1, <1>3, LogGains
  <2>2. Messages(p)' = Messages(p)
    BY <1>1 DEF Messages
  <2>3. t \notin Awaiting(p) /\ Awaiting(p)' = Awaiting(p) \cup {t} /\ Replying(p)' = Replying(p)
    BY <1>1, <1>3 DEF Only, Awaiting, Replying, Waits, HasReply
  <2> QED
    BY <2>1, <2>2, <2>3, CountQuestion DEF KeepsUp
<1> QED
  BY <1>2, <1>3

\* A reply that is logged is to be sent.
LEMMA AnswersWritten ==
  ASSUME BaseInv, [Next]_vars, NEW t \in Thread, GenerateReply(t), NEW p \in Phone, KeepsUp(p)
  PROVE  KeepsUp(p)'
<1> USE DEF BaseInv
<1>1. /\ Only(t) /\ run[t].pc = "think" /\ run[t].job = "chat" /\ run[t].phone \in Phone
      /\ run'[t].pc = "send" /\ run'[t].job = "chat" /\ run'[t].phone = run[t].phone
      /\ run'[t].says \in Answers \cup {Null}
      /\ Log(run[t].phone, "assistant", run'[t].says)
      /\ UNCHANGED wa
  BY GenerateReplyStep DEF Chatting
<1>2. CASE run[t].phone # p
  <2>1. chat'[p] = chat[p]
    BY <1>1, <1>2, LogStep
  <2>2. \A o \in Thread : /\ Waits(run'[o], p) <=> Waits(run[o], p)
                          /\ HasReply(run'[o], p) <=> HasReply(run[o], p)
    BY <1>1, <1>2 DEF Only, Waits, HasReply
  <2> QED
    BY <1>1, <2>1, <2>2, AnswersStay
<1>3. CASE run[t].phone = p
  <2> DEFINE n == Len(chat[p]) + 1
  <2>1. n \notin Replies(p) /\ Asked(p)' = Asked(p) /\ Replies(p)' = Replies(p) \cup {n}
    BY <1>1, <1>3, LogGains
  <2>2. Messages(p)' = Messages(p)
    BY <1>1 DEF Messages
  <2>3. /\ t \in Awaiting(p) /\ Awaiting(p)' = Awaiting(p) \ {t}
        /\ t \notin Replying(p) /\ Replying(p)' = Replying(p) \cup {t}
    BY <1>1, <1>3 DEF Only, Awaiting, Replying, Waits, HasReply
  <2> QED
    BY <2>1, <2>2, <2>3, CountReply DEF KeepsUp
<1> QED
  BY <1>2, <1>3

\* A reply that is sent has its message; a message of a job is no reply.
LEMMA AnswersSent ==
  ASSUME BaseInv, [Next]_vars, NEW t \in Thread, Send(t, MessageType(t)),
         UNCHANGED chat, NEW p \in Phone, KeepsUp(p)
  PROVE  KeepsUp(p)'
<1> USE DEF BaseInv
<1> DEFINE row == NewRow(t, MessageType(t), "pending")
<1>1. /\ run[t].pc = "send" /\ MessageType(t) \in Types
      /\ run[t].job = "chat" <=> MessageType(t) = "CHATBOT_REPLY"
  BY MessageTyped DEF Send, RunAt
<1>2. /\ Only(t) /\ run'[t].job = run[t].job /\ run'[t].phone = run[t].phone
      /\ RowAdded(row) /\ run'[t].pc = "post"
  BY <1>1, SendStep DEF SameErrand
<1>3. row.type = MessageType(t) /\ row.phone = run[t].phone
  BY DEF NewRow
<1> HIDE DEF row
<1>4. CASE run[t].job # "chat" \/ run[t].phone # p
  <2>1. \A o \in Thread : /\ Waits(run'[o], p) <=> Waits(run[o], p)
                          /\ HasReply(run'[o], p) <=> HasReply(run[o], p)
    BY <1>2, <1>4 DEF Only, Waits, HasReply
  <2>2. \A k \in DOMAIN wa' \ DOMAIN wa : wa'[k].type # "CHATBOT_REPLY" \/ wa'[k].phone # p
    BY <1>1, <1>2, <1>3, <1>4 DEF RowAdded
  <2> QED
    BY <2>1, <2>2, AnswersStay
<1>5. CASE run[t].job = "chat" /\ run[t].phone = p
  <2>3. Asked(p)' = Asked(p) /\ Replies(p)' = Replies(p)
    BY DEF Asked, Replies
  <2>4. /\ Len(wa) + 1 \notin Messages(p)
        /\ Messages(p)' = Messages(p) \cup {Len(wa) + 1}
    BY <1>1, <1>2, <1>3, <1>5 DEF RowAdded, Messages
  <2>5. t \in Replying(p) /\ Replying(p)' = Replying(p) \ {t} /\ Awaiting(p)' = Awaiting(p)
    BY <1>1, <1>2, <1>5 DEF Only, Awaiting, Replying, Waits, HasReply
  <2> QED
    BY <2>3, <2>4, <2>5, CountMessage DEF KeepsUp
<1> QED
  BY <1>4, <1>5

\* Steps of jobs, attempts, what is not sent, and what ends the time of a job.
LEMMA AnswersElsewhere ==
  ASSUME BaseInv, [Next]_vars, NEW p \in Phone, KeepsUp(p),
         \/ \E t \in Thread : JobMove(t) /\ UNCHANGED chat
         \/ \E t \in Thread : AttemptMove(t) /\ UNCHANGED chat
         \/ \E t \in Thread : SendFails(t) /\ run[t].job # "chat" /\ UNCHANGED chat
         \/ \E t \in Thread : TimesOut(t)
  PROVE  KeepsUp(p)'
<1> USE DEF BaseInv
<1>1. "chat" \notin JobTypes /\ Asleep.job # "chat"
  BY JobNames, NumberAssumption DEF Asleep
<1>2. ASSUME NEW t \in Thread, Only(t), UNCHANGED chat,
             \A q : /\ ~Waits(run[t], q) /\ ~Waits(run'[t], q)
                    /\ ~HasReply(run[t], q) /\ ~HasReply(run'[t], q),
             \A k \in DOMAIN wa' \ DOMAIN wa : wa'[k].type # "CHATBOT_REPLY"
      PROVE  KeepsUp(p)'
  <2>1. \A o \in Thread : /\ Waits(run'[o], p) <=> Waits(run[o], p)
                          /\ HasReply(run'[o], p) <=> HasReply(run[o], p)
    BY <1>2 DEF Only
  <2> QED
    BY <1>2, <2>1, AnswersStay
<1>3. ASSUME NEW t \in Thread, JobMove(t), UNCHANGED chat
      PROVE  KeepsUp(p)'
  <2>1. Only(t) /\ run[t].job # "chat" /\ run'[t].job # "chat"
    <3>1. CASE \E j \in Jobs : ListDue(t, j)
      BY <1>1, <3>1, ListDueStep, JobNames
    <3>2. CASE Finish(t)
      BY <1>1, <3>2, FinishStep, WhoIsWhere DEF Warning, Reminding
    <3>3. CASE \E x \in Ref : Take(t, x)
      BY <1>1, <3>3, TakeStep, WhoIsWhere DEF Warning, Reminding
    <3>4. CASE After(t)
      BY <1>1, <3>4, AfterStep DEF Reminding
    <3>5. CASE CheckToday(t) \/ CheckFails(t) \/ Warn(t) \/ Mark(t) \/ MarkFails(t)
      BY <3>5, CheckTodayStep, WarnStep, MarkStep DEF Warning
    <3> QED
      BY <1>3, <3>1, <3>2, <3>3, <3>4, <3>5 DEF JobMove
  <2>2. \A k \in DOMAIN wa' \ DOMAIN wa : wa'[k].type # "CHATBOT_REPLY"
    <3>1. CASE Mark(t) /\ wa' = Append(wa, NewRow(t, "QUOTA_WARNING", "sent"))
      <4>1. NewRow(t, "QUOTA_WARNING", "sent") \in Row
        BY NewRowTyped DEF Types
      <4>2. RowAdded(NewRow(t, "QUOTA_WARNING", "sent"))
        BY <3>1, <4>1, AppendedRow DEF FlightsInv
      <4> QED
        BY <4>2 DEF RowAdded, NewRow
    <3> QED
      BY <1>3, <3>1, MarkStep
         DEF JobMove, ListDue, Take, After, CheckToday, CheckFails, Warn, MarkFails, Finish
  <2> QED
    BY <1>2, <1>3, <2>1, <2>2 DEF Waits, HasReply
<1>4. ASSUME NEW t \in Thread, AttemptMove(t), UNCHANGED chat
      PROVE  KeepsUp(p)'
  <2>1. /\ Only(t) /\ run[t].pc \in {"post", "wait", "keep"}
        /\ run'[t].pc \in {"post", "wait", "keep", "after"}
        /\ DOMAIN wa' = DOMAIN wa
    BY <1>4, AttemptStep DEF Attempted, Flying, RowWritten
  <2> QED
    BY <1>2, <1>4, <2>1 DEF Waits, HasReply
<1>5. ASSUME NEW t \in Thread, TimesOut(t)
      PROVE  KeepsUp(p)'
  <2>1. Only(t) /\ run[t].job # "chat" /\ run'[t].job # "chat" /\ UNCHANGED <<wa, chat>>
    BY <1>1, <1>5, TimesOutStep DEF chatVars
  <2> QED
    BY <1>2, <2>1 DEF Waits, HasReply
<1>6. ASSUME NEW t \in Thread, SendFails(t), run[t].job # "chat", UNCHANGED chat
      PROVE  KeepsUp(p)'
  <2>1. Only(t) /\ run'[t].job # "chat" /\ UNCHANGED wa
    BY <1>6, SendFailsStep DEF SameErrand
  <2> QED
    BY <1>2, <1>6, <2>1 DEF Waits, HasReply
<1> QED
  BY <1>3, <1>4, <1>5, <1>6

\* A number that no consultant took, and of whose answers no crash and no failing
\* statement took one, keeps up.
LEMMA AnswersStep == BaseInv /\ AnswerInv /\ [Next]_vars => AnswerInv'
<1> SUFFICES ASSUME BaseInv, AnswerInv, [Next]_vars, NEW p \in Phone, p \notin excused'
             PROVE  KeepsUp(p)'
  BY DEF AnswerInv
<1> USE DEF BaseInv
<1>1. excused \subseteq excused'
  BY Moves
     DEF chatVars, ChatMove, HandleFonnteWebhook, EchoArrives, EchoUnread, LogMessage, StayOut,
         GenerateReply, Replied, Fails, Excuse, PhoneMove, TakeOver, HandBack, NewMinute, TimesOut, Die,
         TimeMove, Still
<1>2. KeepsUp(p) /\ p \notin handled
  BY <1>1 DEF AnswerInv, LogsInv, ChatTypeOK
<1>3. ASSUME UNCHANGED <<run, chat>>, DOMAIN wa' = DOMAIN wa
      PROVE  KeepsUp(p)'
  BY <1>2, <1>3, AnswersStay
<1>4. ASSUME NEW t \in Thread, ChatMove(t)
      PROVE  KeepsUp(p)'
  <2>1. ASSUME NEW q \in Phone, NEW says \in Answers \cup {Null}, LetThrough(t, q, says),
               UNCHANGED chat, DOMAIN wa' = DOMAIN wa
        PROVE  KeepsUp(p)'
    <3>1. CASE UNCHANGED run
      BY <1>3, <2>1, <3>1
    <3>2. CASE Only(t) /\ run[t] = Asleep /\ run'[t].pc = "hear"
      <4>1. Asleep.pc = "idle"
        BY DEF Asleep
      <4>2. \A o \in Thread : /\ Waits(run'[o], p) <=> Waits(run[o], p)
                              /\ HasReply(run'[o], p) <=> HasReply(run[o], p)
        BY <3>2, <4>1 DEF Only, Waits, HasReply
      <4> QED
        BY <1>2, <2>1, <4>2, AnswersStay
    <3> QED
      BY <2>1, <3>1, <3>2, LetThroughStep
  <2>2. ASSUME NEW q \in Phone, HandleFonnteWebhook(t, q)
        PROVE  KeepsUp(p)'
    BY <2>1, <2>2 DEF HandleFonnteWebhook
  <2>3. ASSUME NEW i \in DOMAIN wa, EchoArrives(t, i) \/ EchoUnread(t, i)
        PROVE  KeepsUp(p)'
    <3>1. wa[i].phone \in Phone /\ wa[i].says \in Answers \cup {Null}
      BY <2>3, RowTyped DEF EchoArrives, EchoUnread, Row
    <3>2. UNCHANGED run \/ LetThrough(t, wa[i].phone, wa[i].says)
      BY <2>3 DEF EchoArrives, EchoUnread
    <3>3. UNCHANGED chat /\ DOMAIN wa' = DOMAIN wa
      BY <2>3, EchoRow DEF EchoArrives, EchoUnread
    <3> QED
      BY <1>3, <2>1, <3>1, <3>2, <3>3
  <2>4. CASE LogMessage(t)
    BY <1>2, <2>4, AnswersAsked
  <2>5. CASE StayOut(t)
    <3>1. /\ Only(t) /\ run[t].pc = "look" /\ run[t].job = "chat"
          /\ \/ run[t].phone \in handled /\ run'[t] = Asleep
             \/ /\ run'[t].pc = "think" /\ run'[t].job = run[t].job
                /\ run'[t].phone = run[t].phone
          /\ UNCHANGED <<wa, chat>>
      BY <2>5, StayOutStep DEF Chatting, SameErrand
    <3>2. Asleep.pc = "idle"
      BY DEF Asleep
    <3>3. \A o \in Thread : /\ Waits(run'[o], p) <=> Waits(run[o], p)
                            /\ HasReply(run'[o], p) <=> HasReply(run[o], p)
      BY <1>2, <3>1, <3>2 DEF Only, Waits, HasReply
    <3> QED
      BY <1>2, <3>1, <3>3, AnswersStay
  <2>6. CASE GenerateReply(t)
    BY <1>2, <2>6, AnswersWritten
  <2>7. CASE Replied(t)
    <3>1. /\ Only(t) /\ run[t].pc = "after" /\ run'[t].pc = "idle"
          /\ UNCHANGED <<wa, chat>>
      BY <2>7, RestStep DEF Replied, chatVars, Asleep
    <3>2. \A o \in Thread : /\ Waits(run'[o], p) <=> Waits(run[o], p)
                            /\ HasReply(run'[o], p) <=> HasReply(run[o], p)
      BY <3>1 DEF Only, Waits, HasReply
    <3> QED
      BY <1>2, <3>1, <3>2, AnswersStay
  <2>8. CASE Fails(t)
    <3>1. /\ Only(t) /\ run[t].job = "chat" /\ UNCHANGED <<wa, chat>>
          /\ \/ run[t].phone \in excused' /\ run'[t].phone \in {run[t].phone, Null}
             \/ /\ run[t].pc = "look" /\ run'[t].pc = "think"
                /\ run'[t].job = run[t].job /\ run'[t].phone = run[t].phone
      BY <2>8, FailsStep DEF Chatting, SameErrand, Excuse, Asleep
    <3>2. p # Null
      BY NumberAssumption
    <3>3. \A o \in Thread : /\ Waits(run'[o], p) <=> Waits(run[o], p)
                            /\ HasReply(run'[o], p) <=> HasReply(run[o], p)
      BY <3>1, <3>2 DEF Only, Waits, HasReply
    <3> QED
      BY <1>2, <3>1, <3>3, AnswersStay
  <2> QED
    BY <1>4, <2>2, <2>3, <2>4, <2>5, <2>6, <2>7, <2>8 DEF ChatMove
<1>5. ASSUME NEW P \in Processes, Die(P)
      PROVE  KeepsUp(p)'
  <2>1. \A t \in P : run[t].job = "chat" => run[t].phone # p
    BY <1>5 DEF Die
  <2>2. \A t \in Thread : run'[t] = run[t] \/ (run'[t].pc = "idle" /\ t \in P)
    BY <1>5, DieStep DEF Asleep
  <2>3. \A t \in Thread : /\ Waits(run'[t], p) <=> Waits(run[t], p)
                          /\ HasReply(run'[t], p) <=> HasReply(run[t], p)
    BY <2>1, <2>2 DEF Waits, HasReply
  <2> QED
    BY <1>2, <1>5, <2>3, AnswersStay DEF Die
<1>6. ASSUME \/ \E q \in Phone : PhoneMove(q)
             \/ TimeMove
             \/ Still
      PROVE  KeepsUp(p)'
  BY <1>3, <1>6 DEF PhoneMove, TakeOver, HandBack, NewMinute, TimeMove, Still, Outbox, chatVars
<1>7. ASSUME NEW t \in Thread, SendMove(t), UNCHANGED chatVars
      PROVE  KeepsUp(p)'
  BY <1>2, <1>7, AnswersSent, AnswersElsewhere DEF SendMove, chatVars
<1>8. CASE \/ \E t \in Thread : JobMove(t) /\ UNCHANGED chatVars
           \/ \E t \in Thread : AttemptMove(t) /\ UNCHANGED chatVars
           \/ \E t \in Thread : TimesOut(t)
  BY <1>2, <1>8, AnswersElsewhere DEF chatVars
<1> QED
  BY <1>4, <1>5, <1>6, <1>7, <1>8, Moves

\* Everyone who writes is answered: when nothing is under way for a number that
\* was not excused, it has as many replies, and messages, as it asked questions.
THEOREM EveryoneAnswered == Spec => []EveryoneIsAnswered
<1>1. Init => AnswerInv
  <2> SUFFICES ASSUME Init, NEW p \in Phone PROVE KeepsUp(p)
    BY DEF AnswerInv
  <2>1. chat[p] = <<>> /\ DOMAIN wa = {} /\ \A t \in Thread : run[t].pc = "idle"
    BY DEF Init, ChatInit, Asleep
  <2>2. /\ Asked(p) = {} /\ Replies(p) = {} /\ Messages(p) = {}
        /\ Awaiting(p) = {} /\ Replying(p) = {}
    BY <2>1 DEF Asked, Replies, Messages, Awaiting, Replying, Waits, HasReply
  <2> QED
    BY <2>2, FS_EmptySet DEF KeepsUp, Counted
<1>2. ASSUME BaseInv, AnswerInv
      PROVE  EveryoneIsAnswered
  <2> SUFFICES ASSUME NEW p \in Phone \ excused,
                      \A t \in Thread : ~(run[t].job = "chat" /\ run[t].phone = p)
               PROVE  /\ Cardinality(Replies(p)) * 2 = Len(chat[p])
                      /\ Cardinality(Messages(p)) = Cardinality(Replies(p))
    BY DEF EveryoneIsAnswered, Messages
  <2>1. Awaiting(p) = {} /\ Replying(p) = {}
    BY DEF Awaiting, Replying, Waits, HasReply
  <2>2. /\ IsFiniteSet(Asked(p)) /\ IsFiniteSet(Replies(p)) /\ IsFiniteSet(Messages(p))
        /\ Cardinality(Asked(p)) = Cardinality(Replies(p)) + Cardinality({})
        /\ Cardinality(Replies(p)) = Cardinality(Messages(p)) + Cardinality({})
    BY <1>2, <2>1 DEF AnswerInv, KeepsUp, Counted
  <2>3. /\ Cardinality({}) = 0
        /\ Cardinality(Asked(p)) \in Nat /\ Cardinality(Replies(p)) \in Nat
        /\ Cardinality(Messages(p)) \in Nat
    BY <2>2, FS_EmptySet, FS_CardinalityType
  <2>4. chat[p] \in Seq(Entry)
    BY <1>2 DEF BaseInv, LogsInv
  <2>5. Asked(p) \cup Replies(p) = 1..Len(chat[p]) /\ Asked(p) \cap Replies(p) = {}
    <3>1. \A i \in DOMAIN chat[p] : chat[p][i].role \in {"user", "assistant"}
      <4>1. \A i \in DOMAIN chat[p] : chat[p][i] \in Entry
        BY <2>4
      <4> QED
        BY <4>1 DEF Entry
    <3> QED
      BY <2>4, <3>1 DEF Asked, Replies
  <2>6. Cardinality(1..Len(chat[p])) = Len(chat[p])
    <3>1. Len(chat[p]) \in Nat
      BY <2>4
    <3> QED
      BY <3>1, FS_Interval
  <2>7. Cardinality(Asked(p) \cup Replies(p)) = Cardinality(Asked(p)) + Cardinality(Replies(p))
    <3>1. Cardinality(Asked(p) \cup Replies(p)) =
            Cardinality(Asked(p)) + Cardinality(Replies(p)) - Cardinality(Asked(p) \cap Replies(p))
      BY <2>2, FS_Union
    <3>2. Cardinality(Asked(p) \cap Replies(p)) = 0
      BY <2>3, <2>5
    <3> QED
      BY <2>3, <3>1, <3>2
  <2>8. /\ Cardinality(Asked(p)) = Cardinality(Replies(p))
        /\ Cardinality(Replies(p)) = Cardinality(Messages(p))
    BY <2>2, <2>3
  <2>9. Len(chat[p]) = Cardinality(Asked(p)) + Cardinality(Replies(p))
    BY <2>5, <2>6, <2>7
  <2> QED
    BY <2>3, <2>8, <2>9
<1> QED
  BY <1>1, <1>2, BaseInit, BaseStep, AnswersStep, PTL DEF Spec

-----------------------------------------------------------------------------
(* What the log of the messages says stays true.                           *)

\* Nothing is sent again for a row that says how its message ended, and it
\* keeps saying so.
EndsStay ==
  \A i \in DOMAIN wa :
    /\ wa[i].copies <= wa'[i].copies
    /\ wa[i].status # "pending" => /\ wa'[i].status = wa[i].status
                                   /\ wa'[i].copies = wa[i].copies

\* Only the goroutine that sends a message writes how it ended, and it does so
\* once.
LEMMA EndsStep == BaseInv /\ [Next]_vars => EndsStay
<1> SUFFICES ASSUME BaseInv, [Next]_vars PROVE EndsStay
  OBVIOUS
<1> USE DEF BaseInv
<1>1. \A i \in DOMAIN wa : wa[i].copies \in Nat
  BY RowTyped DEF Row
<1>2. ASSUME \A i \in DOMAIN wa : wa'[i].copies = wa[i].copies /\ wa'[i].status = wa[i].status
      PROVE  EndsStay
  BY <1>1, <1>2 DEF EndsStay
<1>3. ASSUME NEW t \in Thread, JobMove(t)
      PROVE  EndsStay
  <2>1. CASE Mark(t) /\ wa' = Append(wa, NewRow(t, "QUOTA_WARNING", "sent"))
    <3>1. NewRow(t, "QUOTA_WARNING", "sent") \in Row
      BY NewRowTyped DEF Types
    <3>2. RowAdded(NewRow(t, "QUOTA_WARNING", "sent"))
      BY <2>1, <3>1, AppendedRow DEF FlightsInv
    <3> QED
      BY <1>2, <3>2 DEF RowAdded
  <2>2. CASE UNCHANGED wa
    BY <1>2, <2>2
  <2> QED
    BY <1>3, <2>1, <2>2, MarkStep
       DEF JobMove, ListDue, Take, After, CheckToday, CheckFails, Warn, MarkFails, Finish
<1>4. ASSUME NEW t \in Thread, AttemptMove(t)
      PROVE  EndsStay
  <2> DEFINE r == run[t].row
  <2>1. /\ Flying(run[t]) /\ RowWritten(r) /\ wa[r].copies <= wa'[r].copies
    BY <1>4, AttemptStep DEF Attempted
  <2>2. wa[r].status = "pending"
    BY <2>1 DEF FlightsInv, Flight
  <2> HIDE DEF r
  <2>3. \A i \in DOMAIN wa : i # r => wa'[i] = wa[i]
    BY <2>1 DEF RowWritten
  <2> QED
    BY <1>1, <2>1, <2>2, <2>3 DEF EndsStay
<1>5. ASSUME NEW t \in Thread, SendMove(t)
      PROVE  EndsStay
  <2>1. CASE SendFails(t)
    BY <1>2, <2>1 DEF SendFails
  <2>2. CASE Send(t, MessageType(t))
    <3>1. MessageType(t) \in Types
      BY <2>2, MessageTyped DEF Send, RunAt
    <3> QED
      BY <1>2, <2>2, <3>1, SendStep DEF RowAdded
  <2> QED
    BY <1>5, <2>1, <2>2 DEF SendMove
<1>6. ASSUME NEW t \in Thread, ChatMove(t)
      PROVE  EndsStay
  <2>1. ASSUME NEW i \in DOMAIN wa, EchoArrives(t, i) \/ EchoUnread(t, i)
        PROVE  EndsStay
    BY <1>2, <2>1, EchoRow
  <2> QED
    BY <1>2, <1>6, <2>1
       DEF ChatMove, HandleFonnteWebhook, LogMessage, StayOut, GenerateReply, Replied, Fails
<1>7. ASSUME NEW P \in Processes, Die(P)
      PROVE  EndsStay
  <2>1. \A i \in DOMAIN wa : wa[i] \in Row
    BY RowTyped
  <2>2. \A i \in DOMAIN wa : wa'[i] = wa[i] \/ wa'[i] = [wa[i] EXCEPT !.cut = TRUE]
    BY <1>7 DEF Die
  <2>3. \A i \in DOMAIN wa : wa'[i].copies = wa[i].copies /\ wa'[i].status = wa[i].status
    BY <2>1, <2>2 DEF Row
  <2> QED
    BY <1>2, <2>3
<1>8. CASE \/ \E t \in Thread : TimesOut(t)
           \/ \E p \in Phone : PhoneMove(p)
           \/ TimeMove
           \/ Still
  BY <1>2, <1>8
     DEF TimesOut, PhoneMove, TakeOver, HandBack, NewMinute, TimeMove, Still, Outbox
<1> QED
  BY <1>3, <1>4, <1>5, <1>6, <1>7, <1>8, Moves

\* No row of the log is lost or readdressed; one that says its message was
\* sent, or was not, says so for good, and no late answer, retry or crash sends
\* the message once more after that (fonnte.go:106-164).
LogIsFinal == [][RowsStay /\ EndsStay]_vars

\* What a step adds to the log, and what it may still write to it, as a theorem
\* of every behaviour: a goroutine writes to the row it sends, while it is
\* pending, and to no other.
THEOREM LogStaysFinal == Spec => LogIsFinal
<1>1. BaseInv /\ [Next]_vars => [RowsStay /\ EndsStay]_vars
  BY LogGrows, EndsStep
<1> QED
  BY <1>1, BaseInit, BaseStep, PTL DEF Spec, LogIsFinal
=============================================================================
