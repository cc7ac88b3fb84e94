------------------------------ MODULE Outreach ------------------------------
(***************************************************************************)
(* What the system tells people of its own accord: the scheduled jobs and  *)
(* the same jobs run by hand, the messages they send, the chat bot that    *)
(* hears those messages come back, and the departures of the catalogue     *)
(* whose seats run out.                                                    *)
(*                                                                         *)
(* A job lists what is due in one query, which leaves out what             *)
(* wa_notifications already has a recent row for, and then goes through    *)
(* its list for minutes.  The row a message leaves is what the next run    *)
(* remembers it by.                                                        *)
(***************************************************************************)
EXTENDS Chatbot, Catalogue

CONSTANTS
  Lead,          \* leads that may be due for a call
  Invoice,       \* invoices that may be unpaid
  Traveller,     \* participants whose departure may be near
  PhoneOf,       \* whom a message about each of these goes to
  Budgets        \* bounds on what happens, one of which a behaviour keeps to

ASSUME RefAssumption ==
  /\ Ref = Lead \cup Invoice \cup Traveller \cup Batch
  /\ Batch \cap (Lead \cup Invoice \cup Traveller) = {}
ASSUME PhoneAssumption ==
  /\ PhoneOf \in [Lead \cup Invoice \cup Traveller -> Phone \cup {Null}]
  /\ \A x \in Traveller : PhoneOf[x] # Null

\* Runs of jobs, what customers and the gateway bring in, what the back office
\* asks for, times that pass, and what fails: answers that get lost or garbled,
\* statements, e-mails, processes that die and times that end.
Events == {"jobs", "chats", "edits", "ticks", "faults"}

ASSUME BudgetAssumption ==
  Budgets \subseteq [Events -> Nat] /\ \A b \in Budgets : b["ticks"] <= LastTick

VARIABLES
  mail,          \* the e-mails that went out
  overlap,       \* history: jobs of which two runs were under way at once
  unmarked,      \* history: departures whose marker was not written or not read
  budget         \* what may still happen

jobVars == <<mail, overlap, unmarked>>

vars == <<Outbox, chatVars, catalogueVars, jobVars, budget>>

-----------------------------------------------------------------------------
\* A job, by the type it logs: what it is about, how long it remembers what it
\* has sent, whether its time is limited, whether it can be run by hand, and
\* whether an e-mail goes with the message.
Job(type, of, memory, limited, byHand, mails) ==
  [type |-> type, of |-> of, memory |-> memory, limited |-> limited,
   byHand |-> byHand, mails |-> mails]

checkStaleLeads == Job("LEADS_STALE", Lead, "window", TRUE, TRUE, FALSE)

expireInvoices == Job("PAYMENT_OVERDUE", Invoice, "window", TRUE, TRUE, TRUE)

checkBatchQuota == Job("QUOTA_WARNING", Batch, "day", TRUE, TRUE, TRUE)

sendPaymentReminders == Job("PAYMENT_REMINDER", Invoice, "day", FALSE, FALSE, FALSE)

sendDepartureReminders == Job("REMINDER", Traveller, "none", FALSE, FALSE, TRUE)

activateBriefing == Job("REMINDER_H14", Traveller, "none", FALSE, FALSE, TRUE)

sendAirportInfo == Job("DEPARTURE_CONFIRM", Traveller, "none", FALSE, FALSE, FALSE)

Jobs == {checkStaleLeads, expireInvoices, checkBatchQuota, sendPaymentReminders,
         sendDepartureReminders, activateBriefing, sendAirportInfo}

JobNamed == [type \in {j.type : j \in Jobs} |-> CHOOSE j \in Jobs : j.type = type]

TypeOK ==
  /\ ChatTypeOK
  /\ CatalogueTypeOK
  /\ \A i \in DOMAIN wa : wa[i] \in Row
  /\ \A t \in Thread : \/ run[t] = Asleep
                       \/ run[t].job = "chat" /\ OfServer(t) /\ run[t].phone \in Phone
                       \/ /\ run[t].job \in DOMAIN JobNamed
                          /\ run[t].left \subseteq JobNamed[run[t].job].of
                          /\ run[t].late => JobNamed[run[t].job].limited
  /\ now \in 0..LastTick
  /\ \A i \in DOMAIN mail :
       mail[i] \in [type : DOMAIN JobNamed, ref : Ref \cup {Null}, at : 0..LastTick]
  /\ overlap \subseteq DOMAIN JobNamed
  /\ unmarked \subseteq Batch
  /\ \E b \in Budgets : \A e \in Events : budget[e] \in 0..b[e]

Init ==
  /\ ChatInit
  /\ CatalogueInit
  /\ wa = <<>>
  /\ run = [t \in Thread |-> Asleep]
  /\ now = 0
  /\ mail = <<>>
  /\ overlap = {}
  /\ unmarked = {}
  /\ budget \in Budgets

-----------------------------------------------------------------------------
Spend(event) == budget[event] > 0 /\ budget' = [budget EXCEPT ![event] = @ - 1]

\* A statement fails: all do once the goroutine's time is over.
Fault(t) == IF run[t].late THEN UNCHANGED budget ELSE Spend("faults")

SameDay(m, n) == m \div TicksPerDay = n \div TicksPerDay

\* Two ticks that are less than a day apart whenever in them they are.
WithinWindow(m, n) == n < m + TicksPerDay /\ m < n + TicksPerDay

Recent(j, m) == CASE j.memory = "window" -> WithinWindow(m, now)
                  [] j.memory = "day" -> SameDay(m, now)
                  [] OTHER -> FALSE

Reminded_OnlySent(j, x) ==
  \E i \in DOMAIN wa : /\ wa[i].type = j.type /\ wa[i].ref = x
                       /\ wa[i].status = "sent" /\ Recent(j, wa[i].at)

\* The row counts whatever became of its message.
Reminded(j, x) ==
  \E i \in DOMAIN wa : wa[i].type = j.type /\ wa[i].ref = x /\ Recent(j, wa[i].at)

\* What a run can find to do.  Which leads, invoices and travellers meet the
\* rest of the query is up to other tables; so is a row as old as the window.
\* The seats are counted now, and the warnings of the day are looked for later.
Lists(j) ==
  IF j = checkBatchQuota THEN {NearlyFull}
  ELSE SUBSET {x \in j.of : ~Reminded(j, x)}

\* A run of the job is under way elsewhere: in a command, in the server, whose
\* scheduler does not wait for it, or in another server.
Running(t, j) == \E o \in Thread \ {t} : run[o].job = j.type

ListDue(t, j) ==
  /\ RunAt(t, "idle")
  /\ OfServer(t) \/ j.byHand
  /\ \E due \in Lists(j) \ {{}} :
       run' = [run EXCEPT ![t] = [Asleep EXCEPT !.pc = "next", !.job = j.type,
                                                !.left = due]]
  /\ overlap' = IF Running(t, j) THEN overlap \cup {j.type} ELSE overlap
  /\ UNCHANGED <<wa, mail, unmarked>>

\* Without a number there is nothing to send, and the marker an overdue invoice
\* is to get instead has a status that the table refuses.
Take(t, x) ==
  /\ RunAt(t, "next")
  /\ x \in run[t].left
  /\ LET j == JobNamed[run[t].job]
         silent == x \notin Batch /\ PhoneOf[x] = Null
         step == CASE x \in Batch -> "check"
                   [] silent /\ j # expireInvoices -> "next"
                   [] silent /\ j = expireInvoices -> "after"
                   [] OTHER -> "send"
     IN run' = [run EXCEPT ![t].pc = step, ![t].left = @ \ {x},
                           ![t].on = IF step = "next" THEN Null ELSE x,
                           ![t].phone = IF x \in Batch THEN Null ELSE PhoneOf[x]]
  /\ UNCHANGED <<wa, jobVars, budget>>

\* An e-mail is tried once; nobody looks at what became of it.
Mailed(t, x) ==
  IF run[t].late
  THEN UNCHANGED <<mail, budget>>
  ELSE \/ /\ mail' = Append(mail, [type |-> run[t].job, ref |-> x, at |-> now])
          /\ UNCHANGED budget
       \/ Spend("faults") /\ UNCHANGED mail

\* Go back to the list.
Return(t) == run' = [run EXCEPT ![t] = [Asleep EXCEPT !.pc = "next", !.job = run[t].job,
                                          !.left = run[t].left, !.late = run[t].late]]

After(t) ==
  /\ RunAt(t, "after")
  /\ run[t].job # "chat"
  /\ IF JobNamed[run[t].job].mails THEN Mailed(t, run[t].on) ELSE UNCHANGED <<mail, budget>>
  /\ Return(t)
  /\ UNCHANGED <<wa, overlap, unmarked>>

CheckToday(t) ==
  /\ RunAt(t, "check")
  /\ ~run[t].late
  /\ IF Reminded(checkBatchQuota, run[t].on) THEN Return(t) ELSE Go(t, "warn")
  /\ UNCHANGED <<wa, jobVars, budget>>

\* A query that fails has found no warning.
CheckFails(t) ==
  /\ RunAt(t, "check")
  /\ Fault(t)
  /\ Go(t, "warn")
  /\ unmarked' = IF run[t].late THEN unmarked ELSE unmarked \cup {run[t].on}
  /\ UNCHANGED <<wa, mail, overlap>>

Warn(t) ==
  /\ RunAt(t, "warn")
  /\ Mailed(t, run[t].on)
  /\ Go(t, "mark")
  /\ UNCHANGED <<wa, overlap, unmarked>>

Mark_Skipped(t) ==
  /\ RunAt(t, "mark")
  /\ ~run[t].late
  /\ Return(t)
  /\ UNCHANGED <<wa, jobVars, budget>>

\* The marker comes after the e-mails, and is a row like that of a message.
Mark(t) ==
  /\ RunAt(t, "mark")
  /\ ~run[t].late
  /\ Create(t, "QUOTA_WARNING", "sent")
  /\ Return(t)
  /\ UNCHANGED <<jobVars, budget>>

MarkFails(t) ==
  /\ RunAt(t, "mark")
  /\ Fault(t)
  /\ Return(t)
  /\ unmarked' = unmarked \cup {run[t].on}
  /\ UNCHANGED <<wa, mail, overlap>>

\* The list is done; the admins get one digest of the overdue invoices.
Finish(t) ==
  /\ RunAt(t, "next")
  /\ run[t].left = {}
  /\ IF run[t].job = expireInvoices.type THEN Mailed(t, Null) ELSE UNCHANGED <<mail, budget>>
  /\ Rest(t)
  /\ UNCHANGED <<wa, overlap, unmarked>>

-----------------------------------------------------------------------------
\* The scheduler's time for a job has come, or somebody runs it by hand.
RunJob ==
  /\ Spend("jobs")
  /\ \E t \in Thread, j \in Jobs : ListDue(t, j)
  /\ UNCHANGED <<chatVars, catalogueVars, now>>

JobSteps ==
  /\ \E t \in Thread :
       \/ \E x \in Ref : Take(t, x)
       \/ After(t) \/ Finish(t)
       \/ CheckToday(t) \/ CheckFails(t) \/ Warn(t) \/ Mark(t) \/ MarkFails(t)
  /\ UNCHANGED <<chatVars, catalogueVars, now>>

SendOfJob ==
  /\ \E t \in Thread :
       /\ run[t].job # "chat"
       /\ \/ Send(t, run[t].job) /\ UNCHANGED budget
          \/ SendFails(t) /\ Fault(t)
  /\ UNCHANGED <<chatVars, catalogueVars, jobVars, now>>

Gateway ==
  /\ \E t \in Thread :
       \/ (Answered(t) \/ Retry(t) \/ UpdateStatus(t)) /\ UNCHANGED budget
       \/ (Unanswered(t) \/ Garbled(t)) /\ Spend("faults")
       \/ GiveUp(t) /\ Fault(t)
  /\ UNCHANGED <<chatVars, catalogueVars, jobVars, now>>

ChatCalls ==
  /\ Spend("chats")
  /\ \/ \E t \in Thread, p \in Phone : HandleFonnteWebhook(t, p)
     \/ \E t \in Thread, i \in DOMAIN wa : EchoArrives(t, i)
     \/ \E p \in Phone : TakeOver(p) \/ HandBack(p)
  /\ UNCHANGED <<catalogueVars, jobVars, now>>

ChatSteps ==
  /\ \E t \in Thread : LogMessage(t) \/ StayOut(t) \/ GenerateReply(t) \/ SendReply(t)
  /\ UNCHANGED <<catalogueVars, jobVars, now, budget>>

ChatFaults ==
  /\ Spend("faults")
  /\ \E t \in Thread : Fails(t) \/ \E i \in DOMAIN wa : EchoUnread(t, i)
  /\ UNCHANGED <<catalogueVars, jobVars, now>>

CatalogueCalls ==
  /\ Spend("edits")
  /\ \/ \E p \in Package : DeletePackage(p) \/ \E s \in Slug : CreatePackage(p, s)
     \/ \E b \in Batch : MoveDeal(b)
     \/ \E e \in Editor, p \in Package : UpdatePackage(e, p)
     \/ \E e \in Editor, b \in Batch, c \in Package \cup {NoPackage} :
          UpdateBatch(e, b, c) \/ \E p \in Package : CreateBatch(e, b, p, c)
  /\ UNCHANGED <<Outbox, chatVars, jobVars>>

CatalogueSteps ==
  /\ \E e \in Editor : WritePackage(e) \/ InsertBatch(e) \/ WriteBatch(e)
  /\ UNCHANGED <<Outbox, chatVars, jobVars, budget>>

\* Goroutines that go down together: the server's, with what it counts in
\* memory, or that of a command.
Processes == {Thread \ ByHand} \cup {{t} : t \in ByHand}

Die(P) ==
  /\ Spend("faults")
  /\ \E t \in P : ~RunAt(t, "idle")
  /\ run' = [t \in Thread |-> IF t \in P THEN Asleep ELSE run[t]]
  /\ wa' = [i \in DOMAIN wa |-> IF \E t \in P : Sending(t, i)
                                THEN [wa[i] EXCEPT !.cut = TRUE] ELSE wa[i]]
  /\ unmarked' = unmarked \cup {run[t].on : t \in {u \in P : RunAt(u, "mark")}}
  /\ excused' = excused \cup {run[t].phone : t \in {u \in P : run[u].job = "chat"}}
  /\ flood' = IF P \subseteq ByHand THEN flood ELSE [p \in Phone |-> 0]
  /\ UNCHANGED <<chat, handled, misheard, catalogueVars, now, mail, overlap>>

\* The time of a job is over; the job goes on.
TimesOut(t) ==
  /\ Spend("faults")
  /\ run[t].job \in DOMAIN JobNamed
  /\ JobNamed[run[t].job].limited
  /\ ~run[t].late
  /\ run' = [run EXCEPT ![t].late = TRUE]
  /\ UNCHANGED <<wa, now, chatVars, catalogueVars, jobVars>>

\* Time passes: half a day, or the minute of the flood guard.
Minute ==
  /\ Spend("ticks")
  /\ \E p \in Phone : NewMinute(p)
  /\ UNCHANGED <<catalogueVars, jobVars, now>>

Tick ==
  /\ Spend("ticks")
  /\ now' = now + 1
  /\ UNCHANGED <<wa, run, chatVars, catalogueVars, jobVars>>

Next ==
  \/ RunJob \/ JobSteps \/ SendOfJob \/ Gateway
  \/ ChatCalls \/ ChatSteps \/ ChatFaults
  \/ CatalogueCalls \/ CatalogueSteps
  \/ \E P \in Processes : Die(P)
  \/ \E t \in Thread : TimesOut(t)
  \/ Minute \/ Tick

Spec == Init /\ [][Next]_vars

-----------------------------------------------------------------------------
\* Two messages of a job about the same thing, one of which it should have been
\* kept from by remembering the other.
Repeats(i, k) ==
  LET j == JobNamed[wa[i].type] IN
  /\ i < k
  /\ wa[i].type \in DOMAIN JobNamed
  /\ wa[k].type = wa[i].type /\ wa[k].ref = wa[i].ref
  /\ \/ j.memory = "window" /\ WithinWindow(wa[i].at, wa[k].at)
     \/ j.memory = "day" /\ SameDay(wa[i].at, wa[k].at)

\* Nobody is told twice.  For the jobs that remember what they sent, two
\* messages about the same thing are a day apart, or on different days, unless
\* two runs of the job were under way at once, or the marker of a warning could
\* not be looked for: however the runs ended, whatever else failed, and whatever
\* the gateway said (automation.go:38, :125, jobs.go:148).
RemindedOnce ==
  \A i, k \in DOMAIN wa :
    Repeats(i, k) => wa[i].type \in overlap \/ wa[i].ref \in unmarked

\* The admins hear of a departure once a day, unless its marker could not be
\* written or looked for, or two runs of the job were under way at once
\* (automation.go:244-268).
WarnedOnce ==
  \A i, k \in DOMAIN mail :
    /\ i < k
    /\ mail[i].type = "QUOTA_WARNING"
    /\ mail[k] = [mail[i] EXCEPT !.at = mail[k].at]
    /\ mail[i].ref \notin unmarked
    /\ "QUOTA_WARNING" \notin overlap
    => ~SameDay(mail[i].at, mail[k].at)

\* The log does not lie: what is marked sent went out, what is marked failed
\* did not, unless an answer of the gateway got lost or told nothing, and what is
\* still pending is being sent or could not be recorded (fonnte.go:106-164).
StatusIsTrue ==
  \A i \in DOMAIN wa :
    /\ wa[i].status = "sent" => wa[i].copies > 0 \/ wa[i].type = "QUOTA_WARNING"
    /\ wa[i].status = "failed" /\ wa[i].copies > 0 => wa[i].blurred
    /\ wa[i].copies > 1 => wa[i].blurred
    /\ wa[i].status = "pending" => wa[i].cut \/ \E t \in Thread : Sending(t, i)

\* The bot does not answer itself at once: an echo of a reply that is in the log
\* passes for a customer's message only when a newer one is in the log, or the
\* log cannot be read (chatbot_handler.go:262-287).
EchoNeedsNewerReply == ~misheard

\* Whoever is heard is answered, whatever the language model does: when no answer
\* is under way, a number that no consultant took, and of whose answers no crash
\* or failing statement took one, has a reply for each of its messages in the
\* log, and a message that carries it (chatbot.go:127-143).
EveryoneIsAnswered ==
  \A p \in Phone \ excused :
    (\A t \in Thread : ~(run[t].job = "chat" /\ run[t].phone = p)) =>
      /\ Cardinality(Replies(p)) * 2 = Len(chat[p])
      /\ Cardinality({i \in DOMAIN wa : wa[i].type = "CHATBOT_REPLY" /\ wa[i].phone = p})
           = Cardinality(Replies(p))

\* However edits interleave with each other and with a deletion, a departure
\* stays with its package and a deleted package stays deleted: what an edit read
\* before does not come back (package_repo.go:39, :255).
EditsBringNothingBack ==
  [][/\ \A b \in Batch : batch[b] # NoPackage => batch'[b].of = batch[b].of
     /\ \A p \in Package : package[p] # NoPackage /\ package[p].deleted
                             => package'[p].deleted]_vars
=============================================================================
