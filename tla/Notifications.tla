--------------------------- MODULE Notifications ---------------------------
(***************************************************************************)
(* WhatsApp messages: a row in wa_notifications, up to three attempts at   *)
(* the gateway, and the status they end with.                              *)
(*                                                                         *)
(* Everything that sends does so from a goroutine of its own: a scheduled  *)
(* job, a job run by hand, the answer to a chat message.  Any statement of *)
(* one may fail.  A goroutine may have a limited time; when that is over,  *)
(* every statement it still makes fails, the one that would have recorded  *)
(* the failure as well.                                                    *)
(***************************************************************************)
EXTENDS Naturals, Sequences, FiniteSets

CONSTANTS
  Thread,        \* goroutines that can be in flight
  ByHand,        \* those of commands, one each; the others are the server's
  Ref,           \* rows of other tables a message may be about
  Phone,         \* numbers of customers
  Answers,       \* what the language model may answer in this instance
  LastTick,      \* bound on the half days that pass
  Null

TicksPerDay == 2

MaxAttempts == 3

\* The types of messages the modelled senders log.
Types == {"LEADS_STALE", "PAYMENT_REMINDER", "PAYMENT_OVERDUE", "QUOTA_WARNING",
          "REMINDER", "REMINDER_H14", "DEPARTURE_CONFIRM", "CHATBOT_REPLY"}

ASSUME ThreadAssumption == ByHand \subseteq Thread
ASSUME TickAssumption == LastTick \in Nat
ASSUME NumberAssumption == Null \notin Phone \cup Ref \cup Answers \cup Types \cup {"chat"}

VARIABLES
  wa,            \* wa_notifications, in the order of insertion
  run,           \* the goroutines in flight
  now            \* the time, in half days

Outbox == <<wa, run, now>>

\* A row, with what became of its message: how many copies the recipient got
\* and how many of them came back through the webhook, whether an answer of the
\* gateway was lost or told nothing, and whether what became of it could not be
\* written: the goroutine died, its time was over or the statement failed.
Row == [type : Types, ref : Ref \cup {Null}, phone : Phone \cup {Null},
        says : Answers \cup {Null}, entry : Nat, at : 0..LastTick,
        status : {"pending", "sent", "failed"}, copies : 0..MaxAttempts,
        heard : 0..MaxAttempts, blurred : BOOLEAN, cut : BOOLEAN]

\* Where a goroutine is, the job it does, what of its list is left, what it is
\* at, the row it sends, and whether its time is over.
Asleep == [pc |-> "idle", job |-> Null, left |-> {}, on |-> Null, phone |-> Null,
           says |-> Null, entry |-> 0, row |-> 0, attempt |-> 0,
           to |-> "pending", late |-> FALSE]

RunAt(t, s) == run[t].pc = s

Go(t, s) == run' = [run EXCEPT ![t].pc = s]

Rest(t) == run' = [run EXCEPT ![t] = Asleep]

OfServer(t) == t \notin ByHand

\* A goroutine is sending row i.
Sending(t, i) == run[t].row = i /\ run[t].pc \in {"post", "wait", "keep"}

-----------------------------------------------------------------------------
Create(t, type, status) ==
  wa' = Append(wa, [type |-> type, ref |-> run[t].on, phone |-> run[t].phone,
                    says |-> run[t].says, entry |-> run[t].entry, at |-> now,
                    status |-> status, copies |-> 0, heard |-> 0,
                    blurred |-> FALSE, cut |-> FALSE])

\* The row comes first.
Send(t, type) ==
  /\ RunAt(t, "send")
  /\ ~run[t].late
  /\ Create(t, type, "pending")
  /\ run' = [run EXCEPT ![t].pc = "post", ![t].row = Len(wa) + 1, ![t].attempt = 1]

\* When the row cannot be written nothing is sent.
SendFails(t) ==
  /\ RunAt(t, "send")
  /\ Go(t, "after")
  /\ UNCHANGED wa

\* The gateway takes the message, or refuses it: both are final.
Answered(t) ==
  /\ RunAt(t, "post")
  /\ ~run[t].late
  /\ \/ /\ wa' = [wa EXCEPT ![run[t].row].copies = @ + 1]
        /\ run' = [run EXCEPT ![t].pc = "keep", ![t].to = "sent"]
     \/ /\ UNCHANGED wa
        /\ run' = [run EXCEPT ![t].pc = "keep", ![t].to = "failed"]

Unanswered_GivesUpSilently(t) ==
  /\ RunAt(t, "post")
  /\ ~run[t].late
  /\ \E c \in {0, 1} :
       wa' = [wa EXCEPT ![run[t].row].copies = @ + c, ![run[t].row].blurred = TRUE]
  /\ Go(t, IF run[t].attempt < MaxAttempts THEN "wait" ELSE "after")

\* No answer, or an answer that says the gateway is ill: the message may have
\* gone out all the same.  It is tried again until the attempts are used up.
Unanswered(t) ==
  /\ RunAt(t, "post")
  /\ ~run[t].late
  /\ \E c \in {0, 1} :
       wa' = [wa EXCEPT ![run[t].row].copies = @ + c, ![run[t].row].blurred = TRUE]
  /\ run' = IF run[t].attempt < MaxAttempts
            THEN [run EXCEPT ![t].pc = "wait"]
            ELSE [run EXCEPT ![t].pc = "keep", ![t].to = "failed"]

\* An answer that does not decode, from a gateway that is not ill, counts as a
\* refusal at once, though the message may have gone out.
Garbled(t) ==
  /\ RunAt(t, "post")
  /\ ~run[t].late
  /\ \E c \in {0, 1} :
       wa' = [wa EXCEPT ![run[t].row].copies = @ + c, ![run[t].row].blurred = TRUE]
  /\ run' = [run EXCEPT ![t].pc = "keep", ![t].to = "failed"]

Retry(t) ==
  /\ RunAt(t, "wait")
  /\ ~run[t].late
  /\ run' = [run EXCEPT ![t].pc = "post", ![t].attempt = @ + 1]
  /\ UNCHANGED wa

UpdateStatus_AlwaysSent(t) ==
  /\ RunAt(t, "keep")
  /\ ~run[t].late
  /\ wa' = [wa EXCEPT ![run[t].row].status = "sent"]
  /\ Go(t, "after")

UpdateStatus(t) ==
  /\ RunAt(t, "keep")
  /\ ~run[t].late
  /\ wa' = [wa EXCEPT ![run[t].row].status = run[t].to]
  /\ Go(t, "after")

\* The status is not written, and nobody is told: the statement fails, or the time
\* is over, in whatever state the attempts are.
GiveUp(t) ==
  /\ run[t].pc \in IF run[t].late THEN {"post", "wait", "keep"} ELSE {"keep"}
  /\ wa' = [wa EXCEPT ![run[t].row].cut = TRUE]
  /\ Go(t, "after")
=============================================================================
