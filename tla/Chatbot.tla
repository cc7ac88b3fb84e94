------------------------------ MODULE Chatbot ------------------------------
(***************************************************************************)
(* The bot that answers WhatsApp messages.  The gateway forwards all       *)
(* traffic of the number, the bot's own messages included, and nothing but *)
(* their text tells those apart: the webhook ignores a message that equals *)
(* the last reply in the log, and a guard cuts a conversation that is too  *)
(* fast for a human.  What the bot reads and logs on its way to an answer  *)
(* may fail; all but the history of the conversation it does without.      *)
(***************************************************************************)
EXTENDS Notifications

CONSTANTS
  Fallback,      \* the reply when the language model fails
  FloodLimit,    \* messages of a number that are let through in a minute
  Signed         \* whether the gateway signs what it sends

ASSUME FallbackAssumption == Fallback \in Answers
ASSUME FloodAssumption == FloodLimit \in Nat \ {0} /\ Signed \in BOOLEAN

VARIABLES
  chat,          \* chatbot_logs of each number
  flood,         \* the counters of the flood guard
  handled,       \* numbers a consultant is talking to
  excused,       \* history: numbers a consultant took, or whose answer failed
  misheard       \* history: a logged reply was let through with no newer one

chatVars == <<chat, flood, handled, excused, misheard>>

Entry == [role : {"user", "assistant"}, says : Answers \cup {Null}]

ChatTypeOK ==
  /\ \A p \in Phone : \A i \in DOMAIN chat[p] : chat[p][i] \in Entry
  /\ flood \in [Phone -> 0..FloodLimit + 1]
  /\ handled \subseteq excused
  /\ excused \subseteq Phone
  /\ misheard \in BOOLEAN

ChatInit ==
  /\ chat = [p \in Phone |-> <<>>]
  /\ flood = [p \in Phone |-> 0]
  /\ handled = {}
  /\ excused = {}
  /\ misheard = FALSE

-----------------------------------------------------------------------------
Log(p, role, says) == chat' = [chat EXCEPT ![p] = Append(@, [role |-> role, says |-> says])]

Replies(p) == {i \in DOMAIN chat[p] : chat[p][i].role = "assistant"}

EchoesOurLastReply_LastEntry(p, says) ==
  chat[p] # <<>> /\ chat[p][Len(chat[p])].says = says

\* The message equals the last entry of the log that is a reply.
EchoesOurLastReply(p, says) ==
  \E i \in Replies(p) : /\ \A j \in Replies(p) : j <= i
                        /\ chat[p][i].says = says

\* One more message of this number in its minute.
Count(p) == flood' = [flood EXCEPT ![p] = IF @ > FloodLimit THEN @ ELSE @ + 1]

Tripped(p) == flood[p] >= FloodLimit

\* A message that gets past the tests is answered by a goroutine of its own.
LetThrough(t, p, says) ==
  /\ Count(p)
  /\ IF Tripped(p)
     THEN UNCHANGED run
     ELSE /\ RunAt(t, "idle") /\ OfServer(t)
          /\ run' = [run EXCEPT ![t] = [Asleep EXCEPT !.pc = "hear", !.job = "chat",
                                          !.phone = p, !.says = says]]

\* What customers write is never word for word what the bot said.
HandleFonnteWebhook(t, p) ==
  /\ LetThrough(t, p, Null)
  /\ UNCHANGED <<wa, chat, handled, excused, misheard>>

\* A copy of message i comes back as if its recipient had written it.
EchoArrives(t, i) ==
  LET p == wa[i].phone IN
  /\ p # Null
  /\ wa[i].heard < wa[i].copies
  /\ wa' = [wa EXCEPT ![i].heard = @ + 1]
  /\ IF Signed \/ EchoesOurLastReply(p, wa[i].says)
     THEN UNCHANGED <<run, flood, misheard>>
     ELSE /\ LetThrough(t, p, wa[i].says)
          /\ misheard' = \/ misheard
                         \/ /\ wa[i].entry > 0 /\ ~Tripped(p)
                            /\ \A j \in Replies(p) : j <= wa[i].entry
  /\ UNCHANGED <<chat, handled, excused>>

\* The log cannot be read, and the copy passes for a customer's message.
EchoUnread(t, i) ==
  LET p == wa[i].phone IN
  /\ p # Null /\ ~Signed
  /\ wa[i].heard < wa[i].copies
  /\ wa' = [wa EXCEPT ![i].heard = @ + 1]
  /\ LetThrough(t, p, wa[i].says)
  /\ UNCHANGED <<chat, handled, excused, misheard>>

\* The guard's minute is over.
NewMinute(p) ==
  /\ flood[p] > 0
  /\ flood' = [flood EXCEPT ![p] = 0]
  /\ UNCHANGED <<wa, run, chat, handled, excused, misheard>>

-----------------------------------------------------------------------------
LogMessage(t) ==
  /\ RunAt(t, "hear")
  /\ Log(run[t].phone, "user", run[t].says)
  /\ Go(t, "look")
  /\ UNCHANGED <<wa, flood, handled, excused, misheard>>

\* A number a consultant is talking to is left to the consultant.
StayOut(t) ==
  /\ RunAt(t, "look")
  /\ IF run[t].phone \in handled THEN Rest(t) ELSE Go(t, "think")
  /\ UNCHANGED <<wa, chat, flood, handled, excused, misheard>>

\* What the model answers in two attempts; it may also fail.
GeminiAnswers == Answers \ {Fallback}

GenerateReply_OrNone(t) ==
  /\ RunAt(t, "think")
  /\ \/ \E a \in GeminiAnswers :
          /\ Log(run[t].phone, "assistant", a)
          /\ run' = [run EXCEPT ![t].pc = "send", ![t].says = a,
                                ![t].entry = Len(chat[run[t].phone]) + 1]
     \/ Rest(t) /\ UNCHANGED chat
  /\ UNCHANGED <<wa, flood, handled, excused, misheard>>

\* The language model answers or fails; either way there is a reply, and it is
\* in the log before it is sent.
GenerateReply(t) ==
  /\ RunAt(t, "think")
  /\ \E a \in GeminiAnswers \cup {Fallback} :
       /\ Log(run[t].phone, "assistant", a)
       /\ run' = [run EXCEPT ![t].pc = "send", ![t].says = a,
                             ![t].entry = Len(chat[run[t].phone]) + 1]
  /\ UNCHANGED <<wa, flood, handled, excused, misheard>>

SendReply(t) ==
  /\ run[t].job = "chat"
  /\ \/ Send(t, "CHATBOT_REPLY")
     \/ RunAt(t, "after") /\ Rest(t) /\ UNCHANGED wa
  /\ UNCHANGED chatVars

\* The answer to this number may stay out.
Excuse(t) == excused' = excused \cup {run[t].phone}

\* A statement on the way fails.  A message that is not logged is answered from
\* the rest of the conversation, a number nobody can look up is nobody's, a reply
\* that is not logged is sent; but without the conversation there is no reply,
\* and a message without its row is not sent.
Fails(t) ==
  /\ run[t].job = "chat"
  /\ \/ RunAt(t, "hear") /\ Go(t, "look") /\ Excuse(t)
     \/ RunAt(t, "look") /\ Go(t, "think") /\ UNCHANGED excused
     \/ /\ RunAt(t, "think")
        /\ Excuse(t)
        /\ \/ Rest(t)
           \/ \E a \in GeminiAnswers \cup {Fallback} :
                run' = [run EXCEPT ![t].pc = "send", ![t].says = a]
     \/ SendFails(t) /\ Excuse(t)
  /\ UNCHANGED <<wa, chat, flood, handled, misheard>>

\* A lead of this number moves into, or out of, a consultant's hands.
TakeOver(p) ==
  /\ p \notin handled
  /\ handled' = handled \cup {p}
  /\ excused' = excused \cup {p}
  /\ UNCHANGED <<wa, run, chat, flood, misheard>>

HandBack(p) ==
  /\ p \in handled
  /\ handled' = handled \ {p}
  /\ UNCHANGED <<wa, run, chat, flood, excused, misheard>>
=============================================================================
