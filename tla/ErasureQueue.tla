---------------------------- MODULE ErasureQueue ----------------------------
(***************************************************************************)
(* What the privacy queue promises, without handlers, transactions or      *)
(* documents: a participant has at most one open request, a request is     *)
(* decided once, and granting it and forgetting its participant are one    *)
(* step.                                                                   *)
(***************************************************************************)
CONSTANTS
  Person,     \* who may ask to be forgotten
  Deletion,   \* identifiers of requests
  NoRequest   \* an identifier that is not in use yet

VARIABLES
  request,    \* who asked, and what became of it
  forgotten   \* the participants whose data is gone

vars == <<request, forgotten>>

Waiting(p) == [who |-> p, status |-> "menunggu"]
Granted(p) == [who |-> p, status |-> "selesai"]
Refused(p) == [who |-> p, status |-> "ditolak"]

Init == request = [q \in Deletion |-> NoRequest] /\ forgotten = {}

Ask(q, p) ==
  /\ request[q] = NoRequest
  /\ \A o \in Deletion : request[o] # Waiting(p)
  /\ request' = [request EXCEPT ![q] = Waiting(p)]
  /\ UNCHANGED forgotten

Grant(q, p) ==
  /\ request[q] = Waiting(p)
  /\ request' = [request EXCEPT ![q] = Granted(p)]
  /\ forgotten' = forgotten \cup {p}

Refuse(q, p) ==
  /\ request[q] = Waiting(p)
  /\ request' = [request EXCEPT ![q] = Refused(p)]
  /\ UNCHANGED forgotten

Next ==
  \E q \in Deletion, p \in Person : Ask(q, p) \/ Grant(q, p) \/ Refuse(q, p)

Spec == Init /\ [][Next]_vars
=============================================================================
