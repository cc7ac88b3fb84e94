--------------------------- MODULE GatewayLedger ---------------------------
(***************************************************************************)
(* What the payment gateway integration promises, without handlers,        *)
(* deliveries or sessions: money the gateway receives is posted to at most *)
(* one entry of the books, only after it was received, and a posted entry  *)
(* keeps naming the transaction it stands for.                             *)
(***************************************************************************)
CONSTANTS
  Txn,      \* the transactions of the gateway
  Entry,    \* the entries of the books
  Null      \* not a transaction

VARIABLES
  received,   \* the transactions whose money the gateway holds
  ledger      \* the transaction each entry stands for, Null for the others

vars == <<received, ledger>>

TypeOK ==
  /\ received \subseteq Txn
  /\ ledger \in [Entry -> Txn \cup {Null}]

Init == received = {} /\ ledger = [e \in Entry |-> Null]

Receive(t) ==
  /\ received' = received \cup {t}
  /\ UNCHANGED ledger

Post(e, t) ==
  /\ t \in received
  /\ ledger[e] = Null
  /\ \A f \in Entry : ledger[f] # t
  /\ ledger' = [ledger EXCEPT ![e] = t]
  /\ UNCHANGED received

Next == \E t \in Txn : Receive(t) \/ \E e \in Entry : Post(e, t)

Spec == Init /\ [][Next]_vars
=============================================================================
