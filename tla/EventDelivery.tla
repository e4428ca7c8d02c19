---------------------------- MODULE EventDelivery ----------------------------
(***************************************************************************)
(* What an event stream promises its subscriber: from the transaction it    *)
(* starts behind, it takes the transactions of the sub-account one by one   *)
(* in ledger order and hands over all their events, until it ends.          *)
(***************************************************************************)
EXTENDS Naturals, Sequences

CONSTANT MaxEventsPerTx   \* events of the sub-account in one transaction

VARIABLES
  ledger,   \* per transaction, oldest first, how many events pertain to the sub-account
  upto,     \* transactions taken so far
  sent,     \* events handed over: <<transaction, position>>
  phase     \* "starting", "running" or "ended"

vars == <<ledger, upto, sent, phase>>

EventsOf(tx, n) == [k \in 1..n |-> <<tx, k>>]

Init ==
  /\ ledger \in Seq(0..MaxEventsPerTx)
  /\ upto = 0
  /\ sent = <<>>
  /\ phase = "starting"

Land ==
  /\ \E n \in 0..MaxEventsPerTx : ledger' = Append(ledger, n)
  /\ UNCHANGED <<upto, sent, phase>>

(* The stream picks a transaction of the ledger to start behind.            *)
Start ==
  /\ phase = "starting"
  /\ phase' = "running"
  /\ upto' \in 0..Len(ledger)
  /\ UNCHANGED <<ledger, sent>>

Deliver ==
  /\ phase = "running"
  /\ upto < Len(ledger)
  /\ upto' = upto + 1
  /\ sent' = sent \o EventsOf(upto + 1, ledger[upto + 1])
  /\ UNCHANGED <<ledger, phase>>

(* The stream may end at any time, possibly within a transaction.           *)
End ==
  /\ phase # "ended"
  /\ phase' = "ended"
  /\ \/ UNCHANGED <<upto, sent>>
     \/ /\ phase = "running"
        /\ upto < Len(ledger)
        /\ upto' = upto + 1
        /\ \E k \in 0..ledger[upto + 1] : sent' = sent \o EventsOf(upto + 1, k)
  /\ UNCHANGED ledger

Next == Land \/ Start \/ Deliver \/ End

Spec == Init /\ [][Next]_vars
=============================================================================
