------------------------------ MODULE LogDelivery ------------------------------
(***************************************************************************)
(* What an event stream that is notified of transactions promises: it hands *)
(* over the events of all transactions it was told of, in ledger order,     *)
(* none twice and none left out, until it ends.                             *)
(***************************************************************************)
EXTENDS Naturals, Sequences

CONSTANT MaxEventsPerTx   \* events of the sub-account in one transaction

VARIABLES
  ledger,   \* per transaction, oldest first, how many events pertain to the sub-account
  heard,    \* the transactions the stream was told of
  sent,     \* events handed over: <<transaction, position>>
  ended

vars == <<ledger, heard, sent, ended>>

EventsOf(tx, n) == [k \in 1..n |-> <<tx, k>>]

(* The first transaction that still has events to hand over.                *)
ahead == {tx \in heard : ledger[tx] > 0 /\ \A i \in DOMAIN sent : sent[i][1] < tx}
due == {tx \in ahead : \A other \in ahead : tx <= other}

Init ==
  /\ ledger = <<>>
  /\ heard = {}
  /\ sent = <<>>
  /\ ended = FALSE

Land ==
  /\ \E n \in 0..MaxEventsPerTx : ledger' = Append(ledger, n)
  /\ UNCHANGED <<heard, sent, ended>>

(* The stream is told of a transaction beyond all that it knows.            *)
Hear ==
  /\ ~ended
  /\ \E tx \in 1..Len(ledger) : /\ \A other \in heard : other < tx
                                /\ heard' = heard \cup {tx}
  /\ UNCHANGED <<ledger, sent, ended>>

Deliver ==
  /\ ~ended
  /\ \E tx \in due : sent' = sent \o EventsOf(tx, ledger[tx])
  /\ UNCHANGED <<ledger, heard, ended>>

(* The stream may end at any time, possibly within a transaction.           *)
End ==
  /\ ~ended
  /\ ended' = TRUE
  /\ \/ UNCHANGED sent
     \/ \E tx \in due : \E k \in 0..(ledger[tx] - 1) : sent' = sent \o EventsOf(tx, k)
  /\ UNCHANGED <<ledger, heard>>

Next == Land \/ Hear \/ Deliver \/ End

Spec == Init /\ [][Next]_vars
================================================================================
