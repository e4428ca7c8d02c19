-------------------------- MODULE PolledEventStream --------------------------
(***************************************************************************)
(* PolledEventStream::stream_fn of event_subscriber.rs: it polls the        *)
(* signatures newer than the last one it processed, fetches their           *)
(* transactions and sends their events into a bounded channel.              *)
(*                                                                         *)
(* A transaction is its position in the ledger and the number of its        *)
(* events that pertain to the sub-account; 0 stands for every way of having *)
(* none (failed, no meta, not a Drift transaction, other accounts).  The    *)
(* RPC node (an EventRpcProvider, external) answers from any prefix of the  *)
(* ledger it has seen, newest first, or fails.                              *)
(***************************************************************************)
EXTENDS TxSignatureCache, Integers

CONSTANTS
  MaxEventsPerTx,  \* bound: events of the sub-account in one transaction
  MaxTx,           \* bound: transactions in the ledger
  CacheCapacity,   \* 128 in polled_stream
  ChannelCapacity  \* 64 in polled_stream

ASSUME PolledAssumption ==
  /\ MaxEventsPerTx \in Nat
  /\ MaxTx \in Nat
  /\ CacheCapacity \in Nat \ {0}
  /\ ChannelCapacity \in Nat \ {0}

VARIABLES
  ledger,        \* the transactions of the sub-account, oldest first
  pc,            \* "start", "poll", "process" or "dead" (panicked or aborted)
  last_seen_tx,  \* position of the last transaction processed, 0 for None
  futs,          \* the transactions of the batch still to be processed
  cache,
  queued,        \* events in the channel
  sent           \* history: the events sent into the channel

vars == <<ledger, pc, last_seen_tx, futs, cache, queued, sent>>

Abs == INSTANCE EventDelivery WITH
  upto <- last_seen_tx,
  phase <- IF pc = "start" THEN "starting" ELSE IF pc = "dead" THEN "ended" ELSE "running"

-----------------------------------------------------------------------------
Init ==
  /\ ledger = <<>>
  /\ pc = "start"
  /\ last_seen_tx = 0
  /\ futs = <<>>
  /\ cache = new_cache
  /\ queued = 0
  /\ sent = <<>>

\* A transaction of the sub-account lands.
Land ==
  /\ Len(ledger) < MaxTx
  /\ \E n \in 0..MaxEventsPerTx : ledger' = Append(ledger, n)
  /\ UNCHANGED <<pc, last_seen_tx, futs, cache, queued, sent>>

\* get_tx_signatures(after), external: what a node that has seen `tip'
\* transactions returns, newest first.  A node behind `after' returns nothing,
\* and no batch reaches the limit of the RPC, so no batch repeats a transaction.
get_tx_signatures(after, tip) ==
  [k \in 1..(IF tip > after THEN tip - after ELSE 0) |-> tip + 1 - k]

\* The batch in chronological order (.rev()).
oldest_first(signatures) ==
  [k \in 1..Len(signatures) |-> signatures[Len(signatures) + 1 - k]]

-----------------------------------------------------------------------------
\* The newest transaction at the start; a failed call panics.
FetchInitial ==
  /\ pc = "start"
  /\ \E tip \in 0..Len(ledger) :
       /\ last_seen_tx' = tip
       /\ pc' = "poll"
  /\ UNCHANGED <<ledger, futs, cache, queued, sent>>

FetchInitialFails ==
  /\ pc = "start"
  /\ pc' = "dead"
  /\ UNCHANGED <<ledger, last_seen_tx, futs, cache, queued, sent>>

\* Mutant: a batch of one signature is taken for the last one seen again.
PollSkipsSingle ==
  /\ pc = "poll"
  /\ \E tip \in (last_seen_tx + 2)..Len(ledger) :
       futs' = oldest_first(get_tx_signatures(last_seen_tx, tip))
  /\ pc' = "process"
  /\ UNCHANGED <<ledger, last_seen_tx, cache, queued, sent>>

\* A poll that fails, or returns nothing, leaves everything as it is.
Poll ==
  /\ pc = "poll"
  /\ \E tip \in (last_seen_tx + 1)..Len(ledger) :
       futs' = oldest_first(get_tx_signatures(last_seen_tx, tip))
  /\ pc' = "process"
  /\ UNCHANGED <<ledger, last_seen_tx, cache, queued, sent>>

\* Mutant: last_seen_tx is moved before the response is looked at.
GetTxFailsSeen ==
  /\ pc = "process"
  /\ last_seen_tx' = Head(futs)
  /\ futs' = <<>>
  /\ pc' = "poll"
  /\ UNCHANGED <<ledger, cache, queued, sent>>

\* get_tx failed: the rest of the batch is polled again.
GetTxFails ==
  /\ pc = "process"
  /\ futs' = <<>>
  /\ pc' = "poll"
  /\ UNCHANGED <<ledger, last_seen_tx, cache, queued, sent>>

\* Mutant: an unbounded channel.
room_for_all(n) == n

\* Events of a transaction that try_send accepts before it finds the channel full.
room_for(n) == IF n <= ChannelCapacity - queued THEN n ELSE ChannelCapacity - queued

\* A fetched transaction: seen, skipped if cached, otherwise cached and its
\* events sent; try_send on a full channel panics the task.
ProcessTx ==
  /\ pc = "process"
  /\ LET tx == Head(futs)
         cached == contains(cache, tx)
         n == IF cached THEN 0 ELSE ledger[tx]
         k == room_for(n)
     IN /\ last_seen_tx' = tx
        /\ cache' = IF cached THEN cache ELSE insert(cache, tx, CacheCapacity)
        /\ sent' = sent \o Abs!EventsOf(tx, k)
        /\ queued' = queued + k
        /\ futs' = IF k < n THEN <<>> ELSE Tail(futs)
        /\ pc' = IF k < n THEN "dead" ELSE IF Len(futs) = 1 THEN "poll" ELSE "process"
  /\ UNCHANGED ledger

\* The subscriber takes an event.
Receive ==
  /\ queued > 0
  /\ queued' = queued - 1
  /\ UNCHANGED <<ledger, pc, last_seen_tx, futs, cache, sent>>

\* unsubscribe() or dropping the stream aborts the task.
Unsubscribe ==
  /\ pc # "dead"
  /\ pc' = "dead"
  /\ futs' = <<>>
  /\ UNCHANGED <<ledger, last_seen_tx, cache, queued, sent>>

Next ==
  \/ Land
  \/ FetchInitial
  \/ FetchInitialFails
  \/ Poll
  \/ GetTxFails
  \/ ProcessTx
  \/ Receive
  \/ Unsubscribe

(* The task is polled by the runtime, a poll reaches every landed            *)
(* transaction again and again, get_tx does not fail for ever.               *)
Fairness ==
  /\ WF_vars(FetchInitial \/ FetchInitialFails)
  /\ WF_vars(Poll)
  /\ SF_vars(ProcessTx)

Spec == Init /\ [][Next]_vars

FairSpec == Spec /\ Fairness

-----------------------------------------------------------------------------
TypeOK ==
  /\ ledger \in Seq(0..MaxEventsPerTx)
  /\ pc \in {"start", "poll", "process", "dead"}
  /\ last_seen_tx \in 0..Len(ledger)
  /\ futs \in Seq(1..Len(ledger))
  /\ cache.entries \subseteq 1..Len(ledger)
  /\ cache.age \in Seq(1..Len(ledger))
  /\ queued \in 0..ChannelCapacity
  /\ sent \in Seq((1..Len(ledger)) \X (1..MaxEventsPerTx))

(* The polled stream delivers: after the transaction it started behind, all  *)
(* events of every transaction, in ledger order, none twice and none lost,   *)
(* through failed polls, failed get_tx calls and retried batches             *)
(* (event_subscriber.rs:318-346).                                            *)
Delivers == Abs!Spec

(* While the task lives, every transaction that has landed is taken in the   *)
(* end: a failed get_tx never wedges the stream.                             *)
EveryTxTaken ==
  \A i \in 1..MaxTx : (pc # "dead" /\ Len(ledger) >= i) ~> (pc = "dead" \/ last_seen_tx >= i)

(* The cache stays one below its capacity and evicts in the order it was     *)
(* filled: it is exactly the last transactions this task has taken.          *)
CacheIsRecent ==
  /\ Len(cache.age) <= CacheCapacity - 1
  /\ cache.entries = (last_seen_tx - Len(cache.age) + 1)..last_seen_tx
  /\ \A k \in 1..Len(cache.age) : cache.age[k] = last_seen_tx - Len(cache.age) + k
=============================================================================
