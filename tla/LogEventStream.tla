---------------------------- MODULE LogEventStream ----------------------------
(***************************************************************************)
(* LogEventStream of event_subscriber.rs, the Ws-backed event stream, under *)
(* spawn_retry_task of async_utils.rs: subscribe to the logs of a           *)
(* sub-account, send the events of every notified transaction, return when  *)
(* the subscription fails or ends, and be run again as the retry policy     *)
(* says.                                                                    *)
(*                                                                         *)
(* External: the ledger, the node and the PubsubClient.  The node notifies  *)
(* transactions in ledger order and may repeat one of the last              *)
(* RepeatWindow it notified; what lands while nobody is subscribed may not  *)
(* be notified at all.  A PubsubClient is one connection: once closed, it   *)
(* ends its streams and refuses every subscription.                         *)
(***************************************************************************)
EXTENDS TxSignatureCache

CONSTANTS
  MaxEventsPerTx,   \* bound: events of the sub-account in one transaction
  MaxTx,            \* bound: transactions in the ledger
  MaxNotified,      \* bound: notifications waiting in log_stream
  RepeatWindow,     \* how far back the node repeats a notification
  CacheCapacity,    \* 256 in log_stream
  ChannelCapacity,  \* 64 in log_stream
  MaxAttempts       \* max_attempts of the exponential_backoff policy

ASSUME LogAssumption ==
  /\ {MaxEventsPerTx, MaxTx, MaxNotified, RepeatWindow, MaxAttempts} \subseteq Nat
  /\ {CacheCapacity, ChannelCapacity} \subseteq Nat \ {0}

\* The cache outlasts what the node repeats.
ASSUME WindowAssumption == RepeatWindow < CacheCapacity

\* A transaction that failed has no events.
Transaction ==
  [err: {FALSE}, events: 0..MaxEventsPerTx] \cup {[err |-> TRUE, events |-> 0]}
Policy == {"never", "exponential_backoff", "forever"}
Ended == {"limit", "panicked", "aborted"}

VARIABLES
  ledger,         \* transactions, oldest first: did it fail, how many events
  notified,       \* transactions the node has dealt with
  heard,          \* history: the transactions it notified
  log_stream,     \* notifications of the subscription not processed yet
  open,           \* is the connection of the closure's `provider' open?
  pc,             \* "run", "streaming", "check", or how the task ended
  self_provider,  \* which client the running LogEventStream holds
  retry_policy,
  attempts,
  cache,          \* one cache, shared by all runs of stream_fn
  queued,         \* events in the channel
  sent            \* history: the events sent into the channel

node_vars == <<ledger, notified, heard, log_stream>>
retry_vars == <<retry_policy, attempts>>
event_vars == <<cache, queued, sent>>
vars == <<ledger, notified, heard, log_stream, open, pc, self_provider,
          retry_policy, attempts, cache, queued, sent>>

Abs == INSTANCE LogDelivery WITH
  ledger <- [i \in 1..Len(ledger) |-> ledger[i].events],
  ended <- pc \in Ended

-----------------------------------------------------------------------------
\* Does the client that the running LogEventStream holds have a connection?
connected == open \/ self_provider = "new"

Init ==
  /\ ledger = <<>>
  /\ notified = 0
  /\ heard = {}
  /\ log_stream = <<>>
  /\ open = TRUE
  /\ pc = "run"
  /\ self_provider = "shared"
  /\ retry_policy \in Policy
  /\ attempts = 0
  /\ cache = new_cache
  /\ queued = 0
  /\ sent = <<>>

Land ==
  /\ Len(ledger) < MaxTx
  /\ \E tx \in Transaction : ledger' = Append(ledger, tx)
  /\ UNCHANGED <<notified, heard, log_stream, open, pc, self_provider, retry_vars, event_vars>>

\* A notification of the next transaction, or of a recent one again.
Notify ==
  /\ pc = "streaming"
  /\ connected
  /\ Len(log_stream) < MaxNotified
  /\ \E tx \in heard \cup {notified + 1} :
       /\ tx <= Len(ledger)
       /\ tx + RepeatWindow > notified
       /\ log_stream' = Append(log_stream, tx)
       /\ heard' = heard \cup {tx}
       /\ notified' = IF tx > notified THEN tx ELSE notified
  /\ UNCHANGED <<ledger, open, pc, self_provider, retry_vars, event_vars>>

ConnectionCloses ==
  /\ open
  /\ open' = FALSE
  /\ UNCHANGED <<node_vars, pc, self_provider, retry_vars, event_vars>>

-----------------------------------------------------------------------------
(* stream_fn.                                                               *)

\* logs_subscribe succeeds.
Subscribe ==
  /\ pc = "run"
  /\ connected
  /\ pc' = "streaming"
  /\ notified' \in notified..Len(ledger)
  /\ UNCHANGED <<ledger, heard, log_stream, open, self_provider, retry_vars, event_vars>>

\* logs_subscribe fails for another reason than a closed connection.
SubscribeFails ==
  /\ pc = "run"
  /\ connected
  /\ pc' = "check"
  /\ UNCHANGED <<node_vars, open, self_provider, retry_vars, event_vars>>

\* ConnectionClosed: a new client, if one can be had, goes into self.provider;
\* stream_fn returns and self is dropped.
Reconnect ==
  /\ pc = "run"
  /\ ~connected
  /\ pc' = "check"
  /\ self_provider' \in {"shared", "new"}
  /\ UNCHANGED <<node_vars, open, retry_vars, event_vars>>

\* Mutant: an unbounded channel.
room_for_all(n) == n

\* Events of a transaction that try_send accepts before it finds the channel full.
room_for(n) == IF n <= ChannelCapacity - queued THEN n ELSE ChannelCapacity - queued

EventsOf(tx, n) == [k \in 1..n |-> <<tx, k>>]

\* Mutant: events that find the channel full are dropped.
process_log_drops ==
  LET tx == Head(log_stream)
      skip == ledger[tx].err \/ contains(cache, tx)
      k == room_for(IF skip THEN 0 ELSE ledger[tx].events)
  IN /\ cache' = IF skip THEN cache ELSE insert(cache, tx, CacheCapacity)
     /\ sent' = sent \o EventsOf(tx, k)
     /\ queued' = queued + k
     /\ log_stream' = Tail(log_stream)
     /\ UNCHANGED pc

\* process_log on the next notification.
process_log ==
  LET tx == Head(log_stream)
      skip == ledger[tx].err \/ contains(cache, tx)
      n == IF skip THEN 0 ELSE ledger[tx].events
      k == room_for(n)
  IN /\ cache' = IF skip THEN cache ELSE insert(cache, tx, CacheCapacity)
     /\ sent' = sent \o EventsOf(tx, k)
     /\ queued' = queued + k
     /\ log_stream' = IF k < n THEN <<>> ELSE Tail(log_stream)
     /\ pc' = IF k < n THEN "panicked" ELSE "streaming"

ProcessLog ==
  /\ pc = "streaming"
  /\ log_stream # <<>>
  /\ process_log
  /\ UNCHANGED <<ledger, notified, heard, open, self_provider, retry_vars>>

\* A stream that ended, of itself or with its connection, is first drained.
StreamEnds ==
  /\ pc = "streaming"
  /\ log_stream = <<>>
  /\ pc' = "check"
  /\ UNCHANGED <<node_vars, open, self_provider, retry_vars, event_vars>>

-----------------------------------------------------------------------------
(* spawn_retry_task.  attempts counts the runs of the task's whole life; it  *)
(* is only ever compared with max_attempts, so it stops one above.           *)

\* Mutant: the forever policy is limited too.
check_limited(policy, n) == policy # "never" /\ n <= MaxAttempts

check(policy, n) ==
  \/ policy = "forever"
  \/ policy = "exponential_backoff" /\ n <= MaxAttempts

\* Mutant: a cache of its own for every run.
RetryForgets ==
  /\ pc = "check"
  /\ check(retry_policy, attempts)
  /\ pc' = "run"
  /\ attempts' = IF attempts > MaxAttempts THEN attempts ELSE attempts + 1
  /\ self_provider' = "shared"
  /\ cache' = new_cache
  /\ UNCHANGED <<node_vars, open, retry_policy, queued, sent>>

\* Mutant: attempts does not move.
RetryUncounted ==
  /\ pc = "check"
  /\ check(retry_policy, attempts)
  /\ pc' = "run"
  /\ self_provider' = "shared"
  /\ UNCHANGED <<node_vars, open, retry_vars, event_vars>>

\* The next task_fn(): a LogEventStream with the closure's provider and cache.
Retry ==
  /\ pc = "check"
  /\ check(retry_policy, attempts)
  /\ pc' = "run"
  /\ attempts' = IF attempts > MaxAttempts THEN attempts ELSE attempts + 1
  /\ self_provider' = "shared"
  /\ UNCHANGED <<node_vars, open, retry_policy, event_vars>>

RetryLimit ==
  /\ pc = "check"
  /\ ~check(retry_policy, attempts)
  /\ pc' = "limit"
  /\ UNCHANGED <<node_vars, open, self_provider, retry_vars, event_vars>>

-----------------------------------------------------------------------------
Receive ==
  /\ queued > 0
  /\ queued' = queued - 1
  /\ UNCHANGED <<node_vars, open, pc, self_provider, retry_vars, cache, sent>>

\* unsubscribe() or dropping the DriftEventStream aborts the task.
Unsubscribe ==
  /\ pc \notin Ended
  /\ pc' = "aborted"
  /\ log_stream' = <<>>
  /\ UNCHANGED <<ledger, notified, heard, open, self_provider, retry_vars, event_vars>>

Next ==
  \/ Land
  \/ Notify
  \/ ConnectionCloses
  \/ Subscribe
  \/ SubscribeFails
  \/ Reconnect
  \/ ProcessLog
  \/ StreamEnds
  \/ Retry
  \/ RetryLimit
  \/ Receive
  \/ Unsubscribe

(* The runtime polls the task; the delays of the policies are finite; a      *)
(* subscription on an open connection does not fail for ever; a closed       *)
(* connection ends its stream; a new client can be had in the end.           *)
Fairness ==
  /\ SF_vars(Subscribe)
  /\ WF_vars(ProcessLog)
  /\ WF_vars(~connected /\ StreamEnds)
  /\ SF_vars(Reconnect /\ self_provider' = "new")
  /\ WF_vars(Reconnect)
  /\ WF_vars(Retry \/ RetryLimit)

Spec == Init /\ [][Next]_vars

FairSpec == Spec /\ Fairness

-----------------------------------------------------------------------------
TypeOK ==
  /\ ledger \in Seq(Transaction)
  /\ notified \in 0..Len(ledger)
  /\ heard \subseteq 1..notified
  /\ log_stream \in Seq(heard)
  /\ open \in BOOLEAN
  /\ pc \in {"run", "streaming", "check"} \cup Ended
  /\ self_provider \in {"shared", "new"}
  /\ retry_policy \in Policy
  /\ attempts \in 0..(MaxAttempts + 1)
  /\ cache.entries \subseteq heard
  /\ cache.age \in Seq(heard)
  /\ queued \in 0..ChannelCapacity
  /\ sent \in Seq(heard \X (1..MaxEventsPerTx))

(* Events reach the subscriber in ledger order and none twice, through       *)
(* repeated notifications and through every run of the retried task: the     *)
(* cache belongs to the closure of log_stream, not to one run of it.         *)
SentInOrder ==
  \A i, j \in 1..Len(sent) : i < j =>
    \/ sent[i][1] < sent[j][1]
    \/ sent[i][1] = sent[j][1] /\ sent[i][2] < sent[j][2]

(* process_log caches a signature before it sends the events: a cached       *)
(* transaction, never looked at again, has had all its events sent, unless   *)
(* the full channel ended the whole task within it.                          *)
CachedMeansSent ==
  pc # "panicked" =>
    \A tx \in cache.entries :
      {k \in 1..MaxEventsPerTx : \E i \in 1..Len(sent) : sent[i] = <<tx, k>>}
        = 1..ledger[tx].events

(* The log stream delivers: the events of every transaction it is notified   *)
(* of, in ledger order, none twice and none left out, through repeated       *)
(* notifications and runs of the task that end; a full channel is the end of *)
(* the stream, not a gap in it (event_subscriber.rs:194-219).                *)
DeliversNotified == Abs!Spec

(* While the connection is up, a forever policy resumes a subscription that  *)
(* failed or ended (async_utils.rs:97-109).                                  *)
Resumes ==
  (open /\ retry_policy = "forever" /\ pc \in {"run", "check"})
    ~> (pc \in {"streaming", "aborted"} \/ ~open)

(* A limited policy gives up on a closed connection in the end, so that the  *)
(* subscriber sees the stream end instead of waiting for ever.               *)
LimitedPolicyEnds ==
  (~open /\ retry_policy # "forever") ~> pc \in Ended

(* "The underlying stream will reconnect according to the given              *)
(* retry_policy" (event_subscriber.rs:120): with the forever policy and      *)
(* clients to be had, a closed connection is followed by a subscription on   *)
(* one that works.                                                           *)
Reconnects ==
  (~open /\ retry_policy = "forever" /\ pc \notin Ended)
    ~> (pc \in Ended \/ (pc = "streaming" /\ connected))
===============================================================================
