---------------------------- MODULE AccountCache ----------------------------
(***************************************************************************)
(* WsAccountProvider (lib.rs), for one account.  get_account answers from   *)
(* the cache; on a miss it fetches the account, puts a new watch channel    *)
(* into the cache and spawns a retry task that keeps the channel up to date *)
(* from a websocket stream and a poll.  Two misses at once make two         *)
(* channels; the later insert is the one that is read from then on.         *)
(*                                                                         *)
(* External: the chain and the node.  chain[s] is the account as of slot s: *)
(* its data, named by the slot that wrote it, and whether it exists; it     *)
(* begins with data 0.  The node may lag behind the chain, a stream may     *)
(* bring updates late, repeated or out of order.                            *)
(***************************************************************************)
EXTENDS Naturals, Sequences, FiniteSets

CONSTANTS
  Caller,    \* concurrent users of the provider
  MaxSlot    \* bound: slots of the chain

ASSUME CacheAssumption == MaxSlot \in Nat /\ IsFiniteSet(Caller)

VARIABLES
  chain,     \* the account as of each slot
  channels,  \* the watch channels made so far, each with its retry task
  cached,    \* the channel in account_cache, 0 for none
  pc,        \* where each caller is in get_account_impl
  fetched    \* the data it has fetched

vars == <<chain, channels, cached, pc, fetched>>
caller_vars == <<cached, pc, fetched>>

AsOf(s) == IF s = 0 THEN [data |-> 0, exists |-> TRUE] ELSE chain[s]
Latest == AsOf(Len(chain)).data

Channel == [data: 0..MaxSlot, slot: 0..MaxSlot,
            pc: {"connect", "select", "retry", "panicked"}]

Init ==
  /\ chain = <<>>
  /\ channels = <<>>
  /\ cached = 0
  /\ pc = [c \in Caller |-> "idle"]
  /\ fetched = [c \in Caller |-> 0]

\* Slots that write the account, close it, or do neither.
Slot ==
  /\ Len(chain) < MaxSlot
  /\ \/ \E exists \in BOOLEAN : chain' = Append(chain, [data |-> Len(chain) + 1, exists |-> exists])
     \/ chain' = Append(chain, AsOf(Len(chain)))
  /\ UNCHANGED <<channels, caller_vars>>

-----------------------------------------------------------------------------
(* get_account_impl.  A hit, and a fetch that fails, change nothing.         *)
Miss(c) ==
  /\ pc[c] = "idle"
  /\ cached = 0
  /\ pc' = [pc EXCEPT ![c] = "fetch"]
  /\ UNCHANGED <<chain, channels, cached, fetched>>

FetchFails(c) ==
  /\ pc[c] = "fetch"
  /\ pc' = [pc EXCEPT ![c] = "idle"]
  /\ UNCHANGED <<chain, channels, cached, fetched>>

Fetch(c) ==
  /\ pc[c] = "fetch"
  /\ \E s \in 0..Len(chain) :
       AsOf(s).exists /\ fetched' = [fetched EXCEPT ![c] = AsOf(s).data]
  /\ pc' = [pc EXCEPT ![c] = "insert"]
  /\ UNCHANGED <<chain, channels, cached>>

\* Mutant: the receiver is not put into the cache.
InsertUncached(c) ==
  /\ pc[c] = "insert"
  /\ channels' = Append(channels, [data |-> fetched[c], slot |-> 0, pc |-> "connect"])
  /\ cached' = IF Len(channels) = 0 THEN 0 ELSE 1
  /\ pc' = [pc EXCEPT ![c] = "idle"]
  /\ fetched' = [fetched EXCEPT ![c] = 0]
  /\ UNCHANGED chain

\* A new channel with slot 0, over the one in the cache; subscribe_account.
Insert(c) ==
  /\ pc[c] = "insert"
  /\ channels' = Append(channels, [data |-> fetched[c], slot |-> 0, pc |-> "connect"])
  /\ cached' = Len(channels) + 1
  /\ pc' = [pc EXCEPT ![c] = "idle"]
  /\ fetched' = [fetched EXCEPT ![c] = 0]
  /\ UNCHANGED chain

-----------------------------------------------------------------------------
(* The retry task of a channel: stream_fn over and over.                     *)
Connect(i) ==
  /\ channels[i].pc = "connect"
  /\ channels' = [channels EXCEPT ![i].pc = "select"]
  /\ UNCHANGED <<chain, caller_vars>>

\* PubsubClient::new or account_subscribe failed.
ConnectFails(i) ==
  /\ channels[i].pc = "connect"
  /\ channels' = [channels EXCEPT ![i].pc = "retry"]
  /\ UNCHANGED <<chain, caller_vars>>

\* send_if_modified.
Modified(ch, data, slot) ==
  IF slot > ch.slot THEN [ch EXCEPT !.data = data, !.slot = slot] ELSE ch

\* A node sends the encoding it was asked for, so that the update decodes.
StreamUpdate(i) ==
  /\ channels[i].pc = "select"
  /\ \E s \in DOMAIN chain :
       chain[s].data = s /\ channels' = [channels EXCEPT ![i] = Modified(@, s, s)]
  /\ UNCHANGED <<chain, caller_vars>>

\* Mutant: a closed stream is the end of the task.
StreamEndsForGood(i) ==
  /\ channels[i].pc = "select"
  /\ channels' = [channels EXCEPT ![i].pc = "panicked"]
  /\ UNCHANGED <<chain, caller_vars>>

StreamEnds(i) ==
  /\ channels[i].pc = "select"
  /\ channels' = [channels EXCEPT ![i].pc = "retry"]
  /\ UNCHANGED <<chain, caller_vars>>

\* Mutant: a polled value is always written.
PollAnyway(i, s) ==
  /\ channels[i].pc = "select"
  /\ AsOf(s).exists
  /\ channels' = [channels EXCEPT ![i].data = AsOf(s).data, ![i].slot = s]
  /\ UNCHANGED <<chain, caller_vars>>

\* The poll, answered by a node at slot s: an account that is gone has no
\* value to unwrap, if the answer is newer.
Poll(i, s) ==
  /\ channels[i].pc = "select"
  /\ channels' = [channels EXCEPT ![i] =
       IF s > @.slot /\ ~AsOf(s).exists THEN [@ EXCEPT !.pc = "panicked"]
                                        ELSE Modified(@, AsOf(s).data, s)]
  /\ UNCHANGED <<chain, caller_vars>>

\* retry_policy::forever(5).
Retry(i) ==
  /\ channels[i].pc = "retry"
  /\ channels' = [channels EXCEPT ![i].pc = "connect"]
  /\ UNCHANGED <<chain, caller_vars>>

Next ==
  \/ Slot
  \/ \E c \in Caller : Miss(c) \/ FetchFails(c) \/ Fetch(c) \/ Insert(c)
  \/ \E i \in DOMAIN channels :
       \/ Connect(i)
       \/ ConnectFails(i)
       \/ StreamUpdate(i)
       \/ StreamEnds(i)
       \/ \E s \in 0..Len(chain) : Poll(i, s)
       \/ Retry(i)

Spec == Init /\ [][Next]_vars

(* The delay of a retry ends; a connection that is tried again and again     *)
(* succeeds; one that is made again and again stays up for ten seconds, and  *)
(* the node it is made to has caught up with the chain.                      *)
CacheFairness ==
  \A i \in 1..Cardinality(Caller) :
    /\ WF_vars(i \in DOMAIN channels /\ Retry(i))
    /\ SF_vars(i \in DOMAIN channels /\ Connect(i))
    /\ SF_vars(i \in DOMAIN channels /\ Poll(i, Len(chain)))

-----------------------------------------------------------------------------
TypeOK ==
  /\ chain \in Seq([data: 0..MaxSlot, exists: BOOLEAN]) /\ Len(chain) <= MaxSlot
  /\ channels \in Seq(Channel)
  /\ cached \in 0..Len(channels)
  /\ pc \in [Caller -> {"idle", "fetch", "insert"}]
  /\ fetched \in [Caller -> 0..MaxSlot]

(* Misses that overlap make a channel and a task each, which nothing ends,   *)
(* but the first insert is the end of it: no more of them than callers.      *)
OneChannelPerCaller == Len(channels) <= Cardinality(Caller)

(* Once an update has come, the data of a channel never goes back to an      *)
(* older state of the account: streams and polls overtake each other, nodes  *)
(* lag and tasks reconnect, and the slot a poll is stored with need not be   *)
(* the slot that wrote its data (lib.rs:208-238).  The data of the first     *)
(* fetch, stored with slot 0, has no such protection.                        *)
ChannelNeverGoesBack ==
  [][\A i \in DOMAIN channels :
       channels[i].slot # 0 => channels'[i].data >= channels[i].data]_vars

(* While the account is not closed, the value that is read catches up with   *)
(* the chain, through lost streams and concurrent misses.                    *)
CacheCatchesUp ==
  [](\A s \in DOMAIN chain : chain[s].exists) =>
    <>[](cached # 0 => channels[cached].data = Latest)
===============================================================================
