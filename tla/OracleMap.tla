------------------------------ MODULE OracleMap ------------------------------
(***************************************************************************)
(* The OracleMap of oraclemap.rs, and the Backend's price query for a       *)
(* market (lib.rs), which moves the map to a new oracle when the market     *)
(* account names one.                                                       *)
(*                                                                         *)
(* A subscriber is known here by its task: 0 for a subscriber that was      *)
(* stored without ever being subscribed.  subscribe() subscribes clones of  *)
(* the subscribers it stores and drops the clones.                          *)
(*                                                                         *)
(* All methods take &self.  sync is taken step by step, what follows it in  *)
(* subscribe(), unsubscribe() and add_oracle are one step each: they wait   *)
(* only for the lock of the subscribers.  A second subscribe() during the   *)
(* first, or calls of several threads in the midst of each other, are not   *)
(* modelled.                                                                *)
(*                                                                         *)
(* Left out: latest_slot, which is reported and never decided on.           *)
(***************************************************************************)
EXTENDS AccountSubscriber

CONSTANTS
  InitialOracles,  \* the oracles of the markets when the map is created
  FirstOracle,     \* the one of the market that is watched here
  MaxSpawned       \* bound: switches under way

ASSUME OracleAssumption ==
  /\ IsFiniteSet(Account)
  /\ FirstOracle \in InitialOracles /\ InitialOracles \subseteq Account
  /\ MaxSpawned \in Nat

VARIABLES
  oraclemap,           \* the entry of each oracle, slot 0 for none
  oracle_infos,        \* the oracles whose source is known
  subscribed,
  oracle_subscribers,  \* the task of each stored subscriber, 0 for none
  added,               \* history: the tasks add_oracle spawned since the last subscribe()
  call,                \* where subscribe() is
  pending,             \* what sync still has to insert: oracle -> slot
  market_oracle,       \* what the market account says its oracle is
  current_oracle,      \* perp_oracles or spot_oracles at the market's index
  adding,              \* spawned switches to each oracle before add_oracle ...
  updating             \* ... and after it

map_vars == <<oraclemap, oracle_infos, subscribed, oracle_subscribers, added>>
call_vars == <<call, pending>>
switch_vars == <<market_oracle, current_oracle, adding, updating>>
vars == <<updates, tasks, handlers, oraclemap, oracle_infos, subscribed, oracle_subscribers,
          added, call, pending, market_oracle, current_oracle, adding, updating>>

EmptyMap == [k \in Account |-> 0]

\* What a node that has seen the slots up to s answers for an oracle.
AsOf(k, s) ==
  CHOOSE n \in 0..s : /\ n = 0 \/ <<k, n>> \in updates
                      /\ \A m \in (n + 1)..s : <<k, m>> \notin updates

Init ==
  /\ updates = {}
  /\ tasks = <<>>
  /\ handlers = <<>>
  /\ oraclemap = EmptyMap
  /\ oracle_infos = InitialOracles
  /\ subscribed = FALSE
  /\ oracle_subscribers = <<>>
  /\ added = {}
  /\ call = "idle"
  /\ pending = EmptyMap
  /\ market_oracle = FirstOracle
  /\ current_oracle = FirstOracle
  /\ adding = [k \in Account |-> 0]
  /\ updating = [k \in Account |-> 0]

-----------------------------------------------------------------------------
(* subscribe(): with a sync_lock, the map is first filled over RPC.         *)
SyncAnswer ==
  /\ call = "idle"
  /\ \E s \in 0..Tip :
       pending' = [k \in Account |-> IF k \in oracle_infos THEN AsOf(k, s) ELSE 0]
  /\ call' = "sync"
  /\ UNCHANGED <<stream_vars, map_vars, switch_vars>>

SyncInsert(k) ==
  /\ call = "sync"
  /\ pending[k] # 0
  /\ oraclemap' = [oraclemap EXCEPT ![k] = pending[k]]
  /\ pending' = [pending EXCEPT ![k] = 0]
  /\ UNCHANGED <<stream_vars, oracle_infos, subscribed, oracle_subscribers, added, call, switch_vars>>

\* An account that is no price account ends the call with an error.
SyncFails ==
  /\ call = "sync"
  /\ pending # EmptyMap
  /\ pending' = EmptyMap
  /\ call' = "idle"
  /\ UNCHANGED <<stream_vars, map_vars, switch_vars>>

SyncDone ==
  /\ call = "sync"
  /\ pending = EmptyMap
  /\ call' = IF subscribed THEN "idle" ELSE "synced"
  /\ UNCHANGED <<stream_vars, map_vars, pending, switch_vars>>

\* Any order of the oracle infos.
Orders(S) == {s \in [1..Cardinality(S) -> S] : \A i, j \in DOMAIN s : s[i] = s[j] => i = j}

\* A handler with a copy of the infos, a task per oracle; the subscribers kept
\* are the ones that were not subscribed, in place of all there were.
Subscribe ==
  /\ call \in {"idle", "synced"}
  /\ ~subscribed
  /\ Len(tasks) + Cardinality(Account) <= MaxTasks
  /\ subscribed' = TRUE
  /\ handlers' = Append(handlers, [infos |-> oracle_infos, queue |-> <<>>])
  /\ \E keys \in Orders(oracle_infos) :
       tasks' = tasks \o [i \in DOMAIN keys |-> NewTask(keys[i])]
  /\ oracle_subscribers' = [i \in 1..Cardinality(oracle_infos) |-> 0]
  /\ added' = {}
  /\ call' = "idle"
  /\ UNCHANGED <<updates, oraclemap, oracle_infos, pending, switch_vars>>

\* Mutant: the subscribers that were subscribed are kept.
UnsubscribeAll ==
  /\ call = "idle"
  /\ subscribed
  /\ tasks' = [t \in DOMAIN tasks |-> [tasks[t] EXCEPT !.stop = TRUE]]
  /\ oraclemap' = EmptyMap
  /\ subscribed' = FALSE
  /\ UNCHANGED <<updates, handlers, oracle_infos, oracle_subscribers, added, call_vars, switch_vars>>

\* Every stored subscriber with a task is signalled; if one of these tasks is
\* gone, its send fails and so does the call, with the others signalled.  A
\* subscriber that was signalled is no longer subscribed.
Unsubscribe ==
  /\ call = "idle"
  /\ subscribed
  /\ LET signalled == {oracle_subscribers[i] : i \in DOMAIN oracle_subscribers} \ {0}
         gone == {t \in signalled : ~Live(tasks[t])}
     IN /\ tasks' = [t \in DOMAIN tasks |->
                       IF t \in signalled \ gone THEN [tasks[t] EXCEPT !.stop = TRUE] ELSE tasks[t]]
        /\ oracle_subscribers' = [i \in DOMAIN oracle_subscribers |->
             IF oracle_subscribers[i] \in gone THEN oracle_subscribers[i] ELSE 0]
        /\ subscribed' = (gone # {})
        /\ oraclemap' = IF gone = {} THEN EmptyMap ELSE oraclemap
  /\ UNCHANGED <<updates, handlers, oracle_infos, added, call_vars, switch_vars>>

\* Mutant: the handler asks the map's own infos.
HandleLive(h) ==
  /\ handlers[h].queue # <<>>
  /\ LET u == Head(handlers[h].queue)
     IN oraclemap' = IF u[1] \in oracle_infos THEN [oraclemap EXCEPT ![u[1]] = u[2]]
                                              ELSE oraclemap
  /\ handlers' = [handlers EXCEPT ![h].queue = Tail(@)]
  /\ UNCHANGED <<updates, tasks, oracle_infos, subscribed, oracle_subscribers, added, call_vars,
                 switch_vars>>

\* A handler knows the oracles of its copy of the infos, and drops what does
\* not parse.
Handle(h) ==
  /\ handlers[h].queue # <<>>
  /\ LET u == Head(handlers[h].queue)
     IN \/ u[1] \in handlers[h].infos /\ oraclemap' = [oraclemap EXCEPT ![u[1]] = u[2]]
        \/ UNCHANGED oraclemap
  /\ handlers' = [handlers EXCEPT ![h].queue = Tail(@)]
  /\ UNCHANGED <<updates, tasks, oracle_infos, subscribed, oracle_subscribers, added, call_vars,
                 switch_vars>>

-----------------------------------------------------------------------------
(* The market account is given another oracle (external), and the query      *)
(* get_oracle_price_data_and_slot_for_perp_market, or .._spot_market, that   *)
(* notices and spawns a switch.                                              *)
SwitchOracle(k) ==
  /\ k # market_oracle
  /\ market_oracle' = k
  /\ UNCHANGED <<stream_vars, map_vars, call_vars, current_oracle, adding, updating>>

\* Mutant: the query moves the market to its new oracle before it is added.
QueryPriceEager ==
  /\ market_oracle # current_oracle
  /\ adding[market_oracle] + updating[market_oracle] < MaxSpawned
  /\ adding' = [adding EXCEPT ![market_oracle] = @ + 1]
  /\ current_oracle' = market_oracle
  /\ UNCHANGED <<stream_vars, map_vars, call_vars, market_oracle, updating>>

QueryPrice ==
  /\ market_oracle # current_oracle
  /\ adding[market_oracle] + updating[market_oracle] < MaxSpawned
  /\ adding' = [adding EXCEPT ![market_oracle] = @ + 1]
  /\ UNCHANGED <<stream_vars, map_vars, call_vars, market_oracle, current_oracle, updating>>

\* Mutant: an oracle is added though the map has it.
AddOracleRepeated(k) ==
  /\ adding[k] > 0
  /\ Len(tasks) < MaxTasks
  /\ oracle_infos' = oracle_infos \cup {k}
  /\ tasks' = Append(tasks, NewTask(k))
  /\ oracle_subscribers' = Append(oracle_subscribers, Len(tasks) + 1)
  /\ added' = added \cup {Len(tasks) + 1}
  /\ adding' = [adding EXCEPT ![k] = @ - 1]
  /\ updating' = [updating EXCEPT ![k] = @ + 1]
  /\ UNCHANGED <<updates, handlers, oraclemap, subscribed, call_vars, market_oracle, current_oracle>>

\* add_oracle in one step: spawning the task waits for nothing, and the lock of
\* the subscribers is free.
AddOracle(k) ==
  /\ adding[k] > 0
  /\ \/ /\ k \in oracle_infos
        /\ UNCHANGED <<oracle_infos, tasks, oracle_subscribers, added>>
     \/ /\ k \notin oracle_infos
        /\ oracle_infos' = oracle_infos \cup {k}
        /\ tasks' = Append(tasks, NewTask(k))
        /\ oracle_subscribers' = Append(oracle_subscribers, Len(tasks) + 1)
        /\ added' = added \cup {Len(tasks) + 1}
  /\ adding' = [adding EXCEPT ![k] = @ - 1]
  /\ updating' = [updating EXCEPT ![k] = @ + 1]
  /\ UNCHANGED <<updates, handlers, oraclemap, subscribed, call_vars, market_oracle, current_oracle>>

\* Mutant: the switch writes the oracle only if nothing was switched since.
UpdateOracleOnce(k) ==
  /\ updating[k] > 0
  /\ updating' = [updating EXCEPT ![k] = @ - 1]
  /\ current_oracle' = IF current_oracle = FirstOracle THEN k ELSE current_oracle
  /\ UNCHANGED <<stream_vars, map_vars, call_vars, market_oracle, adding>>

\* update_perp_oracle or update_spot_oracle.
UpdateOracle(k) ==
  /\ updating[k] > 0
  /\ updating' = [updating EXCEPT ![k] = @ - 1]
  /\ current_oracle' = k
  /\ UNCHANGED <<stream_vars, map_vars, call_vars, market_oracle, adding>>

Next ==
  \/ \E k \in Account : Write(k) /\ UNCHANGED <<map_vars, call_vars, switch_vars>>
  \/ \E t \in DOMAIN tasks : TaskStep(t) /\ UNCHANGED <<map_vars, call_vars, switch_vars>>
  \/ SyncAnswer
  \/ \E k \in Account : SyncInsert(k)
  \/ SyncFails
  \/ SyncDone
  \/ Subscribe
  \/ Unsubscribe
  \/ \E h \in DOMAIN handlers : Handle(h)
  \/ \E k \in Account : SwitchOracle(k) \/ AddOracle(k) \/ UpdateOracle(k)
  \/ QueryPrice

Spec == Init /\ [][Next]_vars

(* The client goes on asking for the price, and the runtime polls the tasks  *)
(* it spawned.                                                               *)
FairSpec ==
  /\ Spec
  /\ WF_vars(QueryPrice)
  /\ \A k \in Account : WF_vars(AddOracle(k)) /\ WF_vars(UpdateOracle(k))

-----------------------------------------------------------------------------
(* Subscribing again spawns every task again and stops none of the old ones, *)
(* but switching oracles back and forth adds at most one task to an oracle,  *)
(* however the spawned switches interleave with each other and with the      *)
(* calls (oraclemap.rs:294-315).                                             *)
TasksBounded ==
  \A k \in Account :
    Cardinality({t \in DOMAIN tasks : tasks[t].pubkey = k})
      <= Len(handlers) + (IF k \in InitialOracles THEN 0 ELSE 1)

(* unsubscribe() stops the tasks that add_oracle spawned since the last      *)
(* subscribe(), and no other: nothing signals a task that subscribe()        *)
(* spawned, whose subscribers it dropped, nor one whose stored subscriber a  *)
(* later subscribe() replaced; and when unsubscribe() succeeds, every such   *)
(* task that is alive has its signal, whichever calls failed before          *)
(* (oraclemap.rs:166-176, 184-193, 311-313).                                 *)
StopsExactlyAdded ==
  [][/\ \A t \in DOMAIN tasks : tasks'[t].stop /\ ~tasks[t].stop => t \in added
     /\ subscribed /\ ~subscribed' => \A t \in added : Live(tasks[t]) => tasks'[t].stop]_vars

(* The oracle that the price of a perp market is answered from is always one *)
(* with a known source, and one that has been subscribed to if it was        *)
(* switched to (lib.rs:850-869; a spot price is answered from the oracle the *)
(* market names, followed yet or not).                                       *)
CurrentOracleFollowed ==
  /\ current_oracle \in oracle_infos
  /\ current_oracle \notin InitialOracles =>
       \E t \in DOMAIN tasks : tasks[t].pubkey = current_oracle

(* The price of an oracle that was added after the last subscribe() stands   *)
(* still until sync or unsubscribe: its task runs and emits, and every       *)
(* handler drops what it emits (oraclemap.rs:114-123).                       *)
AddedOracleFrozen ==
  [][\A k \in Account :
       (\A h \in DOMAIN handlers : k \notin handlers[h].infos) =>
         oraclemap'[k] \in {oraclemap[k], pending[k], 0}]_vars

(* Two switches under way at once may set the older oracle last; once the    *)
(* market keeps its oracle, queries bring the map back to it.                *)
SwitchConverges ==
  \A k \in Account : <>[](market_oracle = k) => <>[](current_oracle = k)
===============================================================================
