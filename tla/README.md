# A TLA+ verification of drift-rs

drift-rs is a Rust SDK for the Drift exchange on Solana. It keeps local copies
of on-chain state (users, markets, oracles, slots, blockhashes), builds an order
book from them, streams events, and builds transactions. What can go wrong in it
is mostly concurrency: websocket tasks that reconnect, handler threads fed by an
emitter, shared maps written from several sides, and an order book that is
cloned and queried while it is rebuilt. This directory models that part.

`PROJECT.json` is the machine-readable index: components, runs, the source lines
every definition stands for, hazards, findings and theorems.

## 1. Inventory

| Component | State | Operations | Interacts with |
|---|---|---|---|
| `dlob/dlob.rs`, `order_list.rs`, `market.rs`, `dlob_node.rs` | per market five order lists (two heaps and an index each); the shared `_max_slot_for_resting_limit_orders` | clear, build_from_usermap, insert_order, update_resting_limit_orders, get_best_orders, get_resting_limit_*, get_taking_orders, get_order, the fill and trigger searches | user map, math |
| `dlob/dlob_builder.rs` | one book behind a mutex | build on a tick, emit a clone, get_dlob | slot source, user map, emitter |
| `math/order.rs`, `math/auction.rs`, `market_operations.rs` | none | where an order is filed, prices, expiry, pause switches, rebate | book |
| `event_subscriber.rs` | bounded channel, signature cache, position in the ledger | polled stream, log stream, unsubscribe, event parsing | RPC node, websocket, retry task |
| `async_utils.rs` | attempt counter | spawn_retry_task, three policies | log stream, account provider |
| `event_emitter.rs` | a queue and a thread per handler | subscribe, emit | all subscribers |
| `websocket_program_account_subscriber.rs` | subscribed flag, stop channel; per task latest slot and attempts | subscribe, task, unsubscribe | emitter, user and market map |
| `websocket_account_subscriber.rs` | the same, for one account | the same | oracle map, DriftUser |
| `usermap.rs` | users by account | subscribe, sync, must_get, handler, unsubscribe | subscriber, emitter, RPC |
| `oraclemap.rs` | oracles by key, their sources, subscribers, the oracle of each market | subscribe, sync, handler, unsubscribe, add_oracle, update_*_oracle | account subscribers, emitter, RPC, price queries of the client |
| `marketmap.rs`, `user.rs` | markets, one user | as the user map | subscribers, emitter, RPC |
| `slot_subscriber.rs`, `blockhash_subscriber.rs` | current slot; last blockhashes | subscribe, loop | book, client |
| `lib.rs`, account providers | a watch channel per account | get_account, retried tasks with stream and poll | RPC node, websocket, retry task |
| `lib.rs`, `TransactionBuilder` | user data, instructions, mode, lookup tables | one call per operation, build_accounts, build | market tables of `constants.rs` |
| `lib.rs`, `DriftClient(Backend)` | the maps | subscribe, unsubscribe, queries | everything |
| `dlob_client.rs`, `order_subscriber.rs`, `auction_subscriber.rs`, `jit_client.rs`, `math/leverage.rs`, `math/liquidation.rs`, `types.rs`, `constants.rs`, `utils.rs`, `memcmp.rs` | little or none | I/O, encoding, wide arithmetic, data definitions | |

Hard behaviours: clones of the book that share one atomic; markets swept in the
arbitrary order of a hash map; batches of RPC calls of which one fails; repeated
notifications; a bounded channel that panics its sender; retried tasks that
start from captured state; a stop signal that is looked at in one state only;
two tasks and several handler threads writing one map; a search that writes back
under two lock guards at once; oracle switches spawned by queries; an account
cache written by a stream and a poll. `PROJECT.json` lists each
hazard at its line with the properties that cover it, or why none does yet.

What makes the parts correct:

* book: no order is lost, doubled or misfiled; queries answer for their market;
* event streams: every event once, in ledger order, and a stream that goes on;
* maps: what is in the map is the last thing emitted, one live task, a stopped
  task ends; a market's oracle is one that is followed;
* searches: every crossing pair, expired or triggered order is found, no amount
  written exceeds its order, no bid is matched beyond its size, the vAMM is used
  neither too early nor while it is paused;
* account cache: data never goes back, and catches up;
* transactions: exactly the accounts the program needs, in its order.

## 2. Modules

| Module | Models | EXTENDS |
|---|---|---|
| `OrderMath` | predicates of `math/order.rs`, `math/auction.rs`, `dlob/market.rs` | Integers |
| `OrderBook` | the order lists of one book and the operations on them | OrderMath |
| `DLOB` | book, builder and consumers of clones | OrderBook |
| `MCDLOB` | an instance of DLOB for TLC | DLOB |
| `OrderBookProofs` | lemmas about books: what an empty one satisfies and its operations keep | OrderBook |
| `DLOBProofs` | proofs about DLOB | DLOB, OrderBookProofs |
| `OrderPricing` | prices, expiry, heap order, maker and taker, market switches | OrderMath |
| `FillSearch` | `find_nodes_to_fill` and `find_nodes_to_trigger` | OrderBook, OrderPricing |
| `MCFillSearch` | an instance of it for TLC | FillSearch |
| `FillSearchProofs` | proofs about it | FillSearch, OrderBookProofs |
| `TxSignatureCache` | the bounded signature cache | |
| `EventDelivery` | abstract specification: what an event stream promises | |
| `PolledEventStream` | `PolledEventStream::stream_fn`, channel, unsubscribe | TxSignatureCache; INSTANCE EventDelivery |
| `PolledProofs` | proofs about it, the refinement included | PolledEventStream |
| `LogDelivery` | abstract specification: what a stream that is notified of transactions promises | |
| `LogEventStream` | `LogEventStream` under `spawn_retry_task` | TxSignatureCache; INSTANCE LogDelivery |
| `LogProofs` | proofs about it, the refinement included | LogEventStream |
| `ProgramAccountSubscriber` | the websocket subscriber and the emitter | |
| `UserMap` | the user map, composed with the subscriber | ProgramAccountSubscriber |
| `UserMapProofs` | proofs about it | UserMap |
| `AccountSubscriber` | the tasks of `WebsocketAccountSubscriber` and their emitter | |
| `OracleMap` | the oracle map and the price queries that switch oracles, composed with the subscribers | AccountSubscriber |
| `OracleMapProofs` | proofs about it | OracleMap |
| `AccountCache` | `WsAccountProvider`: cache, watch channels, retried tasks | |
| `TransactionBuilder` | the builder's calls and `build_accounts` | |
| `MCTransaction` | an instance of it for TLC | TransactionBuilder |
| `MCClient` | the account cache and that instance of the builder side by side | AccountCache, MCTransaction |
| `ClientProofs` | proofs about the account cache and the builder | AccountCache, TransactionBuilder |

Definitions keep the source's names. Capitalised actions are steps of a thread
or task; lower-case operators are functions of the source. Definitions whose
comment begins with `Mutant:` are deliberately wrong variants of the definition
after them: each is known to violate the property it is listed with, which shows
that the property depends on that code.

### DLOB

`dlob` is the builder's book, `copy[c]` the clone handler thread `c` works on,
`events[c]` the clones on their way to it, and `max_slot` the atomic all of them
share (`Arc`, while `Clone` copies the lists). A book is a record: the markets it
knows, a set of nodes per market, list and side, the index `order_sigs`, the
signatures inserted since it was cleared, and the history field `seen`, the slot
at which each order was last filed. Heaps are sets; where the order in which
they are popped matters, in `FillSearch`, `OrderPricing!pops_before` gives it.

`Clear`, `BuildInsert`, `BuildFinish` are one `build()`; the mutex makes `GetDlob`
wait for it, but nothing makes a query of an older clone wait. `Query`, `Store`
and `Move` are the three steps of `update_resting_limit_orders`: the read of the
atomic, the store, and the sweep. The sweep is one operator,
`update_resting_limit_orders(b, slot, rank)`; `rank` is the arbitrary order in
which the DashMap gives out its markets. The accumulators of the sweep are never
emptied between markets, which `new_taking` models.

The callers in the repository insert an order into a book once per rebuild;
`BuildInsert` and `InsertOrder` are restricted to that (`o \notin orders`), and
`BuildInsert` skips orders whose status is `Init`, as `build_from_usermap` does. A
query asks at the current slot, as the callers in the repository do; the functions
take any slot. `EveryOrderFiledOnce` is about the lists of an order's own market:
the sweep copies orders into those of others, which `RestingAnswerSound` is about.

### PolledEventStream

A transaction is its position in the ledger and its number of events. The RPC
node is external: it has seen any prefix of the ledger and returns the signatures
after the one it is given, newest first, as the documentation of
`EventRpcProvider` says. A node that has not seen the last-seen signature returns
nothing, and the limit of 1000 signatures to an answer is left out; so no poll
brings a transaction again, and the look into the cache (`event_subscriber.rs:352`)
is never a hit here. In the log stream, which shares the cache, it is. `Poll` is a poll that returns something, `GetTxFails`
the `break` out of a batch, `ProcessTx` the rest of the loop body, with the panic
of `try_send` on a full channel (`room_for` is what still fits).

### LogEventStream

`open` is the connection of the client captured by the closure, `self_provider`
the client of the running `LogEventStream` value, which the source replaces on
`ConnectionClosed` and then drops. A `PubsubClient` (external) is one connection
and never reopens. The policy is chosen in `Init`, so one run covers all three.
The node may repeat a notification among the last `RepeatWindow` ones;
`WindowAssumption` says the cache is larger (256 entries in the source).

What the stream is to do is `LogDelivery`, in four variables: a transaction that
it has heard of and that has events is due when no earlier one is, and a stream
hands over what is due, whole, or ends. The mapping forgets the notifications,
the cache, the channel, the connection and the retries; a ledger entry is its
number of events, and the abstract stream has ended when the task has. What
lands while nobody is subscribed may never be heard of, which neither
specification promises.

### ProgramAccountSubscriber and UserMap

Tasks are a sequence, because `unsubscribe()` does not wait for the task and
`subscribe()` starts another beside it; handlers are a sequence, because nothing
removes them. A stream may bring any update, late or repeated. `failures` is a
history field. Calls of the map take `&mut self` and come one at a time (`call`);
`must_get`, which takes `&self` and so could overlap another `must_get`, is put in
line with them (what two overlapping ones can do to an entry, a late answer that
overwrites an emitted update, one does already). Calls are split where another thread can come in between: the answer of an RPC and its
insertion, the stop signal and `clear()`. Once the last task has ended by itself
`unsubscribe()` fails before it resets the flag, so `subscribe()` has nothing to
do; `LostForGood` states what follows. `latest_slot` of the map, which is only
reported, and the user callback are left out.

### FillSearch and OrderPricing

The owner of a book inserts orders, may have queried (swept) it before, and runs
one search on it; `answer` is what the search came to: `"returned"`, `"triggers"`,
`"none"`, `"panicked"` or `"blocked"`. A search is a fold over snapshots of the
lists, as in the source; its accumulator `st` holds the nodes found and the
amounts in the book. `amt[m][o]` is the filled amount of order `o` in the lists
of market `m`: a stranger that a sweep left in a foreign list is read there and
written in the lists of its own market. A match takes the DashMap guard of the
first order's market, writes, and takes the guard of the second order's market
while the first is still alive (it is shadowed, not dropped): if both are on one shard
the thread blocks for ever. Two orders of one market always are. So what a search
can return at all is limited to books without a crossing pair, which
`ReturnsOnlyUncrossed` and `BlocksHalfway` state from both sides, and the matches
it does return are with makers of other markets that a sweep left in the list.

`st.matched` is a history field, what each order's matches come to. The bids are
listed again for every ask and every taker, with the amounts written so far, so
what a resting bid of the market is matched with adds up to what is written for
it and stays within its size (`BidsMatchedWithinSize`). An ask or a taker is
read once, before the loop over its makers, and may be matched beyond its size;
the amount written for it is capped by each match, which is all that
`NeverOverfilled` says of it. `FallbackInTime` is about every order sent to the
vAMM, the ones whose nodes are merged with makers included (`to_vamm`), and about
every switch the source looks at: `AmmPaused` of the exchange and, on perp
markets, paused AMM fills, drawdown and the minimal auction.

There are exceptions, which `ReturnsOnlyUncrossed` names: a crossed pair does not
block when the order the loop iterates over is filled already, and the loop
notices that only if the write-backs reach the amounts it reads. They do not for
a foreign order, whose amount is written to the lists of its own market, nor for
a taking order that has come to rest since the last sweep, which the write-back
looks for in the resting list while it is still in the taking one
(`update_finds`). The second exception was met in the proof: without it the
property fails on the book of `slow_ask`.

A price that the source would convert from a negative number, or an order that
has none, is a negative price; asking for it panics. Equal sort keys may come in
any order (`sortings`). The auction formulas are modelled as their operators
associate, which is no interpolation: `AuctionEndsAtEndPrice` states what they
still guarantee.

### AccountSubscriber and OracleMap

`subscribe()` of the map creates subscribers, subscribes clones of them and keeps
the originals: `oracle_subscribers` holds the task of each stored subscriber, and
0 for one that was never subscribed. A handler has the copy of the oracle infos
it was made with. `market_oracle` is what the market account says (external),
`current_oracle` what the map has for the market; `QueryPrice` is a price query
that sees them differ and spawns a switch, `AddOracle` and `UpdateOracle` the two
halves of the spawned task, between which it awaits. `AddOracle` is one step:
`add_oracle` runs on the local task set, and what it does before its await
(`write().await` of the subscribers, `oraclemap.rs:312`) and the push behind it are
told apart only by an `unsubscribe()` or `subscribe()` that holds that lock, which
come before or after it here. `added` is a history variable, the tasks that
`add_oracle` spawned since the last `subscribe()`.

`subscribe()` and `unsubscribe()` take `&self` and a caller could overlap them;
nothing in the repository does, and the model puts them in line (`call`): the signals and the clearing of `unsubscribe()` are one step,
which queries, switches, tasks and handlers come before or after. Left out:
`latest_slot`, which is only reported.

### AccountCache

One account; `chain[s]` is the account as of slot `s`. Data is named by the slot
that wrote it, so "older" is `<`. A stream update is stored with the slot that
wrote it; a poll with the slot it was answered at, which may be later. Callers
that miss at the same time each fetch, insert and spawn a task (`channels` has
them all, `cached` is the one in the cache). A poll that finds the account closed
panics its task. That a streamed account does not decode, which panics too
(`.expect("account")`, `lib.rs:211`), is left out: the node sends what it was asked
for.

### TransactionBuilder

An action per call of the builder. `calls` is a history variable: what each
instruction was asked for. `include_market` has the bitmap with its width
(`BitmapBits`, 64) and the cast of the index before the shift (`ByteValues`, 256): a
release build shifts by the cast index modulo the width, a build with overflow
checks (`OverflowChecks`) panics. The loops of `build_accounts` are recursive
functions, a value per turn (`include_each`, `include_users`). Left out of an
instruction are program, parameters and base accounts.

`AccountsExact` is about calls whose markets have a bit each. `OnePerBit` says what
a release build gives the others: of markets that share a bit just one is
served, and a market that is only read never takes the place of one that is
written. An unknown market makes the builder panic only if its bit is not taken;
the documentation says that it panics, which `UnknownMarketPanics` states and the
run `builder_unknown_market` refutes. `place_orders` takes the markets of its
orders from `OrderLists`, any set of sequences.

The module's specification is called `BuilderSpec` (and so on) because
`ClientProofs` extends it together with `AccountCache`.

## 3. Runs

| Run | Result | Shows |
|---|---|---|
| `dlob_book` | holds | `EveryOrderFiledOnce`, `TakingAnswersOwnMarket`, `MarketTypesApart`, `LookupExact` through all interleavings of rebuild, clone, insertion and sweep |
| `dlob_resting_complete` | **violated** | a clone skips its sweep because another clone was swept at that slot, and its answer misses an order |
| `dlob_resting_sound` | **violated** | an order of one perp market is in the answer for another |
| `polled_stream` | holds | refinement of `EventDelivery`, `CacheIsRecent`, and that every landed transaction is taken |
| `log_stream` | holds | refinement of `LogDelivery` (`DeliversNotified`), order and uniqueness under repeats and retries, `CachedMeansSent`, resumption, the end of limited policies |
| `log_stream_reconnect` | **violated** | after `ConnectionClosed` the forever policy retries for ever with the closed client |
| `usermap` | holds | `AtRestLastEmitted`, `OneTaskUnstopped`, `OneTaskNeverGoesBack`, `GivesUpHalfway`, `LostForGood`, `StoppedTaskEnds` |
| `usermap_unsubscribe` | **violated** | updates queued or emitted after `unsubscribe()` fill the cleared map again |
| `fill_search` | holds | the searches: `ReturnsOnlyUncrossed`, `BlocksHalfway`, `BidsMatchedWithinSize`, `NeverOverfilled`, `FallbackInTime`, `ExpiredAllReturned`, `TriggersExact`; `AuctionEndsAtEndPrice` |
| `oracle_map` | holds | `TasksBounded`, `CurrentOracleFollowed`, `StopsExactlyAdded` (a stop signal reaches the tasks `add_oracle` spawned since the last `subscribe()`, all of them and no others), `AddedOracleFrozen` (an oracle added after `subscribe()` is never updated), `SwitchConverges` |
| `client` | holds | account cache: `OneChannelPerCaller`, `ChannelNeverGoesBack`, `CacheCatchesUp`; builder: `AccountsExact`, `OnePerBit`, `AccountsSorted`, `InstructionsInOrder` |
| `builder_unknown_market` | **violated** | an unknown market whose bit is taken is passed over without a panic |

Several of the properties that hold state a limit of the code, not a merit:
a crossed book blocks the search, an added oracle stands still, `unsubscribe()` of
the oracle map stops only the oracles added later, half the reconnection attempts
are used, a subscription whose task gave up cannot be renewed, and markets that
share a bit displace each other. They are there because a user of the SDK has to
know them and because a change of that code should show. One is a finding too: the
doc of `DriftClient::unsubscribe` (`lib.rs:375`) says that it unsubscribes from the
backend, and by `StopsExactlyAdded` the tasks that `subscribe()` of the oracle map
spawned are never told.

The violated runs are findings: each states what a doc comment or a test of the
repository says, and `PROJECT.json` quotes it.

### Bounds

* `dlob_book`: two perp markets and a spot market, one order each whose auction
  ends between slots 1 and 2, one consumer, one queued clone. Two markets of one
  type are what the shared accumulators need, the third what a leak between the
  types needs; slots 0 to 2 give a sweep that moves nothing, the boundary slot
  and one that moves everything; one consumer and the builder already share the
  atomic across three books.
* `polled_stream`: three transactions of at most two events, a cache that holds
  two and a channel of two: batches of several, eviction, a full channel in the
  middle of a transaction.
* `log_stream`: the same ledger, repeats within two, a cache that holds two, a
  channel of three, one retry for the limited policy.
* `usermap`: one account, two slots, two tasks (so an old task overlaps a new
  one, with two handlers), queues of two, three attempts. Accounts only meet in
  the queues, so a second one adds states and no interplay.

* `fill_search`: eleven books of two to four orders that meet each rule of the
  search (crossing and own orders, makers of a foreign market, floating orders
  with a negative price, market and oracle auctions, a taker that comes to rest between the last
  sweep and the search, expired, trigger and spot orders), inserted in every order at slots 0 to 3, and eight queries (with and
  without fallback prices, fills paused, the vAMM paused by the exchange, paused by
  the market and drawn down, both market types).
  `perp1` and `perp2` are on different shards.
* `oracle_map`: two oracles, one of which is added later, one slot, three tasks
  (a second subscription beside the tasks of the first), queues of one, one
  switch under way per oracle; switches to different oracles overlap. A second
  switch to the same oracle finds it added, which also happens when the market
  changes back and forth. `max_reconnection_attempts` is 1 here, so a failed
  subscription ends its task; the retry of the same loop runs in `usermap`.
* `client`, account cache: two callers, so two channels, and three slots, so that a poll
  of an idle slot, a late update and a newer one can overtake each other.
* `client`, builder: two instructions; two spot and four perp markets in
  words of three bits, so that two of them share a bit, an unknown market that
  shares it too once its index is cast (to four values), two markets with one
  oracle, users with overlapping positions, lists of none to four orders. A release
  build. Cache and builder share no variable (a builder owns its copy of the user
  data) and each property is about one of them, so `MCClient` lets one work while
  the other is at rest, which shows all that their interleavings could.

`MaxSlot`, `MaxEvents`, `MaxTx`, `MaxNotified`, `MaxTasks`, `MaxQueue`, `MaxSpawned`,
`MaxCalls` and `Books` bound the model; the channels of the emitter and the DashMaps are unbounded in the source.
`ChannelCapacity`, `CacheCapacity`, `MaxAttempts` and `max_reconnection_attempts`
are limits of the source, taken small.

`CHECK_DEADLOCK FALSE` stands in the configurations of the streams, the user map,
the account cache, the search and the builder: a stream or task may be aborted or
panic, a search may block, a builder is used up, the bounds may be, and nothing
obliges the caller to go on. The book and the oracle map keep deadlock checking
on.

### Fairness

* Polled stream: weak fairness of the first fetch and of polling (the runtime
  polls the task, the interval is finite), strong fairness of `ProcessTx`: `get_tx`
  of a transaction does not fail every time it is tried.
* Log stream: the runtime polls the task, the delays of the policies are finite,
  a subscription on an open connection does not fail for ever, a closed
  connection ends its stream. For `Reconnects` also: a new client can be had; the
  property fails all the same.
* Map: the runtime polls tasks and delays end; strong fairness of `Stop`, because
  `tokio::select!` chooses at random among the branches that are ready. Nothing is
  assumed of handlers, the chain or the caller.

* Oracle map: the client goes on asking for the price, and the runtime polls the
  switches it spawned.
* Account cache: the delay of a retry ends; strong fairness of `Connect` (a
  connection tried again and again succeeds) and of a poll that is answered by a
  node that has caught up: a connection made again and again stays up for the ten
  seconds of the interval now and then. The retry policy of the source is
  `forever(5)`.

Slot ticks, landings, notifications, failures and calls are never fair.

## 4. Proofs

TLAPS proves for every value of the constants what the runs show on one: every
invariant of a passing run, every action property and both refinements. The
assumptions are the ASSUMEs of the modules: bounds are natural numbers and limits
of the source positive; `Perp` is a subset of `Market` and orders, users and
markets are well-formed records; orders, callers and oracles are finitely many; an
order in a book of `FillSearch` is filled less than its amount, as an open order
is; the node repeats notifications only within a window that the cache outlasts
(`WindowAssumption`); public keys are ordered, every known market has an account
and an oracle, and two markets have two accounts (`BuilderAssumption`; the program
derives a market's address from its index).

In each module below `IInv` is the inductive invariant: it holds initially, every
action keeps it, and it implies the invariants named. `TypeOK` is part of each;
for the book, the user map and the account cache, where it says little beyond
the types, it is only proved (`TypeCorrect`), for the streams, where it holds the
bound of the channel, the runs check it too.

* `OrderBookProofs` holds what `DLOB` and `FillSearch` share. `EveryOrderFiledOnce`
  is not inductive: the sweep mixes orders of several markets, so one has to know
  what strangers a heap can hold. `BookInv` says that a node is on its order's
  side in a market of its order's type, in the order's own market except on the
  two lists the sweep writes (`NodesPlaced`); that every order has a node where it
  belongs (`OrdersHeld`); that the taking index of a market names only its own
  orders (`TakingIndexOwn`); and that the indexes name orders of the book only,
  and the index of an order's list names it (`IndexExact`). `GoodBook` adds that
  no order was filed at a slot later than the one its next filing will use, which
  is needed because resting is for ever (`PlaceLater`) only forward in time.
  `InsertInv` and `UpdateInv` are the lemmas about the two operations, the second
  for every order in which the markets are visited.
* `DLOBProofs`: `TypeCorrect`, `FiledOnce`, `TakingOwn`, `TypesApart`, `Lookup`.
  `IInv` says that every live book (the builder's, the clones queued and in use)
  is a `GoodBook` at the current slot, and that no query under way is older than
  the clone it sweeps.
* `PolledProofs`: `TypeCorrect`, `CacheRecent` and the refinement
  `PolledDelivers == Spec => Abs!Spec`. The invariant adds to the type that the
  batch is a run of consecutive positions behind `last_seen_tx`, and that the
  cache is the run that ends at it; so a transaction of the batch is never in the
  cache, and each `ProcessTx` is a `Deliver`, or an `End` when the channel is full.
* `LogProofs`: `TypeCorrect`, `InOrder`, `CachedSent` and the refinement
  `LogDelivers == Spec => DeliversNotified`. While the task lives, some
  position D of the ledger divides what it has processed from what it has not
  (`DoneUpTo`). What lies behind D is cached unless it failed or is too far back
  (`Remembered`), the notifications that wait are not as far back (`Recent`), and
  beyond D they wait without a gap, each at its first time in order (`NoneLost`,
  `FirstTimesInOrder`). So a repetition is recognised and anything else is next.
  `AgeOrdered` is the arithmetic of the cache: an entry is forgotten only after
  `CacheCapacity - 1` others at later positions. For the refinement, all that was
  heard of up to D has been sent (`AllSent`): so a notification that is not
  skipped is the one that is due (`NextIsDue`), for whatever else has events to
  hand over would lie behind D or wait in front of it. A repetition, and all that
  subscribing, reconnecting and retrying do, maps to no step.
* `UserMapProofs`: `TypeCorrect`, `OnlyLastUnstopped`, `GivesUpAtHalf`,
  `AtRestEmitted`, `NeverGoesBack`, `SubscriptionLost`. `emit()` appends to all queues at once, so in
  any queue the last update of an account is the last one emitted
  (`QueuesEndWithEmitted`), and an entry that is not has one queued that will
  overwrite it (`StaleOverwritten`). `Counted` says where a task may be at each
  count of attempts, twice the failures or one off. `OneTaskInOrder` is the
  invariant behind `NeverGoesBack`; `SubscriptionLost` needs only the types, since
  no step touches a task that has ended.
* `OracleMapProofs`: `BoundedTasks`, `StopsAdded`, `CurrentFollowed`,
  `AddedFrozen`. A known oracle that was not there from the start has a task
  (`KnownOracles`), so the look of `add_oracle` at the infos decides whether one is
  spawned; a switch past `add_oracle` is one to a known oracle (`SwitchesAdded`); a
  stored subscriber that has a task is one `add_oracle` stored since the last
  `subscribe()`, and a task it spawned since then is stopped, gone or still stored
  (`SubscribersOfAdded`), which is what `StopsAdded` needs in both directions.
* `ClientProofs`, account cache: `TypeCorrect`, `NeverGoesBack` and `ChannelsBounded`, for
  every number of callers and slots. The action property needs two facts about
  the state: data gets no older along the chain (`ChainGrows`), and what a channel
  holds is the account as of the slot it is marked with (`UpToItsSlot`). Every
  step of a task leaves its channel or moves it to a later slot (`TaskStepKeeps`),
  so to data at least as new. For `ChannelsBounded`, channels made and channels
  that callers past their miss will still make are no more than the callers
  (`InsertsLeft`).
* `ClientProofs`, builder: `BuilderAccountsExact`, `BuilderOnePerBit`,
  `BuilderAccountsSorted`, `BuilderInstructionsInOrder`, for all users, markets, keys,
  widths and any number of calls, with overflow checks or without. Again the
  state invariant is small (every instruction is what `build_accounts` gave its
  call) and the work is in one step. `InsertRight` is about `binary_search` and
  `insert`: in a sorted list the smaller accounts are an initial segment, so what
  is inserted behind them keeps the order. `Right(st, N, W)` is the loop invariant:
  after the markets of N were mentioned, those of W written, the bits seen are
  those of N, and the accounts are those of some set P that has one market of N for
  each bit, and a written one where there is one (`Serves`). A turn keeps it
  provided that whatever is written comes before whatever is read (`Fits`), which
  the order of the loops guarantees. If no two markets share a bit P is all of
  N, hence `AccountsExact`; otherwise P is what `OnePerBit` calls served. That a
  loop has a value after every turn, and that a fact kept by each turn holds at
  the end, are `RunExists` and `CountUp`, from the least counterexample.
* `FillSearchProofs`: `ReturnsUncrossed`, `BlockedHalf`, `BidsWithinSize`,
  `AmountsBounded`, `FallbackWaits`, `ExpiredReturned`, `TriggersFoundAll`,
  `AuctionEnds`: all seven invariants and the action property of the run, for
  every finite set of orders, every query and every assignment of markets to
  shards. The state invariant is small, a `GoodBook` and an answer that is right
  (`AnswerRight`); the work is in one step, a whole search. Its loops are folds.
  `FoldExists` says that a fold over a sequence has a run, its values after each
  element, and a lemma per loop (`...Run`) names that run; what one turn keeps is
  then kept to the end by counting up (`CountUp`). `Matching` are the facts about
  a turn of an inner loop: amounts only grow and stay within their orders, a
  search that blocks does so on a crossed pair it has half written, and one that
  goes on past a crossed pair has filled the order it iterates over. The amount
  the book has of a resting bid is what it was filled before plus its matches
  (`Booked`), and a node without makers is one the vAMM may have (`Found`).
  `AskLoop` and
  `TakerLoop` lift them to the outer loops, `SearchEnds` to the search, `Merged` to
  the merged and deduplicated nodes; `TriggersFound` is about the trigger heaps,
  popped up to the first order that does not trigger. `AuctionEnds` needs only
  that the product with the progress of an auction, divided by its duration, goes
  from nothing to the whole and never back.

Only model-checked is liveness (`EveryTxTaken`, `Resumes`, `LimitedPolicyEnds`,
`StoppedTaskEnds`, `SwitchConverges`, `CacheCatchesUp`): the prover does not do
fairness or ENABLED.

The properties of the violated runs are refuted by TLC.

## 5. Not modelled

* Event parsing, the HTTP clients and the JIT client are formatting and I/O.
* Margin and liquidation mathematics is wide arithmetic over external account
  layouts; constants, types and filters have no state.
* `MarketMap` and `DriftUser` use the subscribers modelled here in the same way as
  `UserMap` and `OracleMap`; `OrderSubscriber` and `AuctionSubscriber` are the
  program account subscriber with a filter.
* `SlotSubscriber` is only the tick of the book, never fair (it does not
  reconnect); `BlockhashSubscriber` is a refresh loop.
* Of `DriftClient` and its backend, the oracle price queries are modelled; the rest
  subscribes the maps in turn and forwards calls.

Left out of the modelled components: log output, the wording of errors, and
`_open_orders` and `_initialized` of the book, which are never read.

Read while modelling and not stated as a property, because they concern data the
models leave out: `determine_maker_and_taker` returns the post-only bid second
(`dlob/utils.rs:19`) although its comment calls the second node the taker
(line 7); `init_tx` uses the data of the active sub-account whichever account it
is given (`lib.rs:615`); `place_and_make` derives the taker's stats account from
the sub-account and not its authority, and the builder its own from the delegate
when there is one (`lib.rs:1160`, `1457`); `place_and_take` never appends the
maker's account (`lib.rs:1518`); a spot price is answered from the market's own
oracle, a perp price from the one the map follows (`lib.rs:868`, `889`).

## 6. Plan

All that the passing runs check and the prover can state is proved. What could
be modelled next: `SlotSubscriber` and `BlockhashSubscriber` as tasks of their own,
and `DriftClientBackend`, composing the maps.
