-------------------------------- MODULE DLOB --------------------------------
(***************************************************************************)
(* The decentralised limit order book of dlob/dlob.rs and the task that    *)
(* rebuilds it (dlob/dlob_builder.rs).                                     *)
(*                                                                         *)
(* The builder owns one book, `dlob'.  On every tick it clears it, inserts *)
(* the open orders of the user map at the slot it read, and emits a clone  *)
(* to every handler thread.  A clone has its own order lists, but          *)
(* _max_slot_for_resting_limit_orders is an Arc: one atomic, `max_slot',   *)
(* is shared by the builder's book and all its clones, and the builder's   *)
(* clear() resets it while consumers query their clones.                   *)
(***************************************************************************)
EXTENDS OrderBook, Sequences

CONSTANTS
  Consumer,   \* the event handler threads
  MaxSlot,    \* bound: the slots the SlotSubscriber reports
  MaxEvents   \* bound: clones queued for one handler thread

ASSUME BoundAssumption == MaxSlot \in Nat /\ MaxEvents \in Nat

VARIABLES
  current_slot,  \* SlotSubscriber::current_slot, never decreasing
  dlob,          \* the builder's book
  build_pc,      \* where the builder is in build()
  build_slot,    \* the slot build() read before it cleared the book, 0 outside it
  max_slot,      \* _max_slot_for_resting_limit_orders, shared by all clones
  events,        \* clones sent to each handler and not handled yet
  copy,          \* the clone each handler works on
  pc,            \* where each handler is in update_resting_limit_orders
  query_slot     \* the slot of its query, 0 outside one

builder_vars == <<dlob, build_pc, build_slot>>
consumer_vars == <<copy, pc, query_slot>>
vars == <<current_slot, dlob, build_pc, build_slot, max_slot, events, copy, pc, query_slot>>

-----------------------------------------------------------------------------
Init ==
  /\ current_slot = 0
  /\ dlob = EmptyBook
  /\ build_pc = "idle"
  /\ build_slot = 0
  /\ max_slot = 0
  /\ events = [c \in Consumer |-> <<>>]
  /\ copy = [c \in Consumer |-> EmptyBook]
  /\ pc = [c \in Consumer |-> "idle"]
  /\ query_slot = [c \in Consumer |-> 0]

\* A slot notification.
Tick ==
  /\ current_slot < MaxSlot
  /\ current_slot' = current_slot + 1
  /\ UNCHANGED <<builder_vars, max_slot, events, consumer_vars>>

-----------------------------------------------------------------------------
(* build(): the book is private to the builder, the atomic is not.          *)
Clear ==
  /\ build_pc = "idle"
  /\ build_pc' = "insert"
  /\ build_slot' = current_slot
  /\ dlob' = EmptyBook
  /\ max_slot' = 0
  /\ UNCHANGED <<current_slot, events, consumer_vars>>

\* The user map is read while it changes, so any order may be met or missed;
\* an empty slot of a user's orders has status Init.
BuildInsert(o) ==
  /\ build_pc = "insert"
  /\ OrderOf[o].status # "Init"
  /\ o \notin dlob.orders
  /\ dlob' = insert_order(dlob, o, build_slot)
  /\ UNCHANGED <<current_slot, build_pc, build_slot, max_slot, events, consumer_vars>>

BuildFinish ==
  /\ build_pc = "insert"
  /\ build_pc' = "idle"
  /\ \A c \in Consumer : Len(events[c]) < MaxEvents
  /\ build_slot' = 0
  /\ events' = [c \in Consumer |-> Append(events[c], dlob)]
  /\ UNCHANGED <<current_slot, dlob, max_slot, consumer_vars>>

-----------------------------------------------------------------------------
(* A consumer: it takes clones from its channel or from get_dlob(), inserts  *)
(* orders and runs queries.  get_resting_limit_bids/asks and                 *)
(* get_taking_orders all call update_resting_limit_orders first.             *)
Recv(c) ==
  /\ pc[c] = "idle"
  /\ events[c] # <<>>
  /\ copy' = [copy EXCEPT ![c] = Head(events[c])]
  /\ events' = [events EXCEPT ![c] = Tail(@)]
  /\ UNCHANGED <<current_slot, builder_vars, max_slot, pc, query_slot>>

\* get_dlob() needs the builder's mutex.
GetDlob(c) ==
  /\ pc[c] = "idle"
  /\ build_pc = "idle"
  /\ copy' = [copy EXCEPT ![c] = dlob]
  /\ UNCHANGED <<current_slot, builder_vars, max_slot, events, pc, query_slot>>

InsertOrder(c, o) ==
  /\ pc[c] = "idle"
  /\ o \notin copy[c].orders
  /\ copy' = [copy EXCEPT ![c] = insert_order(@, o, current_slot)]
  /\ UNCHANGED <<current_slot, builder_vars, max_slot, events, pc, query_slot>>

\* The early return of update_resting_limit_orders reads the shared atomic.
\* Handlers ask at the slot of the subscriber, though a query takes any slot.
Query(c) ==
  /\ pc[c] = "idle"
  /\ query_slot' = [query_slot EXCEPT ![c] = current_slot]
  /\ pc' = [pc EXCEPT ![c] = IF current_slot <= max_slot THEN "answered" ELSE "store"]
  /\ UNCHANGED <<current_slot, builder_vars, max_slot, events, copy>>

Store(c) ==
  /\ pc[c] = "store"
  /\ pc' = [pc EXCEPT ![c] = "move"]
  /\ max_slot' = query_slot[c]
  /\ UNCHANGED <<current_slot, builder_vars, events, copy, query_slot>>

Move(c) ==
  /\ pc[c] = "move"
  /\ pc' = [pc EXCEPT ![c] = "answered"]
  /\ \E rank \in Visits :
       copy' = [copy EXCEPT ![c] = update_resting_limit_orders(@, query_slot[c], rank)]
  /\ UNCHANGED <<current_slot, builder_vars, max_slot, events, query_slot>>

Return(c) ==
  /\ pc[c] = "answered"
  /\ pc' = [pc EXCEPT ![c] = "idle"]
  /\ query_slot' = [query_slot EXCEPT ![c] = 0]
  /\ UNCHANGED <<current_slot, builder_vars, max_slot, events, copy>>

Next ==
  \/ Tick
  \/ Clear
  \/ \E o \in Order : BuildInsert(o)
  \/ BuildFinish
  \/ \E c \in Consumer :
       \/ Recv(c)
       \/ GetDlob(c)
       \/ \E o \in Order : InsertOrder(c, o)
       \/ Query(c)
       \/ Store(c)
       \/ Move(c)
       \/ Return(c)

Spec == Init /\ [][Next]_vars

-----------------------------------------------------------------------------
TypeOK ==
  /\ current_slot \in Nat
  /\ dlob \in Book
  /\ build_pc \in {"idle", "insert"}
  /\ build_slot \in Nat
  /\ max_slot \in Nat
  /\ events \in [Consumer -> Seq(Book)]
  /\ copy \in [Consumer -> Book]
  /\ pc \in [Consumer -> {"idle", "store", "move", "answered"}]
  /\ query_slot \in [Consumer -> Nat]

(* The books alive in a state.                                               *)
LiveBooks ==
  {dlob} \cup {copy[c] : c \in Consumer}
         \cup UNION {{events[c][i] : i \in DOMAIN events[c]} : c \in Consumer}

(* The places of its own market where a book holds an order.                 *)
FiledAt(b, o) ==
  {p \in NodeType \X Side :
     \E n \in b.heap[OrderOf[o].market][p[1]][p[2]] : n.sig = o}

(* Every order of a book sits in exactly one heap of its own market: the one *)
(* get_node_subtype_and_type names at the slot the book last filed it.       *)
BookFiled(b) ==
  \A o \in b.orders :
    FiledAt(b, o) = {<<node_type(OrderOf[o], b.seen[o]), sub_type(OrderOf[o])>>}

(* No rebuild, clone, insertion or sweep of the taking lists, in whatever    *)
(* order the markets are visited, loses an order from the lists of its own   *)
(* market, doubles it there, or leaves it on the wrong one of them           *)
(* (insert_order, update_resting_limit_orders).                              *)
EveryOrderFiledOnce == \A b \in LiveBooks : BookFiled(b)

(* The taking heaps of a market collect orders of other markets, yet what    *)
(* get_best_orders(.., TakingLimit, m) returns belongs to m: order_sigs of   *)
(* the taking list masks the strangers.                                      *)
BookTakingOwn(b) ==
  \A m \in Market, s \in Side :
    \A o \in get_best_orders(b, m, "TakingLimit", s) : OrderOf[o].market = m

TakingAnswersOwnMarket == \A b \in LiveBooks : BookTakingOwn(b)

(* The sweep of the perp markets and the sweep of the spot markets share no  *)
(* accumulator: no list of a perp market ever holds a spot order, nor the    *)
(* other way round.                                                          *)
BookTypesApart(b) ==
  \A m \in Market, l \in NodeType, s \in Side :
    \A n \in b.heap[m][l][s] : SameMarketType(OrderOf[n.sig].market, m)

MarketTypesApart == \A b \in LiveBooks : BookTypesApart(b)

(* get_order, which searches the indexes and not the heaps, finds exactly    *)
(* the orders inserted since the book was cleared.                           *)
LookupExact == \A b \in LiveBooks, o \in Order : get_order(b, o) <=> o \in b.orders

-----------------------------------------------------------------------------
(* What test_get_resting_limit_bids and test_get_resting_limit_asks assert   *)
(* of an answer: the orders of the queried market that rest at the queried   *)
(* slot are in it (dlob.rs:1307-1329) ...                                    *)
RestingAnswerComplete ==
  \A c \in Consumer : pc[c] = "answered" =>
    \A o \in copy[c].orders :
      node_type(OrderOf[o], query_slot[c]) = "RestingLimit" =>
        o \in get_best_orders(copy[c], OrderOf[o].market, "RestingLimit", sub_type(OrderOf[o]))

(* ... and no other order is.                                                *)
RestingAnswerSound ==
  \A c \in Consumer : pc[c] = "answered" =>
    \A m \in Market, s \in Side :
      \A o \in get_best_orders(copy[c], m, "RestingLimit", s) : OrderOf[o].market = m
=============================================================================
