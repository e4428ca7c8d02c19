------------------------------ MODULE OrderBook ------------------------------
(***************************************************************************)
(* The order lists of one DLOB (dlob/dlob.rs, dlob/order_list.rs,           *)
(* dlob/market.rs) and the operations on them, as functions from books to   *)
(* books.                                                                   *)
(*                                                                         *)
(* An Orderlist is a heap of nodes per side and the index order_sigs.  A   *)
(* node keeps the node type it was created with.  _open_orders and         *)
(* _initialized are written and never read, and are left out.              *)
(***************************************************************************)
EXTENDS OrderMath, FiniteSets

CONSTANTS
  Market,     \* (market type, market index) pairs
  Perp,       \* the perp markets; the others are spot markets
  User,       \* user accounts
  Order,      \* order signatures, "<order_id>-<user>"
  OrderOf     \* the order record behind each signature

OrderRecord ==
  [market: Market, user: User, status: OrderStatus, direction: Direction,
   order_type: OrderType, trigger_condition: TriggerCondition, post_only: BOOLEAN,
   slot: Nat, auction_duration: Nat, auction_start_price: Int, auction_end_price: Int,
   oracle_price_offset: Int, price: Nat, trigger_price: Nat, max_ts: Nat,
   base_asset_amount: Nat, base_asset_amount_filled: Nat]

ASSUME PerpAssumption == Perp \subseteq Market
ASSUME OrderAssumption == OrderOf \in [Order -> OrderRecord]

-----------------------------------------------------------------------------
(* Books.  `seen' is a history field: the slot at which the book last filed  *)
(* each order it holds.                                                      *)
Node == [sig: Order, node_type: NodeType]

Book == [markets: SUBSET Market,
         heap: [Market -> [NodeType -> [Side -> SUBSET Node]]],
         order_sigs: [Market -> [NodeType -> SUBSET Order]],
         orders: SUBSET Order,
         seen: [Order -> Nat]]

EmptyBook ==
  [markets |-> {},
   heap |-> [m \in Market |-> [l \in NodeType |-> [s \in Side |-> {}]]],
   order_sigs |-> [m \in Market |-> [l \in NodeType |-> {}]],
   orders |-> {},
   seen |-> [o \in Order |-> 0]]

SameMarketType(m, n) == (m \in Perp) <=> (n \in Perp)

\* BinaryHeap::push: at most one node per signature.
push(heap, nodes) == {n \in heap : \A x \in nodes : x.sig # n.sig} \cup nodes

\* Mutant: the node is pushed and not indexed.
insert_order_unindexed(b, o, slot) ==
  LET order == OrderOf[o]
      l     == node_type(order, slot)
      node  == [sig |-> o, node_type |-> l]
  IN [b EXCEPT !.markets = @ \cup {order.market},
               !.heap[order.market][l][sub_type(order)] = push(@, {node}),
               !.orders = @ \cup {o},
               !.seen[o] = slot]

\* DLOB::insert_order, with add_market_indempotent and Orderlist::insert_bid/ask.
insert_order(b, o, slot) ==
  LET order == OrderOf[o]
      m     == order.market
      l     == node_type(order, slot)
      s     == sub_type(order)
      node  == [sig |-> o, node_type |-> l]
  IN [markets |-> b.markets \cup {m},
      heap |-> [b.heap EXCEPT ![m][l][s] = push(@, {node})],
      order_sigs |-> [b.order_sigs EXCEPT ![m][l] = @ \cup {o}],
      orders |-> b.orders \cup {o},
      seen |-> [b.seen EXCEPT ![o] = slot]]

-----------------------------------------------------------------------------
(* update_resting_limit_orders_for_market_type, for both market types.  The  *)
(* markets of a type are visited in the arbitrary order of a DashMap, given  *)
(* by rank.  new_taking_bids and new_taking_asks are created before the loop *)
(* and never emptied, so the taking heaps a market is written back with hold *)
(* the orders of every market of its type visited so far.                    *)
Visits == {rank \in [Market -> 1..Cardinality(Market)] :
             \A m, n \in Market : rank[m] = rank[n] => m = n}

\* The taking nodes of a market that rest at slot.
resting_nodes(b, slot, m, s) ==
  {n \in b.heap[m]["TakingLimit"][s] : is_resting_limit_order(OrderOf[n.sig], slot)}

\* Mutant: one accumulator for both market types.
new_taking_shared(b, slot, rank, m, s) ==
  UNION {b.heap[n]["TakingLimit"][s] \ resting_nodes(b, slot, n, s) :
           n \in {k \in b.markets : rank[k] <= rank[m]}}

\* new_taking_bids or new_taking_asks, when market m is written back.
new_taking(b, slot, rank, m, s) ==
  UNION {b.heap[n]["TakingLimit"][s] \ resting_nodes(b, slot, n, s) :
           n \in {k \in b.markets : SameMarketType(k, m) /\ rank[k] <= rank[m]}}

\* Mutant: the taking heaps are not replaced after the move.
new_heap_kept(b, slot, rank, m) ==
  [b.heap[m] EXCEPT
     !["RestingLimit"] = [s \in Side |-> push(@[s], resting_nodes(b, slot, m, s))]]

\* The lists of market m as they are written back.  A moved node keeps its
\* node type; taking order_sigs keeps the signatures of moved orders.
new_heap(b, slot, rank, m) ==
  [b.heap[m] EXCEPT
     !["RestingLimit"] = [s \in Side |-> push(@[s], resting_nodes(b, slot, m, s))],
     !["TakingLimit"] = [s \in Side |-> new_taking(b, slot, rank, m, s)]]

new_order_sigs(b, slot, m) ==
  [b.order_sigs[m] EXCEPT
     !["RestingLimit"] =
       @ \cup {n.sig : n \in resting_nodes(b, slot, m, "bids")}
         \cup {n.sig : n \in resting_nodes(b, slot, m, "asks")}]

update_resting_limit_orders(b, slot, rank) ==
  [markets |-> b.markets,
   heap |-> [m \in Market |-> IF m \in b.markets THEN new_heap(b, slot, rank, m)
                                                 ELSE b.heap[m]],
   order_sigs |-> [m \in Market |-> IF m \in b.markets THEN new_order_sigs(b, slot, m)
                                                       ELSE b.order_sigs[m]],
   orders |-> b.orders,
   seen |-> [o \in Order |-> IF o \in b.orders THEN slot ELSE b.seen[o]]]

\* Mutant: get_best_bid/ask return a popped node without consulting order_sigs.
get_best_orders_unmasked(b, m, l, s) == {n.sig : n \in b.heap[m][l][s]}

\* The orders get_best_orders returns: it pops the heap and drops a node
\* whose signature is not in the index of the same list.
get_best_orders(b, m, l, s) ==
  {o \in b.order_sigs[m][l] : \E n \in b.heap[m][l][s] : n.sig = o}

\* DLOB::get_order: the indexes of all lists of all markets.
get_order(b, o) == \E m \in b.markets, l \in NodeType : o \in b.order_sigs[m][l]
=============================================================================
