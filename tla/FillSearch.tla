----------------------------- MODULE FillSearch -----------------------------
(***************************************************************************)
(* find_nodes_to_fill and find_nodes_to_trigger of dlob/dlob.rs, called by  *)
(* the owner of a book on a book it filled itself.                          *)
(*                                                                         *)
(* A search walks snapshots of the order lists and, for every match, writes *)
(* the filled amounts back into the book: first the bid's (or maker's),     *)
(* under the DashMap guard of its market, then, with that guard still held, *)
(* the ask's (or taker's).  A second guard on a shard that is locked blocks *)
(* the thread for ever.  The amounts a search reads are those of the nodes  *)
(* in the lists of the searched market, its writes go to the lists of the   *)
(* order's own market; `amt' keeps both apart.                              *)
(*                                                                         *)
(* Whether the first list a search reads sweeps the taking lists depends on *)
(* the atomic shared with other clones (DLOB.tla): here it may or may not.  *)
(***************************************************************************)
EXTENDS OrderBook, OrderPricing, SequencesExt

CONSTANTS
  Shard,      \* the DashMap shard of each market
  Query,      \* the arguments of the searches
  Books,      \* bound: the sets of orders inserted into one book
  MaxSlot     \* bound: the slots

QueryRecord ==
  [index: Market, oracle_price: Nat, ts: Nat, fallback_bid: Int, fallback_ask: Int,
   market: [market_type: {"Perp", "Spot"}, paused_operations: SUBSET {"Fill", "AmmFill"},
            fee_adjustment: Int, drawdown: BOOLEAN],
   state: [exchange_status: SUBSET {"FillPaused", "AmmPaused"}, min_perp_auction_duration: Nat,
           maker_rebate_numerator: Nat, maker_rebate_denominator: Nat \ {0}]]

\* An open order, and only those are in a book, has an amount left to fill.
ASSUME SearchAssumption ==
  /\ Query \subseteq QueryRecord
  /\ \A q \in Query : q.market.market_type = "Perp" <=> q.index \in Perp
  /\ IsFiniteSet(Order)
  /\ \A o \in Order : OrderOf[o].base_asset_amount_filled < OrderOf[o].base_asset_amount
  /\ Shard \in [Market -> Nat]
  /\ Books \subseteq SUBSET Order
  /\ MaxSlot \in Nat

\* fallback_bid or fallback_ask: None.
NoFallback == -1

VARIABLES
  slot,     \* the slot the caller passes
  book,     \* the caller's book
  answer    \* what the search on it came to

vars == <<slot, book, answer>>

NoAnswer == [outcome |-> "no search"]

-----------------------------------------------------------------------------
Price(q, o) == get_limit_price(OrderOf[o], q.oracle_price, slot)
Left(amt, m, o) == OrderOf[o].base_asset_amount - amt[m][o]

Unfilled == [m \in Market |-> [o \in Order |-> OrderOf[o].base_asset_amount_filled]]

\* What sorting a set, or popping it from a heap, may give: a sequence of its
\* elements in which none comes after one it goes before.  Elements with equal
\* keys come in any order.
sortings(S, before(_, _)) ==
  {w \in [1..Cardinality(S) -> S] :
     \A i, j \in DOMAIN w : i < j => w[i] # w[j] /\ ~before(w[j], w[i])}

resting_limit_orders(b, q, side) ==
  get_best_orders(b, q.index, "RestingLimit", side)
    \cup get_best_orders(b, q.index, "FloatingLimit", side)

\* Mutant: resting bids come in the order of the asks.
get_resting_limit_orders_unmirrored(b, q, side) ==
  sortings(resting_limit_orders(b, q, side), LAMBDA x, y : Price(q, x) < Price(q, y))

\* get_resting_limit_asks and get_resting_limit_bids: the best price first.
get_resting_limit_orders(b, q, side) ==
  sortings(resting_limit_orders(b, q, side), LAMBDA x, y :
    IF side = "asks" THEN Price(q, x) < Price(q, y) ELSE Price(q, x) > Price(q, y))

taking_orders(b, q, side) ==
  get_best_orders(b, q.index, "TakingLimit", side)
    \cup get_best_orders(b, q.index, "Market", side)

\* The latest slot first.
get_taking_orders(b, q, side) ==
  sortings(taking_orders(b, q, side), LAMBDA x, y : OrderOf[x].slot > OrderOf[y].slot)

\* What the four lists a search reads, each several times, may be.
Lists(b, q) ==
  {[resting |-> [asks |-> rest_asks, bids |-> rest_bids],
    taking |-> [asks |-> take_asks, bids |-> take_bids]] :
     rest_asks \in get_resting_limit_orders(b, q, "asks"),
     rest_bids \in get_resting_limit_orders(b, q, "bids"),
     take_asks \in get_taking_orders(b, q, "asks"),
     take_bids \in get_taking_orders(b, q, "bids")}

\* Comparing two nodes asks both for their price.
SortPanics(q, nodes) == Len(nodes) >= 2 /\ \E i \in DOMAIN nodes : Price(q, nodes[i]) < 0

-----------------------------------------------------------------------------
(* A search so far: the nodes found, the amounts in the book, whether it is  *)
(* still running, and whether the inner loop was left.  `matched', which no  *)
(* step reads, adds up what the nodes found match of each order.             *)
Start == [outcome |-> "running", nodes |-> <<>>, amt |-> Unfilled, left |-> FALSE,
          matched |-> [o \in Order |-> 0]]

Panic(st) == [st EXCEPT !.outcome = "panicked", !.left = TRUE]
NodeToFill(o, makers) == [node |-> o, maker_nodes |-> makers]

\* Orderlist::update finds an order on the list of its own market that its type
\* at this slot names, if it is indexed there; any other is left alone.
update_finds(b, o) ==
  o \in get_best_orders(b, OrderOf[o].market, node_type(OrderOf[o], slot), sub_type(OrderOf[o]))

update(b, amt, o, filled) ==
  IF update_finds(b, o) THEN [amt EXCEPT ![OrderOf[o].market][o] = filled] ELSE amt

match(matched, first, second, base_filled) ==
  [matched EXCEPT ![first] = @ + base_filled, ![second] = @ + base_filled]

\* Mutant: the first order's amount, too, is the one before the loops.
fill_snapshot(b, q, st, first, second, second_left, node) ==
  LET base_filled == lesser(Left(Unfilled, q.index, first), second_left)
      half == update(b, st.amt, first, Unfilled[q.index][first] + base_filled)
  IN IF Shard[OrderOf[first].market] = Shard[OrderOf[second].market]
     THEN [st EXCEPT !.outcome = "blocked", !.amt = half, !.left = TRUE]
     ELSE [outcome |-> st.outcome,
           nodes |-> Append(st.nodes, node),
           amt |-> update(b, half, second,
                          OrderOf[second].base_asset_amount - second_left + base_filled),
           left |-> base_filled = second_left,
           matched |-> match(st.matched, first, second, base_filled)]

\* Mutant: the second amount is raised from what is in the book by then.
fill_reread(b, q, st, first, second, second_left, node) ==
  LET base_filled == lesser(Left(st.amt, q.index, first), second_left)
      half == update(b, st.amt, first, st.amt[q.index][first] + base_filled)
  IN IF Shard[OrderOf[first].market] = Shard[OrderOf[second].market]
     THEN [st EXCEPT !.outcome = "blocked", !.amt = half, !.left = TRUE]
     ELSE [outcome |-> st.outcome,
           nodes |-> Append(st.nodes, node),
           amt |-> update(b, half, second, half[q.index][second] + base_filled),
           left |-> base_filled = second_left,
           matched |-> match(st.matched, first, second, base_filled)]

\* The two write-backs of a match and its node.  second_left is what was left
\* of the second order when the outer list was taken.
fill(b, q, st, first, second, second_left, node) ==
  LET base_filled == lesser(Left(st.amt, q.index, first), second_left)
      half == update(b, st.amt, first, st.amt[q.index][first] + base_filled)
  IN IF Shard[OrderOf[first].market] = Shard[OrderOf[second].market]
     THEN [st EXCEPT !.outcome = "blocked", !.amt = half, !.left = TRUE]
     ELSE [outcome |-> st.outcome,
           nodes |-> Append(st.nodes, node),
           amt |-> update(b, half, second,
                          OrderOf[second].base_asset_amount - second_left + base_filled),
           left |-> base_filled = second_left,
           matched |-> match(st.matched, first, second, base_filled)]

-----------------------------------------------------------------------------
(* find_crossing_resting_limit_orders.                                      *)

\* Mutant: an order may be matched with another of its user.
crossing_bid_own(b, q, st, ask, ask_left, bid) ==
  IF st.left THEN st
  ELSE IF Price(q, bid) < 0 THEN Panic(st)
  ELSE IF Price(q, bid) < Price(q, ask) THEN [st EXCEPT !.left = TRUE]
  ELSE IF no_taker(OrderOf[ask], OrderOf[bid]) THEN st
  ELSE fill(b, q, st, bid, ask, ask_left,
            IF ask_takes(OrderOf[ask], OrderOf[bid]) THEN NodeToFill(ask, <<bid>>)
                                                     ELSE NodeToFill(bid, <<ask>>))

crossing_bid(b, q, st, ask, ask_left, bid) ==
  LET ask_order == OrderOf[ask]
      bid_order == OrderOf[bid]
  IN IF st.left THEN st
     ELSE IF Price(q, bid) < 0 THEN Panic(st)
     ELSE IF Price(q, bid) < Price(q, ask) THEN [st EXCEPT !.left = TRUE]
     ELSE IF bid_order.user = ask_order.user \/ no_taker(ask_order, bid_order) THEN st
     ELSE fill(b, q, st, bid, ask, ask_left,
               IF ask_takes(ask_order, bid_order) THEN NodeToFill(ask, <<bid>>)
                                                  ELSE NodeToFill(bid, <<ask>>))

\* The bids are read for every ask, the amounts of the asks before the first.
with_ask(b, q, st, bids, s, ask) ==
  LET ask_left == Left(st.amt, q.index, ask)
  IN IF s.outcome # "running" THEN s
     ELSE IF Price(q, ask) < 0 \/ SortPanics(q, bids) THEN Panic(s)
     ELSE FoldLeft(LAMBDA t, bid : crossing_bid(b, q, t, ask, ask_left, bid),
                   [s EXCEPT !.left = FALSE], bids)

find_crossing_resting_limit_orders(b, q, st, lists) ==
  LET asks == lists.resting["asks"]
      bids == lists.resting["bids"]
  IN IF SortPanics(q, asks) THEN Panic(st)
     ELSE FoldLeft(LAMBDA s, ask : with_ask(b, q, st, bids, s, ask), st, asks)

(* find_taking_nodes_crossing_maker_nodes, with the does_cross closure of    *)
(* either side.                                                              *)
does_cross(q, taker_side, taker_price, maker_price) ==
  IF taker_side = "asks"
  THEN /\ taker_price <= maker_price
       /\ ~(q.index \notin Perp /\ q.fallback_bid # NoFallback /\ maker_price < q.fallback_bid)
  ELSE /\ taker_price >= maker_price
       /\ ~(q.index \notin Perp /\ q.fallback_ask # NoFallback /\ maker_price > q.fallback_ask)

crossing_maker(b, q, st, side, taker, taker_left, maker) ==
  IF st.left \/ OrderOf[taker].user = OrderOf[maker].user THEN st
  ELSE IF Price(q, taker) < 0 \/ Price(q, maker) < 0 THEN Panic(st)
  ELSE IF ~does_cross(q, side, Price(q, taker), Price(q, maker)) THEN st
  ELSE fill(b, q, st, maker, taker, taker_left, NodeToFill(taker, <<maker>>))

with_taker(b, q, st, side, makers, s, taker) ==
  LET taker_left == Left(st.amt, q.index, taker)
  IN IF s.outcome # "running" THEN s
     ELSE IF SortPanics(q, makers) THEN Panic(s)
     ELSE FoldLeft(LAMBDA t, maker : crossing_maker(b, q, t, side, taker, taker_left, maker),
                   [s EXCEPT !.left = FALSE], makers)

find_taking_nodes_crossing_maker_nodes(b, q, st, side, lists) ==
  LET makers == lists.resting[IF side = "asks" THEN "bids" ELSE "asks"]
  IN FoldLeft(LAMBDA s, taker : with_taker(b, q, st, side, makers, s, taker),
              st, lists.taking[side])

-----------------------------------------------------------------------------
min_auction_duration(q) == IF q.index \in Perp THEN q.state.min_perp_auction_duration ELSE 0

\* `crosses' is a set: the orders the predicate given holds of.
crossing_fallback(q, crosses, s, o) ==
  IF s.outcome # "running" \/ (q.index \notin Perp /\ OrderOf[o].post_only) THEN s
  ELSE IF Price(q, o) < 0 THEN Panic(s)
  ELSE IF /\ o \in crosses
          /\ \/ q.index \notin Perp
             \/ is_fallback_available(OrderOf[o], min_auction_duration(q), slot)
       THEN [s EXCEPT !.nodes = Append(@, NodeToFill(o, <<>>))]
       ELSE s

find_nodes_crossing_fallback_liquidity(q, st, nodes, crosses) ==
  FoldLeft(LAMBDA s, o : crossing_fallback(q, crosses, s, o), st, nodes)

rebate(q, price) ==
  quotient(price * calculate_maker_rebate(q.market, q.state), q.state.maker_rebate_denominator)

\* The resting orders of a side against the vAMM; the rebate is taken off the
\* price on both sides.
resting_to_fallback(q, st, side, lists) ==
  LET nodes == lists.resting[side]
      fallback == IF side = "asks" THEN q.fallback_bid ELSE q.fallback_ask
      limit == fallback - rebate(q, fallback)
      crosses == {o \in Order : IF side = "asks" THEN Price(q, o) < limit ELSE Price(q, o) > limit}
  IN IF st.outcome # "running" \/ fallback = NoFallback \/ is_amm_paused(q.market, q.state) THEN st
     ELSE IF SortPanics(q, nodes) THEN Panic(st)
     ELSE find_nodes_crossing_fallback_liquidity(q, st, nodes, crosses)

taking_to_fallback(q, st, side, lists) ==
  LET fallback == IF side = "asks" THEN q.fallback_bid ELSE q.fallback_ask
      crosses == {o \in Order :
                    IF side = "asks" THEN Price(q, o) <= fallback ELSE Price(q, o) > fallback}
  IN IF st.outcome # "running" \/ fallback = NoFallback \/ is_amm_paused(q.market, q.state) THEN st
     ELSE find_nodes_crossing_fallback_liquidity(q, st, lists.taking[side], crosses)

find_resting_orders_to_fill(b, q, st, lists) ==
  LET crossing == find_crossing_resting_limit_orders(b, q, st, lists)
  IN resting_to_fallback(q, resting_to_fallback(q, crossing, "asks", lists), "bids", lists)

find_taking_orders_to_fill(b, q, st, lists) ==
  LET asks == find_taking_nodes_crossing_maker_nodes(b, q, st, "asks", lists)
      bids == find_taking_nodes_crossing_maker_nodes(b, q, asks, "bids", lists)
  IN taking_to_fallback(q, taking_to_fallback(q, bids, "asks", lists), "bids", lists)

\* Mutant: the taking lists are not looked through.
find_expired_orders_to_fill_limit(b, q) ==
  LET nodes == UNION {b.heap[q.index][l][s] : l \in {"RestingLimit", "FloatingLimit", "Market"},
                                              s \in Side}
  IN {n.sig : n \in {k \in nodes : is_order_expired(OrderOf[k.sig], q.ts)}}

\* Every heap but the trigger orders', without a look at the index.
find_expired_orders_to_fill(b, q) ==
  LET nodes == UNION {b.heap[q.index][l][s] : l \in NodeType \ {"Trigger"}, s \in Side}
  IN {n.sig : n \in {k \in nodes : is_order_expired(OrderOf[k.sig], q.ts)}}

with_makers(o, makers, n) == IF n.node = o THEN makers \o n.maker_nodes ELSE makers

\* One entry per order, with the makers of all its nodes.
merge_and_deduplicate_nodes(nodes) ==
  [o \in {nodes[i].node : i \in DOMAIN nodes} |->
     FoldLeft(LAMBDA makers, n : with_makers(o, makers, n), <<>>, nodes)]

\* What find_nodes_to_fill returns when its searches have come to st; b is the
\* book the expired orders were collected from.  to_vamm and matched are for
\* the properties: merging hides which orders were to be filled by the vAMM, and
\* by how much.
fill_answer(b, q, st) ==
  [outcome |-> IF st.outcome = "running" THEN "returned" ELSE st.outcome,
   query |-> q,
   nodes_to_fill |-> merge_and_deduplicate_nodes(st.nodes),
   expired |-> find_expired_orders_to_fill(b, q),
   amt |-> st.amt,
   to_vamm |-> {n.node : n \in {k \in Range(st.nodes) : k.maker_nodes = <<>>}},
   matched |-> st.matched]

\* Fills not paused, on a book whose lists are b when the expired orders are
\* collected and swept when the first resting list was read.
find_nodes_to_fill(b, swept, q, lists) ==
  fill_answer(b, q, find_taking_orders_to_fill(swept, q,
                      find_resting_orders_to_fill(swept, q, Start, lists), lists))

trigger_orders(b, q, side) ==
  sortings(b.heap[q.index]["Trigger"][side], LAMBDA x, y :
    pops_before(<<"Trigger", side>>, OrderOf[x.sig], x.node_type, OrderOf[y.sig], y.node_type))

\* The heap of a trigger list is popped up to the first order that does not
\* trigger.
triggered_prefix(heap, q, side) ==
  LET triggers(n) == LET price == OrderOf[n.sig].trigger_price
                     IN IF side = "bids" THEN price < q.oracle_price ELSE price > q.oracle_price
      popped == {k \in DOMAIN heap : \A i \in 1..k : triggers(heap[i])}
  IN {heap[k].sig : k \in popped}

find_nodes_to_trigger(b, q, above, below) ==
  IF q.state.exchange_status # {} \/ q.index \notin b.markets
  THEN [outcome |-> "none", query |-> q]
  ELSE [outcome |-> "triggers", query |-> q,
        nodes_to_trigger |-> triggered_prefix(above, q, "bids") \cup triggered_prefix(below, q, "asks")]

-----------------------------------------------------------------------------
Init ==
  /\ slot = 0
  /\ book = EmptyBook
  /\ answer = NoAnswer

Tick ==
  /\ slot < MaxSlot
  /\ answer = NoAnswer
  /\ slot' = slot + 1
  /\ UNCHANGED <<book, answer>>

InsertOrder(o) ==
  /\ answer = NoAnswer
  /\ o \notin book.orders
  /\ \E orders \in Books : book.orders \cup {o} \subseteq orders
  /\ book' = insert_order(book, o, slot)
  /\ UNCHANGED <<slot, answer>>

\* Another query of the same book, at an earlier slot than the search.
Sweep ==
  /\ answer = NoAnswer
  /\ \E rank \in Visits : book' = update_resting_limit_orders(book, slot, rank)
  /\ UNCHANGED <<slot, answer>>

FindNodesToFill(q) ==
  /\ answer = NoAnswer
  /\ \/ /\ is_fill_paused(q.market, q.state)
        /\ answer' = [outcome |-> "none", query |-> q]
        /\ UNCHANGED book
     \/ /\ ~is_fill_paused(q.market, q.state)
        /\ \E swept \in {book} \cup {update_resting_limit_orders(book, slot, rank) : rank \in Visits} :
             /\ \E lists \in Lists(swept, q) :
                  answer' = find_nodes_to_fill(book, swept, q, lists)
             /\ book' = swept
  /\ UNCHANGED slot

FindNodesToTrigger(q) ==
  /\ answer = NoAnswer
  /\ \E above \in trigger_orders(book, q, "bids"), below \in trigger_orders(book, q, "asks") :
       answer' = find_nodes_to_trigger(book, q, above, below)
  /\ UNCHANGED <<slot, book>>

\* The caller goes on with the next clone, unless its thread is gone.
NextBook ==
  /\ answer.outcome \in {"none", "returned", "triggers"}
  /\ answer' = NoAnswer
  /\ book' = EmptyBook
  /\ UNCHANGED slot

Next ==
  \/ Tick
  \/ \E o \in Order : InsertOrder(o)
  \/ Sweep
  \/ \E q \in Query : FindNodesToFill(q) \/ FindNodesToTrigger(q)
  \/ NextBook

Spec == Init /\ [][Next]_vars

-----------------------------------------------------------------------------
(* Two orders of the searched market a search should bring together: of      *)
(* different users, not both post-only, one of them resting, with crossing   *)
(* prices, and on a spot market with a maker no worse than the vAMM.  The    *)
(* search holds the guard of the one it fills last.                          *)
Strangers(x, y) == OrderOf[x].user # OrderOf[y].user

Crossed(b, q) ==
  {p \in resting_limit_orders(b, q, "asks") \X resting_limit_orders(b, q, "bids") :
     /\ ~no_taker(OrderOf[p[1]], OrderOf[p[2]])
     /\ Strangers(p[1], p[2]) /\ Price(q, p[1]) <= Price(q, p[2])}
  \cup {p \in taking_orders(b, q, "asks") \X resting_limit_orders(b, q, "bids") :
          /\ Strangers(p[1], p[2]) /\ Price(q, p[1]) <= Price(q, p[2])
          /\ q.index \in Perp \/ q.fallback_bid <= Price(q, p[2])}
  \cup {p \in taking_orders(b, q, "bids") \X resting_limit_orders(b, q, "asks") :
          /\ Strangers(p[1], p[2]) /\ Price(q, p[1]) >= Price(q, p[2])
          /\ q.index \in Perp \/ q.fallback_ask = NoFallback \/ q.fallback_ask >= Price(q, p[2])}

SameShard(p) == Shard[OrderOf[p[1]].market] = Shard[OrderOf[p[2]].market]

(* A search that comes back leaves no crossed pair on one shard, unless the  *)
(* order it iterates over is filled already: sorting the makers by price and *)
(* leaving the loop at the first that does not cross, and the two guards     *)
(* taken at once, decide together that a search returns only from a book     *)
(* whose own orders do not cross (dlob.rs:709-818, 857-955).  The amount of  *)
(* that order is known only if the write-backs are what the search reads: it *)
(* is an order of the searched market, and no taker that came to rest since  *)
(* the last sweep and is looked for among the resting orders.                *)
ReturnsOnlyUncrossed ==
  answer.outcome = "returned" =>
    \A p \in Crossed(book, answer.query) :
      SameShard(p) /\ OrderOf[p[1]].market = answer.query.index /\ update_finds(book, p[1])
        => answer.amt[answer.query.index][p[1]] = OrderOf[p[1]].base_asset_amount

(* The other half: a search blocks on its own guard only on a crossed pair   *)
(* (dlob.rs:761 and 783, 907 and 929), and leaves the book with the pair     *)
(* half filled: the amount of the one order is written, the other's is not.  *)
BlocksHalfway ==
  answer.outcome = "blocked" =>
    \E p \in Crossed(book, answer.query) :
      LET amount(o) == answer.amt[OrderOf[o].market][o]
      IN /\ SameShard(p)
         /\ amount(p[2]) > OrderOf[p[2]].base_asset_amount_filled
         /\ amount(p[1]) < OrderOf[p[1]].base_asset_amount

(* The remaining amount of an ask or taker is read once, before the loop     *)
(* that matches it (dlob.rs:751), and it may be matched again and again      *)
(* beyond its size.  A resting bid's is not: bids are read again for every   *)
(* ask and every taker (dlob.rs:728, 866), so after a search, whatever it    *)
(* was matched with in however many loops, the book has what all its matches *)
(* come to, and that is no more than its size.                               *)
BidsMatchedWithinSize ==
  answer.outcome = "returned" =>
    \A o \in resting_limit_orders(book, answer.query, "bids") :
      OrderOf[o].market = answer.query.index =>
        LET filled == OrderOf[o].base_asset_amount_filled + answer.matched[o]
        IN /\ answer.amt[answer.query.index][o] = filled
           /\ filled <= OrderOf[o].base_asset_amount

(* Remaining amounts are taken from snapshots that the loop itself makes     *)
(* stale (dlob.rs:749-755), yet no amount written exceeds its order.         *)
NeverOverfilled ==
  "amt" \in DOMAIN answer =>
    \A m \in Market, o \in Order : answer.amt[m][o] \in 0..OrderOf[o].base_asset_amount

(* Neither a resting nor a taking order, matched with makers besides or not, *)
(* is sent to the vAMM while the exchange pauses it, nor, on a perp market,  *)
(* while the market pauses its fills or is in drawdown, or before the        *)
(* order's minimal auction is over (dlob.rs:480-527, 606-644, 837).          *)
FallbackInTime ==
  "to_vamm" \in DOMAIN answer =>
    \A o \in answer.to_vamm :
      LET q == answer.query
      IN /\ "AmmPaused" \notin q.state.exchange_status
         /\ q.index \in Perp =>
              /\ "AmmFill" \notin q.market.paused_operations
              /\ ~q.market.drawdown
              /\ \/ q.state.min_perp_auction_duration = 0
                 \/ slot > OrderOf[o].slot + q.state.min_perp_auction_duration

(* Wherever insertions and sweeps have filed them, every expired order of    *)
(* the searched market is returned (dlob.rs:647-707).                        *)
ExpiredAllReturned ==
  answer.outcome = "returned" =>
    \A o \in book.orders :
      OrderOf[o].market = answer.query.index /\ is_order_expired(OrderOf[o], answer.query.ts)
        => o \in answer.expired

(* Popping the trigger heaps up to the first order that does not trigger     *)
(* finds all that do (dlob.rs:382-398, market.rs:40).                        *)
TriggersExact ==
  answer.outcome = "triggers" =>
    answer.nodes_to_trigger =
      {o \in book.orders :
         /\ OrderOf[o].market = answer.query.index
         /\ is_inactive_trigger_order(OrderOf[o])
         /\ \/ /\ OrderOf[o].trigger_condition = "Above"
               /\ OrderOf[o].trigger_price < answer.query.oracle_price
            \/ /\ OrderOf[o].trigger_condition = "Below"
               /\ OrderOf[o].trigger_price > answer.query.oracle_price}

(* While an auction runs, its price comes no further from the auction's end  *)
(* price with every slot, and its last slot has that price                   *)
(* (auction.rs:37-61): the formulas are no interpolation from the start      *)
(* price, but they do end where they should.                                 *)
Distance(order, s) ==
  LET d == auction_offset(order, s) - order.auction_end_price IN IF d < 0 THEN -d ELSE d

AuctionEndsAtEndPrice ==
  [][\A o \in Order :
       LET order == OrderOf[o]
       IN has_auction_price(order, slot') /\ slot >= order.slot =>
            /\ Distance(order, slot') <= Distance(order, slot)
            /\ slot' = order.slot + order.auction_duration => Distance(order, slot') = 0]_vars
===============================================================================
