---------------------------- MODULE OrderPricing ----------------------------
(***************************************************************************)
(* Prices, expiry and priorities of orders: math/order.rs, math/auction.rs, *)
(* the node comparisons of dlob/dlob_node.rs, the role assignment of        *)
(* dlob/utils.rs and the market switches of market_operations.rs.           *)
(*                                                                         *)
(* A price is a u64 in the code: a conversion of a negative number, and an  *)
(* order with no price at all, panic.  Both are a negative price here.      *)
(***************************************************************************)
EXTENDS OrderMath

NoPrice == -1

\* Integer division truncates towards zero.
quotient(a, b) == IF a >= 0 THEN a \div b ELSE -((-a) \div b)

lesser(a, b) == IF a <= b THEN a ELSE b

-----------------------------------------------------------------------------
\* Mutant: the elapsed slots are counted from the end of the auction.
auction_offset_reversed(order, slot) ==
  LET num == order.slot + order.auction_duration - slot
      den == order.auction_duration
  IN IF order.direction = "Long"
     THEN order.auction_start_price
            + (order.auction_end_price - quotient(order.auction_start_price * num, den))
     ELSE order.auction_start_price
            - (order.auction_start_price - quotient(order.auction_end_price * num, den))

\* What both auction formulas compute, as their operators associate: the
\* product with the progress is subtracted from one end price alone.
auction_offset(order, slot) ==
  LET num == lesser(slot - order.slot, order.auction_duration)
      den == order.auction_duration
  IN IF order.direction = "Long"
     THEN order.auction_start_price
            + (order.auction_end_price - quotient(order.auction_start_price * num, den))
     ELSE order.auction_start_price
            - (order.auction_start_price - quotient(order.auction_end_price * num, den))

get_auction_price(order, slot, oracle_price) ==
  IF order.auction_duration = 0 THEN order.auction_start_price
  ELSE IF order.order_type = "Oracle" THEN oracle_price + auction_offset(order, slot)
  ELSE auction_offset(order, slot)

has_auction_price(order, slot) ==
  /\ ~is_auction_complete(order, slot)
  /\ order.auction_start_price # 0 \/ order.auction_end_price # 0

\* With no fallback price, as every caller in the book passes it.
get_limit_price(order, oracle_price, slot) ==
  IF has_auction_price(order, slot) THEN get_auction_price(order, slot, oracle_price)
  ELSE IF order.oracle_price_offset # 0 THEN oracle_price + order.oracle_price_offset
  ELSE IF order.price = 0 THEN NoPrice
  ELSE order.price

ExpiryBuffer == 15

\* With enforce_buffer, as the book calls it.
is_order_expired(order, ts) ==
  /\ ~must_be_triggered(order)
  /\ order.status = "Open"
  /\ order.max_ts # 0
  /\ ts > order.max_ts + (IF is_limit_order(order) THEN ExpiryBuffer ELSE 0)

is_fallback_available(order, min_auction_duration, slot) ==
  \/ min_auction_duration = 0
  \/ order.slot + min_auction_duration < slot

-----------------------------------------------------------------------------
(* Nodes.  The best node of a heap has the greatest sort value, or the least *)
(* one when the heap sorts ascending; equal values go by the order's slot.   *)
Ascending == {<<"RestingLimit", "asks">>, <<"FloatingLimit", "asks">>,
              <<"TakingLimit", "bids">>, <<"TakingLimit", "asks">>,
              <<"Market", "bids">>, <<"Market", "asks">>, <<"Trigger", "bids">>}

sort_value(order, type) ==
  CASE type \in {"TakingLimit", "Market"} -> order.slot
    [] type = "RestingLimit" -> order.price
    [] type = "FloatingLimit" -> order.oracle_price_offset
    [] type = "Trigger" -> order.trigger_price

\* Mutant: every heap sorts ascending.
pops_before_ascending(list, x, x_type, y, y_type) ==
  \/ sort_value(x, x_type) < sort_value(y, y_type)
  \/ sort_value(x, x_type) = sort_value(y, y_type) /\ x.slot < y.slot

\* Order x, filed as x_type, leaves the heap of a (node type, side) before y.
pops_before(list, x, x_type, y, y_type) ==
  LET less(a, a_type, b, b_type) ==
        \/ sort_value(a, a_type) < sort_value(b, b_type)
        \/ sort_value(a, a_type) = sort_value(b, b_type) /\ a.slot < b.slot
  IN IF list \in Ascending THEN less(x, x_type, y, y_type) ELSE less(y, y_type, x, x_type)

\* The node determine_maker_and_taker returns second, its taker.
ask_takes(ask, bid) ==
  IF bid.post_only THEN FALSE
  ELSE \/ ask.post_only
       \/ ask.slot + ask.auction_duration <= bid.slot + bid.auction_duration

\* None.
no_taker(ask, bid) == bid.post_only /\ ask.post_only

-----------------------------------------------------------------------------
(* Market switches.  A market is a record with its market_type, the paused   *)
(* operations, fee_adjustment and drawdown (perp only); the state has the    *)
(* paused features of exchange_status and the first fee tier.                *)
is_fill_paused(market, state) ==
  "FillPaused" \in state.exchange_status \/ "Fill" \in market.paused_operations

\* Mutant: the switches of the market are not asked.
is_amm_paused_exchange(market, state) == "AmmPaused" \in state.exchange_status

is_amm_paused(market, state) ==
  \/ "AmmPaused" \in state.exchange_status
  \/ /\ market.market_type = "Perp"
     /\ "AmmFill" \in market.paused_operations \/ market.drawdown

\* The numerator, over state.maker_rebate_denominator.
calculate_maker_rebate(market, state) ==
  LET num == state.maker_rebate_numerator
  IN IF market.market_type = "Perp" /\ market.fee_adjustment # 0
     THEN num + quotient(num * market.fee_adjustment, 100)
     ELSE num
=============================================================================
