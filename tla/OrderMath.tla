------------------------------ MODULE OrderMath ------------------------------
(***************************************************************************)
(* The pure order predicates of math/order.rs, math/auction.rs and          *)
(* dlob/market.rs.  An order is a record with the fields of the Drift       *)
(* Order these functions read.                                              *)
(***************************************************************************)
EXTENDS Integers

Direction == {"Long", "Short"}
OrderStatus == {"Init", "Open", "Filled", "Canceled"}
OrderType == {"Market", "Limit", "TriggerMarket", "TriggerLimit", "Oracle"}
TriggerCondition == {"Above", "Below", "TriggeredAbove", "TriggeredBelow"}

\* The Orderlist a node is filed under, and its two heaps.
NodeType == {"RestingLimit", "FloatingLimit", "TakingLimit", "Market", "Trigger"}
Side == {"bids", "asks"}

-----------------------------------------------------------------------------
\* Methods of the external Drift Order, as the code in src/ uses them.
must_be_triggered(order) == order.order_type \in {"TriggerMarket", "TriggerLimit"}

triggered(order) == order.trigger_condition \in {"TriggeredAbove", "TriggeredBelow"}

is_limit_order(order) == order.order_type \in {"Limit", "TriggerLimit"}

-----------------------------------------------------------------------------
is_auction_complete(order, slot) ==
  \/ order.auction_duration = 0
  \/ order.slot + order.auction_duration < slot

(* A post-only or auctioned-out limit order rests; a triggered limit order   *)
(* whose trigger price is on the wrong side of its price never does.         *)
is_resting_limit_order(order, slot) ==
  /\ is_limit_order(order)
  /\ \/ /\ order.order_type = "TriggerLimit"
        /\ ~(order.direction = "Long" /\ order.trigger_price < order.price)
        /\ ~(order.direction = "Short" /\ order.trigger_price > order.price)
        /\ is_auction_complete(order, slot)
     \/ /\ order.order_type # "TriggerLimit"
        /\ order.post_only \/ is_auction_complete(order, slot)

is_inactive_trigger_order(order) == must_be_triggered(order) /\ ~triggered(order)

\* The two halves of get_node_subtype_and_type.
node_type(order, slot) ==
  IF is_inactive_trigger_order(order) THEN "Trigger"
  ELSE IF order.order_type \in {"Market", "TriggerMarket", "Oracle"} THEN "Market"
  ELSE IF order.oracle_price_offset # 0 THEN "FloatingLimit"
  ELSE IF is_resting_limit_order(order, slot) THEN "RestingLimit"
  ELSE "TakingLimit"

sub_type(order) ==
  IF is_inactive_trigger_order(order)
  THEN IF order.trigger_condition = "Above" THEN "bids" ELSE "asks"
  ELSE IF order.direction = "Long" THEN "bids" ELSE "asks"
=============================================================================
