------------------------------- MODULE MCDLOB -------------------------------
(* An instance of DLOB for TLC.                                               *)
EXTENDS DLOB

LimitOrder(m, dir, s, dur) ==
  [market |-> m, user |-> "u1", status |-> "Open", direction |-> dir, order_type |-> "Limit", trigger_condition |-> "Above",
   post_only |-> FALSE, slot |-> s, auction_duration |-> dur, auction_start_price |-> 0,
   auction_end_price |-> 0, oracle_price_offset |-> 0, price |-> 10, trigger_price |-> 0,
   max_ts |-> 0, base_asset_amount |-> 1, base_asset_amount_filled |-> 0]

(* Orders of two perp markets and one spot market; they rest from slot 2 on. *)
MCOrderOf ==
  [p1_auction |-> LimitOrder("perp1", "Long", 0, 1),
   p2_triggered |-> [LimitOrder("perp2", "Long", 0, 1) EXCEPT
                       !.order_type = "TriggerLimit", !.trigger_price = 12,
                       !.trigger_condition = "TriggeredAbove"],
   s1_auction |-> LimitOrder("spot1", "Long", 0, 1)]
=============================================================================
