---------------------------- MODULE MCFillSearch ----------------------------
(* An instance of FillSearch for TLC: two perp markets on different shards    *)
(* and a spot market, and books of a few orders each.                         *)
EXTENDS FillSearch

Limit(m, u, dir, price, amount) ==
  [market |-> m, user |-> u, status |-> "Open", direction |-> dir, order_type |-> "Limit",
   trigger_condition |-> "Above", post_only |-> FALSE, slot |-> 0, auction_duration |-> 0,
   auction_start_price |-> 0, auction_end_price |-> 0, oracle_price_offset |-> 0,
   price |-> price, trigger_price |-> 0, max_ts |-> 0,
   base_asset_amount |-> amount, base_asset_amount_filled |-> 0]

Auction(order, dur, start, end) ==
  [order EXCEPT !.auction_duration = dur, !.auction_start_price = start, !.auction_end_price = end]

Trigger(m, cond, price) ==
  [Limit(m, "u1", "Long", 10, 1) EXCEPT
     !.order_type = "TriggerMarket", !.trigger_condition = cond, !.trigger_price = price]

MCOrderOf ==
  [ask      |-> Auction(Limit("perp1", "u1", "Short", 10, 5), 1, 0, 0),
   bid_low  |-> Limit("perp1", "u2", "Long", 9, 2),
   bid_high |-> [Limit("perp1", "u2", "Long", 11, 2) EXCEPT !.post_only = TRUE],
   own_bid  |-> Limit("perp1", "u1", "Long", 12, 1),
   far_bid  |-> Auction(Limit("perp2", "u2", "Long", 12, 3), 1, 0, 0),
   far_bid2 |-> Auction(Limit("perp2", "u2", "Long", 11, 5), 1, 0, 0),
   own_long |-> Limit("perp1", "u1", "Long", 12, 4),
   far_ask  |-> Auction(Limit("perp2", "u2", "Short", 10, 3), 1, 0, 0),
   far_ask2 |-> Auction(Limit("perp2", "u2", "Short", 11, 2), 1, 0, 0),
   slow_ask |-> Auction(Limit("perp1", "u1", "Short", 10, 2), 2, 0, 0),
   float    |-> [Limit("perp1", "u2", "Short", 0, 2) EXCEPT !.oracle_price_offset = -2],
   deep     |-> [Limit("perp1", "u1", "Long", 0, 2) EXCEPT !.oracle_price_offset = -30],
   market   |-> [Auction(Limit("perp1", "u2", "Short", 0, 4), 2, 14, 8) EXCEPT
                   !.order_type = "Market", !.slot = 1, !.max_ts = 5],
   oracle   |-> [Auction(Limit("perp1", "u1", "Long", 0, 4), 3, -3, 2) EXCEPT
                   !.order_type = "Oracle", !.oracle_price_offset = 1],
   expiring |-> [Auction(Limit("perp1", "u2", "Long", 8, 1), 1, 0, 0) EXCEPT !.max_ts = 5],
   above_5  |-> Trigger("perp1", "Above", 5),
   above_20 |-> Trigger("perp1", "Above", 20),
   below_15 |-> Trigger("perp1", "Below", 15),
   below_6  |-> Trigger("perp1", "Below", 6),
   spot_ask |-> Limit("spot1", "u1", "Short", 10, 2),
   spot_buy |-> [Auction(Limit("spot1", "u2", "Long", 0, 2), 3, 12, 12) EXCEPT !.order_type = "Market"]]

MCBooks ==
  {{"ask", "bid_low", "bid_high"}, {"ask", "own_bid", "market"},
   {"ask", "far_bid", "far_bid2"}, {"ask", "far_bid2", "bid_high"},
   {"float", "deep", "expiring"},
   {"slow_ask", "far_bid", "bid_high"}, {"own_long", "far_ask", "far_ask2"},
   {"float", "market", "bid_low"}, {"oracle", "ask", "bid_low"},
   {"above_5", "above_20", "below_15", "below_6"}, {"spot_ask", "spot_buy"}}

PerpMarket == [market_type |-> "Perp", paused_operations |-> {}, fee_adjustment |-> -50,
               drawdown |-> FALSE]
ActiveState == [exchange_status |-> {}, min_perp_auction_duration |-> 1,
                maker_rebate_numerator |-> 2, maker_rebate_denominator |-> 10]

PerpQuery ==
  [index |-> "perp1", oracle_price |-> 12, ts |-> 21, fallback_bid |-> 11, fallback_ask |-> 10,
   market |-> PerpMarket, state |-> ActiveState]

MCQuery ==
  {PerpQuery,
   [PerpQuery EXCEPT !.fallback_bid = NoFallback, !.fallback_ask = NoFallback, !.ts = 6],
   [PerpQuery EXCEPT !.market.paused_operations = {"AmmFill"}],
   [PerpQuery EXCEPT !.market.drawdown = TRUE],
   [PerpQuery EXCEPT !.state.exchange_status = {"AmmPaused"}],
   [PerpQuery EXCEPT !.state.exchange_status = {"FillPaused"}],
   [PerpQuery EXCEPT !.index = "spot1",
      !.market = [PerpMarket EXCEPT !.market_type = "Spot", !.fee_adjustment = 0]],
   [PerpQuery EXCEPT !.index = "spot1", !.fallback_ask = 5,
      !.market = [PerpMarket EXCEPT !.market_type = "Spot", !.fee_adjustment = 0]]}

MCShard == [perp1 |-> 1, perp2 |-> 2, spot1 |-> 1]
===============================================================================
