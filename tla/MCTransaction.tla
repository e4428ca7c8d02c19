---------------------------- MODULE MCTransaction ----------------------------
(* Two spot and four perp markets in words of three bits, so that perp 3     *)
(* shares a bit with perp 0; so does perp 4, cast to the range 0..3, which   *)
(* is unknown.  Spot 1 and perp 0 share their oracle, and keys are not in    *)
(* the order of the indexes.                                                 *)
EXTENDS TransactionBuilder

Spot(i) == [kind |-> "spot", index |-> i]
Perp(i) == [kind |-> "perp", index |-> i]

MCKeyOf ==
  (Spot(0) :> 16) @@ (Spot(1) :> 12) @@ (Perp(0) :> 15) @@ (Perp(1) :> 11)
    @@ (Perp(2) :> 14) @@ (Perp(3) :> 13)

MCOracleOf ==
  (Spot(0) :> 23) @@ (Spot(1) :> 21) @@ (Perp(0) :> 21) @@ (Perp(1) :> 24)
    @@ (Perp(2) :> 22) @@ (Perp(3) :> 10)

In(i)  == [market_index |-> i, available |-> FALSE]
Free   == [market_index |-> 0, available |-> TRUE]

MCUsers ==
  {[spot_positions |-> <<In(1), Free>>, perp_positions |-> <<Free, In(2)>>],
   [spot_positions |-> <<In(0)>>, perp_positions |-> <<In(3), In(1)>>],
   [spot_positions |-> <<Free>>, perp_positions |-> <<In(4)>>]}

MCCounterparties == {[spot_positions |-> <<Free>>, perp_positions |-> <<In(0), In(1)>>],
                     [spot_positions |-> <<In(1)>>, perp_positions |-> <<In(4)>>]}

MCMarketId == {Spot(1), Perp(0)}

MCOrderLists ==
  {<<>>, <<Perp(0), Perp(3)>>, <<Spot(1), Perp(0)>>, <<Perp(2), Spot(1), Perp(2), Perp(3)>>}
==============================================================================
