---------------------------- MODULE FillSearchProofs ----------------------------
(***************************************************************************)
(* Proofs about the searches of FillSearch, for every finite set of orders, *)
(* and any markets and queries: that an answer is right (AnswerRight).      *)
(*                                                                         *)
(* The loops of a search are folds.  A fold over a sequence has a run, its  *)
(* values after each element, and what one turn of a loop keeps the run     *)
(* keeps by counting up to the length of the sequence.  Facts about the     *)
(* turns of the inner loops (Matching) give facts about the turns of the    *)
(* outer ones, and those what a whole search leaves behind (SearchEnds).    *)
(***************************************************************************)
EXTENDS FillSearch, OrderBookProofs, FiniteSetTheorems, WellFoundedInduction, TLAPS

(* Counting up.                                                              *)
LEMMA CountUp ==
  ASSUME NEW n \in Nat, NEW K, 0 \in K, \A k \in 1..n : k - 1 \in K => k \in K
  PROVE  \A k \in 0..n : k \in K
<1> DEFINE Missed == {k \in Nat : k <= n /\ k \notin K}
<1>1. SUFFICES ASSUME Missed # {} PROVE FALSE
  OBVIOUS
<1> DEFINE R == OpToRel(<, Nat)
<1>2. PICK k \in Missed : \A j \in Missed : ~(<<j, k>> \in R)
  <2>1. Missed \subseteq Nat /\ Missed # {}
    BY <1>1
  <2>2. IsWellFoundedOn(R, Nat)
    BY NatLessThanWellFounded
  <2> HIDE DEF Missed, R
  <2> QED
    BY <2>1, <2>2, WFMin
<1>3. \A j \in Missed : ~(j < k)
  BY <1>2 DEF OpToRel
<1>4. k \in 1..n
  OBVIOUS
<1>5. k - 1 \in Nat /\ k - 1 < k /\ k - 1 <= n
  BY <1>4
<1>6. k - 1 \in K
  BY <1>3, <1>5
<1>7. QED
  BY <1>4, <1>6

LEMMA MaxOfSome ==
  ASSUME NEW n \in Nat, NEW S \in SUBSET (1..n), S # {}
  PROVE  /\ Max(S) \in S
         /\ \A x \in S : x <= Max(S)
<1> DEFINE Has(k) == \A Q \in SUBSET (1..k) : Q # {} => \E x \in Q : \A y \in Q : x >= y
           K == {k \in 0..n : Has(k)}
<1>1. 0 \in K
  <2>1. Has(0)
    <3>1. 1..0 = {}
      OBVIOUS
    <3>2. QED
      BY <3>1
  <2> HIDE DEF Has
  <2>2. QED
    BY <2>1
<1>2. ASSUME NEW k \in 1..n, k - 1 \in K PROVE k \in K
  <2> SUFFICES ASSUME NEW Q \in SUBSET (1..k), Q # {} PROVE \E x \in Q : \A y \in Q : x >= y
    OBVIOUS
  <2>1. CASE k \in Q
    BY <2>1
  <2>2. CASE k \notin Q
    <3>1. Q \in SUBSET (1..(k - 1))
      BY <2>2
    <3>2. QED
      BY <1>2, <3>1
  <2>3. QED
    BY <2>1, <2>2
<1> HIDE DEF K
<1>3. n \in K
  BY <1>1, <1>2, CountUp
<1>4. \E x \in S : \A y \in S : x >= y
  BY <1>3 DEF K
<1>5. Max(S) \in S /\ \A y \in S : Max(S) >= y
  BY <1>4 DEF Max
<1>6. QED
  BY <1>5

LEMMA MaxUpTo ==
  ASSUME NEW n \in Nat, NEW k \in 1..n
  PROVE  Max(1..k) = k /\ (1..k) \ {k} = 1..(k - 1)
<1>1. 1..k \in SUBSET (1..n) /\ 1..k # {} /\ k \in 1..k
  OBVIOUS
<1>2. Max(1..k) \in 1..k /\ k <= Max(1..k)
  BY <1>1, MaxOfSome
<1>3. QED
  BY <1>2

(* g is the fold from base over 1..n: its value on a set of indices is the   *)
(* step for the greatest one after the value on the others.                  *)
IsFold(g, n, base, step) ==
  \A S \in SUBSET (1..n) :
    g[S] = IF S = {} THEN base ELSE step[<<g[S \ {Max(S)}], Max(S)>>]

(* A fold exists: the recursion over the subsets of 1..n is well founded.    *)
LEMMA FoldExists ==
  ASSUME NEW n \in Nat, NEW T, NEW base \in T, NEW step \in [T \X (1..n) -> T]
  PROVE  \E g \in [SUBSET (1..n) -> T] : IsFold(g, n, base, step)
<1> DEFINE Fold(g, k) ==
      \A S \in SUBSET (1..k) :
        g[S] = IF S = {} THEN base ELSE step[<<g[S \ {Max(S)}], Max(S)>>]
           Done(k) == \E g \in [SUBSET (1..k) -> T] : Fold(g, k)
           K == {k \in 0..n : Done(k)}
<1>1. 0 \in K
  <2> DEFINE g == [S \in SUBSET (1..0) |-> base]
  <2>1. g \in [SUBSET (1..0) -> T] /\ Fold(g, 0)
    <3>1. \A S \in SUBSET (1..0) : S = {}
      OBVIOUS
    <3>2. \A S \in SUBSET (1..0) : g[S] = base
      OBVIOUS
    <3>3. g \in [SUBSET (1..0) -> T]
      OBVIOUS
    <3> HIDE DEF g
    <3>4. QED
      BY <3>1, <3>2, <3>3
  <2>2. Done(0)
    <3> HIDE DEF g, Fold
    <3> QED
      BY <2>1
  <2> HIDE DEF Done
  <2>3. QED
    BY <2>2
<1>2. ASSUME NEW k \in 1..n, k - 1 \in K PROVE k \in K
  <2>1. PICK h \in [SUBSET (1..(k - 1)) -> T] : Fold(h, k - 1)
    BY <1>2
  <2> DEFINE g == [S \in SUBSET (1..k) |->
                     IF k \in S THEN step[<<h[S \ {k}], k>>] ELSE h[S]]
  <2>2. ASSUME NEW S \in SUBSET (1..k)
        PROVE  S \ {k} \in SUBSET (1..(k - 1))
    OBVIOUS
  <2>3. ASSUME NEW S \in SUBSET (1..k), k \notin S
        PROVE  S \in SUBSET (1..(k - 1))
    BY <2>3
  <2>4. g \in [SUBSET (1..k) -> T]
    <3>1. ASSUME NEW S \in SUBSET (1..k)
          PROVE  (IF k \in S THEN step[<<h[S \ {k}], k>>] ELSE h[S]) \in T
      <4>1. CASE k \in S
        BY <4>1, <2>2
      <4>2. CASE k \notin S
        BY <4>2, <2>3
      <4>3. QED
        BY <4>1, <4>2
    <3>2. QED
      BY <3>1
  <2>5. ASSUME NEW S \in SUBSET (1..k)
        PROVE  g[S] = IF S = {} THEN base ELSE step[<<g[S \ {Max(S)}], Max(S)>>]
    <3>1. CASE k \in S
      <4>1. Max(S) = k
        <5>1. k \in Nat /\ S # {}
          BY <3>1
        <5>2. S \in SUBSET (1..k)
          OBVIOUS
        <5> HIDE DEF g, Fold
        <5>3. Max(S) \in S /\ \A x \in S : x <= Max(S)
          BY <5>1, <5>2, MaxOfSome
        <5>4. Max(S) \in 1..k /\ k <= Max(S)
          BY <3>1, <5>2, <5>3
        <5>5. QED
          BY <5>4
      <4>2. g[S] = step[<<h[S \ {k}], k>>]
        BY <3>1
      <4>3. S \ {k} \in SUBSET (1..k) /\ g[S \ {k}] = h[S \ {k}]
        OBVIOUS
      <4>4. S # {}
        BY <3>1
      <4> HIDE DEF g
      <4>5. QED
        BY <4>1, <4>2, <4>3, <4>4
    <3>2. CASE k \notin S
      <4>1. S \in SUBSET (1..(k - 1)) /\ g[S] = h[S]
        BY <2>3, <3>2
      <4>2. S \ {Max(S)} \in SUBSET (1..k) /\ g[S \ {Max(S)}] = h[S \ {Max(S)}]
        BY <3>2
      <4>3. h[S] = IF S = {} THEN base ELSE step[<<h[S \ {Max(S)}], Max(S)>>]
        BY <2>1, <4>1
      <4> HIDE DEF g
      <4>4. QED
        BY <4>1, <4>2, <4>3
    <3>3. QED
      BY <3>1, <3>2
  <2>6. Fold(g, k)
    BY <2>5
  <2>7. Done(k)
    <3> HIDE DEF g, Fold
    <3> QED
      BY <2>4, <2>6
  <2> HIDE DEF Done
  <2>8. QED
    BY <2>7
<1> HIDE DEF K
<1>3. n \in K
  BY <1>1, <1>2, CountUp
<1> USE DEF K
<1>4. QED
  BY <1>3 DEF IsFold

FoldOver(g, n, T, base, step) ==
  /\ g[{}] = base
  /\ \A S \in SUBSET (1..n) : S # {} =>
       /\ Max(S) \in 1..n /\ g[S \ {Max(S)}] \in T
       /\ g[S] = step[<<g[S \ {Max(S)}], Max(S)>>]

LEMMA FoldValue ==
  ASSUME NEW n \in Nat, NEW T, NEW base, NEW step,
         NEW g \in [SUBSET (1..n) -> T], IsFold(g, n, base, step)
  PROVE  FoldOver(g, n, T, base, step)
<1>1. g[{}] = base
  <2>1. {} \in SUBSET (1..n)
    OBVIOUS
  <2>2. QED
    BY <2>1 DEF IsFold
<1>2. ASSUME NEW S \in SUBSET (1..n), S # {}
      PROVE  /\ Max(S) \in 1..n /\ g[S \ {Max(S)}] \in T
             /\ g[S] = step[<<g[S \ {Max(S)}], Max(S)>>]
  <2>1. Max(S) \in S
    BY <1>2, MaxOfSome
  <2>2. S \ {Max(S)} \in SUBSET (1..n)
    OBVIOUS
  <2>3. QED
    BY <1>2, <2>1, <2>2 DEF IsFold
<1>3. QED
  BY <1>1, <1>2 DEF FoldOver

(* The values of such a recursion on 1..k, for k up to n: its run.           *)
Follows(iter, n, T, step) ==
  \A S \in SUBSET (1..n) : S # {} /\ iter[S \ {Max(S)}] \in T =>
    iter[S] = step[<<iter[S \ {Max(S)}], Max(S)>>]

IsRun(run, n, base, step) ==
  /\ run[0] = base
  /\ \A k \in 1..n : run[k] = step[<<run[k - 1], k>>]

HasRun(iter, n, T, base, step) ==
  \E run \in [0..n -> T] : IsRun(run, n, base, step) /\ run[n] = iter[1..n]

LEMMA RunOf ==
  ASSUME NEW n \in Nat, NEW T, NEW base \in T, NEW step \in [T \X (1..n) -> T],
         NEW iter, iter[{}] = base, Follows(iter, n, T, step)
  PROVE  HasRun(iter, n, T, base, step)
<1> DEFINE run == [k \in 0..n |-> iter[1..k]]
           K == {k \in 0..n : run[k] \in T}
<1>1. run[0] = base
  <2>1. 1..0 = {}
    OBVIOUS
  <2>2. QED
    BY <2>1
<1>2. ASSUME NEW k \in 1..n, run[k - 1] \in T PROVE run[k] = step[<<run[k - 1], k>>]
  <2>1. k \in 1..k /\ k \in 0..n /\ k - 1 \in 0..n
    OBVIOUS
  <2>2. 1..k \in SUBSET (1..n) /\ 1..k # {}
    <3>1. 1..k \subseteq 1..n
      OBVIOUS
    <3>2. QED
      BY <2>1, <3>1
  <2>3. Max(1..k) = k /\ (1..k) \ {k} = 1..(k - 1)
    BY MaxUpTo
  <2>4. iter[1..k] = step[<<iter[1..(k - 1)], k>>]
    BY <1>2, <2>1, <2>2, <2>3 DEF Follows
  <2>5. QED
    BY <2>1, <2>4
<1> HIDE DEF run
<1>3. ASSUME NEW k \in 1..n, k - 1 \in K PROVE k \in K
  <2>1. run[k - 1] \in T
    BY <1>3
  <2>2. run[k] = step[<<run[k - 1], k>>]
    BY <1>2, <2>1
  <2>3. QED
    BY <2>1, <2>2
<1>4. 0 \in K
  BY <1>1
<1> HIDE DEF K
<1>5. \A k \in 0..n : k \in K
  BY <1>3, <1>4, CountUp
<1> USE DEF K
<1>6. \A k \in 0..n : run[k] \in T
  BY <1>5
<1>7. run \in [0..n -> T] /\ run[n] = iter[1..n]
  BY <1>6 DEF run
<1>8. \A k \in 1..n : run[k] = step[<<run[k - 1], k>>]
  BY <1>2, <1>6
<1>9. IsRun(run, n, base, step)
  BY <1>1, <1>8 DEF IsRun
<1> HIDE DEF run
<1>10. QED
  BY <1>7, <1>9 DEF HasRun

-----------------------------------------------------------------------------
(* What the loop over the bids does, bid by bid.                             *)
BidRuns(b, q, ask, ask_left, T, base, n, bids) ==
  \E run \in [0..n -> T] :
    /\ run[0] = base
    /\ run[n] = FoldLeft(LAMBDA t, bid : crossing_bid(b, q, t, ask, ask_left, bid), base, bids)
    /\ \A k \in 1..n : run[k] = crossing_bid(b, q, run[k - 1], ask, ask_left, bids[k])

LEMMA BidRun ==
  ASSUME NEW b, NEW q, NEW ask, NEW ask_left,
         NEW T, NEW base \in T, NEW n \in Nat, NEW bids \in [1..n -> Order],
         \A t \in T, k \in 1..n : crossing_bid(b, q, t, ask, ask_left, bids[k]) \in T
  PROVE  BidRuns(b, q, ask, ask_left, T, base, n, bids)
<1> DEFINE Op(t, bid) == crossing_bid(b, q, t, ask, ask_left, bid)
           iter == CHOOSE it : it = [S \in SUBSET DOMAIN bids |->
                     IF S = {} THEN base ELSE Op(it[S \ {Max(S)}], bids[Max(S)])]
           step == [p \in T \X (1..n) |-> Op(p[1], bids[p[2]])]
<1>1. FoldLeft(LAMBDA t, bid : crossing_bid(b, q, t, ask, ask_left, bid), base, bids) = iter[DOMAIN bids]
  BY DEF FoldLeft, MapThenFoldSet
<1>2. \A t \in T, k \in 1..n : Op(t, bids[k]) \in T
  OBVIOUS
<1> HIDE DEF Op
<1>3. step \in [T \X (1..n) -> T]
  BY <1>2
<1>4. PICK g \in [SUBSET (1..n) -> T] : IsFold(g, n, base, step)
  <2> HIDE DEF step, iter
  <2> QED
    BY <1>3, FoldExists
<1>5. g = [S \in SUBSET DOMAIN bids |->
             IF S = {} THEN base ELSE Op(g[S \ {Max(S)}], bids[Max(S)])]
  <2>1. FoldOver(g, n, T, base, step)
    <3> HIDE DEF step, iter
    <3> QED
      BY <1>4, FoldValue
  <2>2. \A S \in SUBSET (1..n) : S # {} => g[S] = Op(g[S \ {Max(S)}], bids[Max(S)])
    BY <2>1 DEF FoldOver
  <2>3. DOMAIN bids = 1..n
    OBVIOUS
  <2> HIDE DEF step
  <2>4. QED
    BY <2>1, <2>2, <2>3 DEF FoldOver
<1>6. iter = [S \in SUBSET DOMAIN bids |->
                IF S = {} THEN base ELSE Op(iter[S \ {Max(S)}], bids[Max(S)])]
  BY <1>5, Zenon
<1>7. HasRun(iter, n, T, base, step)
  <2>1. iter[{}] = base
    BY <1>6
  <2>2. Follows(iter, n, T, step)
    <3> HIDE DEF iter
    <3> QED
      BY <1>6, MaxOfSome DEF Follows
  <2> HIDE DEF iter, step
  <2>3. base \in T /\ n \in Nat
    OBVIOUS
  <2>4. QED
    BY <1>3, <2>1, <2>2, <2>3, RunOf
<1>8. PICK run \in [0..n -> T] : IsRun(run, n, base, step) /\ run[n] = iter[1..n]
  BY <1>7 DEF HasRun
<1>9. run[0] = base /\ \A k \in 1..n : run[k] = Op(run[k - 1], bids[k])
  <2> HIDE DEF iter
  <2>1. \A k \in 1..n : run[k - 1] \in T
    OBVIOUS
  <2>2. QED
    BY <1>8, <2>1 DEF IsRun
<1> HIDE DEF iter, step
<1>10. QED
  BY <1>1, <1>8, <1>9 DEF Op, BidRuns

(* The loop over the asks around it.                                         *)
AskRuns(b, q, st, bids, T, base, n, asks) ==
  \E run \in [0..n -> T] :
    /\ run[0] = base
    /\ run[n] = FoldLeft(LAMBDA t, ask : with_ask(b, q, st, bids, t, ask), base, asks)
    /\ \A k \in 1..n : run[k] = with_ask(b, q, st, bids, run[k - 1], asks[k])

LEMMA AskRun ==
  ASSUME NEW b, NEW q, NEW st, NEW bids,
         NEW T, NEW base \in T, NEW n \in Nat, NEW asks \in [1..n -> Order],
         \A t \in T, k \in 1..n : with_ask(b, q, st, bids, t, asks[k]) \in T
  PROVE  AskRuns(b, q, st, bids, T, base, n, asks)
<1> DEFINE Op(t, ask) == with_ask(b, q, st, bids, t, ask)
           iter == CHOOSE it : it = [S \in SUBSET DOMAIN asks |->
                     IF S = {} THEN base ELSE Op(it[S \ {Max(S)}], asks[Max(S)])]
           step == [p \in T \X (1..n) |-> Op(p[1], asks[p[2]])]
<1>1. FoldLeft(LAMBDA t, ask : with_ask(b, q, st, bids, t, ask), base, asks) = iter[DOMAIN asks]
  BY DEF FoldLeft, MapThenFoldSet
<1>2. \A t \in T, k \in 1..n : Op(t, asks[k]) \in T
  OBVIOUS
<1> HIDE DEF Op
<1>3. step \in [T \X (1..n) -> T]
  BY <1>2
<1>4. PICK g \in [SUBSET (1..n) -> T] : IsFold(g, n, base, step)
  <2> HIDE DEF step, iter
  <2> QED
    BY <1>3, FoldExists
<1>5. g = [S \in SUBSET DOMAIN asks |->
             IF S = {} THEN base ELSE Op(g[S \ {Max(S)}], asks[Max(S)])]
  <2>1. FoldOver(g, n, T, base, step)
    <3> HIDE DEF step, iter
    <3> QED
      BY <1>4, FoldValue
  <2>2. \A S \in SUBSET (1..n) : S # {} => g[S] = Op(g[S \ {Max(S)}], asks[Max(S)])
    BY <2>1 DEF FoldOver
  <2>3. DOMAIN asks = 1..n
    OBVIOUS
  <2> HIDE DEF step
  <2>4. QED
    BY <2>1, <2>2, <2>3 DEF FoldOver
<1>6. iter = [S \in SUBSET DOMAIN asks |->
                IF S = {} THEN base ELSE Op(iter[S \ {Max(S)}], asks[Max(S)])]
  BY <1>5, Zenon
<1>7. HasRun(iter, n, T, base, step)
  <2>1. iter[{}] = base
    BY <1>6
  <2>2. Follows(iter, n, T, step)
    <3> HIDE DEF iter
    <3> QED
      BY <1>6, MaxOfSome DEF Follows
  <2> HIDE DEF iter, step
  <2>3. base \in T /\ n \in Nat
    OBVIOUS
  <2>4. QED
    BY <1>3, <2>1, <2>2, <2>3, RunOf
<1>8. PICK run \in [0..n -> T] : IsRun(run, n, base, step) /\ run[n] = iter[1..n]
  BY <1>7 DEF HasRun
<1>9. run[0] = base /\ \A k \in 1..n : run[k] = Op(run[k - 1], asks[k])
  <2> HIDE DEF iter
  <2>1. \A k \in 1..n : run[k - 1] \in T
    OBVIOUS
  <2>2. QED
    BY <1>8, <2>1 DEF IsRun
<1> HIDE DEF iter, step
<1>10. QED
  BY <1>1, <1>8, <1>9 DEF Op, AskRuns

(* The loop over the makers of a taker, and the loop over the takers.        *)
MakerRuns(b, q, side, taker, taker_left, T, base, n, makers) ==
  \E run \in [0..n -> T] :
    /\ run[0] = base
    /\ run[n] = FoldLeft(LAMBDA t, maker : crossing_maker(b, q, t, side, taker, taker_left, maker), base, makers)
    /\ \A k \in 1..n : run[k] = crossing_maker(b, q, run[k - 1], side, taker, taker_left, makers[k])

LEMMA MakerRun ==
  ASSUME NEW b, NEW q, NEW side, NEW taker, NEW taker_left,
         NEW T, NEW base \in T, NEW n \in Nat, NEW makers \in [1..n -> Order],
         \A t \in T, k \in 1..n : crossing_maker(b, q, t, side, taker, taker_left, makers[k]) \in T
  PROVE  MakerRuns(b, q, side, taker, taker_left, T, base, n, makers)
<1> DEFINE Op(t, maker) == crossing_maker(b, q, t, side, taker, taker_left, maker)
           iter == CHOOSE it : it = [S \in SUBSET DOMAIN makers |->
                     IF S = {} THEN base ELSE Op(it[S \ {Max(S)}], makers[Max(S)])]
           step == [p \in T \X (1..n) |-> Op(p[1], makers[p[2]])]
<1>1. FoldLeft(LAMBDA t, maker : crossing_maker(b, q, t, side, taker, taker_left, maker), base, makers) = iter[DOMAIN makers]
  BY DEF FoldLeft, MapThenFoldSet
<1>2. \A t \in T, k \in 1..n : Op(t, makers[k]) \in T
  OBVIOUS
<1> HIDE DEF Op
<1>3. step \in [T \X (1..n) -> T]
  BY <1>2
<1>4. PICK g \in [SUBSET (1..n) -> T] : IsFold(g, n, base, step)
  <2> HIDE DEF step, iter
  <2> QED
    BY <1>3, FoldExists
<1>5. g = [S \in SUBSET DOMAIN makers |->
             IF S = {} THEN base ELSE Op(g[S \ {Max(S)}], makers[Max(S)])]
  <2>1. FoldOver(g, n, T, base, step)
    <3> HIDE DEF step, iter
    <3> QED
      BY <1>4, FoldValue
  <2>2. \A S \in SUBSET (1..n) : S # {} => g[S] = Op(g[S \ {Max(S)}], makers[Max(S)])
    BY <2>1 DEF FoldOver
  <2>3. DOMAIN makers = 1..n
    OBVIOUS
  <2> HIDE DEF step
  <2>4. QED
    BY <2>1, <2>2, <2>3 DEF FoldOver
<1>6. iter = [S \in SUBSET DOMAIN makers |->
                IF S = {} THEN base ELSE Op(iter[S \ {Max(S)}], makers[Max(S)])]
  BY <1>5, Zenon
<1>7. HasRun(iter, n, T, base, step)
  <2>1. iter[{}] = base
    BY <1>6
  <2>2. Follows(iter, n, T, step)
    <3> HIDE DEF iter
    <3> QED
      BY <1>6, MaxOfSome DEF Follows
  <2> HIDE DEF iter, step
  <2>3. base \in T /\ n \in Nat
    OBVIOUS
  <2>4. QED
    BY <1>3, <2>1, <2>2, <2>3, RunOf
<1>8. PICK run \in [0..n -> T] : IsRun(run, n, base, step) /\ run[n] = iter[1..n]
  BY <1>7 DEF HasRun
<1>9. run[0] = base /\ \A k \in 1..n : run[k] = Op(run[k - 1], makers[k])
  <2> HIDE DEF iter
  <2>1. \A k \in 1..n : run[k - 1] \in T
    OBVIOUS
  <2>2. QED
    BY <1>8, <2>1 DEF IsRun
<1> HIDE DEF iter, step
<1>10. QED
  BY <1>1, <1>8, <1>9 DEF Op, MakerRuns

TakerRuns(b, q, st, side, makers, T, base, n, takers) ==
  \E run \in [0..n -> T] :
    /\ run[0] = base
    /\ run[n] = FoldLeft(LAMBDA t, taker : with_taker(b, q, st, side, makers, t, taker), base, takers)
    /\ \A k \in 1..n : run[k] = with_taker(b, q, st, side, makers, run[k - 1], takers[k])

LEMMA TakerRun ==
  ASSUME NEW b, NEW q, NEW st, NEW side, NEW makers,
         NEW T, NEW base \in T, NEW n \in Nat, NEW takers \in [1..n -> Order],
         \A t \in T, k \in 1..n : with_taker(b, q, st, side, makers, t, takers[k]) \in T
  PROVE  TakerRuns(b, q, st, side, makers, T, base, n, takers)
<1> DEFINE Op(t, taker) == with_taker(b, q, st, side, makers, t, taker)
           iter == CHOOSE it : it = [S \in SUBSET DOMAIN takers |->
                     IF S = {} THEN base ELSE Op(it[S \ {Max(S)}], takers[Max(S)])]
           step == [p \in T \X (1..n) |-> Op(p[1], takers[p[2]])]
<1>1. FoldLeft(LAMBDA t, taker : with_taker(b, q, st, side, makers, t, taker), base, takers) = iter[DOMAIN takers]
  BY DEF FoldLeft, MapThenFoldSet
<1>2. \A t \in T, k \in 1..n : Op(t, takers[k]) \in T
  OBVIOUS
<1> HIDE DEF Op
<1>3. step \in [T \X (1..n) -> T]
  BY <1>2
<1>4. PICK g \in [SUBSET (1..n) -> T] : IsFold(g, n, base, step)
  <2> HIDE DEF step, iter
  <2> QED
    BY <1>3, FoldExists
<1>5. g = [S \in SUBSET DOMAIN takers |->
             IF S = {} THEN base ELSE Op(g[S \ {Max(S)}], takers[Max(S)])]
  <2>1. FoldOver(g, n, T, base, step)
    <3> HIDE DEF step, iter
    <3> QED
      BY <1>4, FoldValue
  <2>2. \A S \in SUBSET (1..n) : S # {} => g[S] = Op(g[S \ {Max(S)}], takers[Max(S)])
    BY <2>1 DEF FoldOver
  <2>3. DOMAIN takers = 1..n
    OBVIOUS
  <2> HIDE DEF step
  <2>4. QED
    BY <2>1, <2>2, <2>3 DEF FoldOver
<1>6. iter = [S \in SUBSET DOMAIN takers |->
                IF S = {} THEN base ELSE Op(iter[S \ {Max(S)}], takers[Max(S)])]
  BY <1>5, Zenon
<1>7. HasRun(iter, n, T, base, step)
  <2>1. iter[{}] = base
    BY <1>6
  <2>2. Follows(iter, n, T, step)
    <3> HIDE DEF iter
    <3> QED
      BY <1>6, MaxOfSome DEF Follows
  <2> HIDE DEF iter, step
  <2>3. base \in T /\ n \in Nat
    OBVIOUS
  <2>4. QED
    BY <1>3, <2>1, <2>2, <2>3, RunOf
<1>8. PICK run \in [0..n -> T] : IsRun(run, n, base, step) /\ run[n] = iter[1..n]
  BY <1>7 DEF HasRun
<1>9. run[0] = base /\ \A k \in 1..n : run[k] = Op(run[k - 1], takers[k])
  <2> HIDE DEF iter
  <2>1. \A k \in 1..n : run[k - 1] \in T
    OBVIOUS
  <2>2. QED
    BY <1>8, <2>1 DEF IsRun
<1> HIDE DEF iter, step
<1>10. QED
  BY <1>1, <1>8, <1>9 DEF Op, TakerRuns

(* The loop over the orders set against the vAMM.                            *)
FallbackRuns(q, crosses, T, base, n, nodes) ==
  \E run \in [0..n -> T] :
    /\ run[0] = base
    /\ run[n] = FoldLeft(LAMBDA t, o : crossing_fallback(q, crosses, t, o), base, nodes)
    /\ \A k \in 1..n : run[k] = crossing_fallback(q, crosses, run[k - 1], nodes[k])

LEMMA FallbackRun ==
  ASSUME NEW q, NEW crosses,
         NEW T, NEW base \in T, NEW n \in Nat, NEW nodes \in [1..n -> Order],
         \A t \in T, k \in 1..n : crossing_fallback(q, crosses, t, nodes[k]) \in T
  PROVE  FallbackRuns(q, crosses, T, base, n, nodes)
<1> DEFINE Op(t, o) == crossing_fallback(q, crosses, t, o)
           iter == CHOOSE it : it = [S \in SUBSET DOMAIN nodes |->
                     IF S = {} THEN base ELSE Op(it[S \ {Max(S)}], nodes[Max(S)])]
           step == [p \in T \X (1..n) |-> Op(p[1], nodes[p[2]])]
<1>1. FoldLeft(LAMBDA t, o : crossing_fallback(q, crosses, t, o), base, nodes) = iter[DOMAIN nodes]
  BY DEF FoldLeft, MapThenFoldSet
<1>2. \A t \in T, k \in 1..n : Op(t, nodes[k]) \in T
  OBVIOUS
<1> HIDE DEF Op
<1>3. step \in [T \X (1..n) -> T]
  BY <1>2
<1>4. PICK g \in [SUBSET (1..n) -> T] : IsFold(g, n, base, step)
  <2> HIDE DEF step, iter
  <2> QED
    BY <1>3, FoldExists
<1>5. g = [S \in SUBSET DOMAIN nodes |->
             IF S = {} THEN base ELSE Op(g[S \ {Max(S)}], nodes[Max(S)])]
  <2>1. FoldOver(g, n, T, base, step)
    <3> HIDE DEF step, iter
    <3> QED
      BY <1>4, FoldValue
  <2>2. \A S \in SUBSET (1..n) : S # {} => g[S] = Op(g[S \ {Max(S)}], nodes[Max(S)])
    BY <2>1 DEF FoldOver
  <2>3. DOMAIN nodes = 1..n
    OBVIOUS
  <2> HIDE DEF step
  <2>4. QED
    BY <2>1, <2>2, <2>3 DEF FoldOver
<1>6. iter = [S \in SUBSET DOMAIN nodes |->
                IF S = {} THEN base ELSE Op(iter[S \ {Max(S)}], nodes[Max(S)])]
  BY <1>5, Zenon
<1>7. HasRun(iter, n, T, base, step)
  <2>1. iter[{}] = base
    BY <1>6
  <2>2. Follows(iter, n, T, step)
    <3> HIDE DEF iter
    <3> QED
      BY <1>6, MaxOfSome DEF Follows
  <2> HIDE DEF iter, step
  <2>3. base \in T /\ n \in Nat
    OBVIOUS
  <2>4. QED
    BY <1>3, <2>1, <2>2, <2>3, RunOf
<1>8. PICK run \in [0..n -> T] : IsRun(run, n, base, step) /\ run[n] = iter[1..n]
  BY <1>7 DEF HasRun
<1>9. run[0] = base /\ \A k \in 1..n : run[k] = Op(run[k - 1], nodes[k])
  <2> HIDE DEF iter
  <2>1. \A k \in 1..n : run[k - 1] \in T
    OBVIOUS
  <2>2. QED
    BY <1>8, <2>1 DEF IsRun
<1> HIDE DEF iter, step
<1>10. QED
  BY <1>1, <1>8, <1>9 DEF Op, FallbackRuns

-----------------------------------------------------------------------------
(* A resting order of a list is one still: writing to it reaches it.         *)
LEMMA RestingFiled ==
  ASSUME slot \in Nat, NEW b, GoodBook(b, slot), NEW q \in Query, NEW side \in Side,
         NEW o \in resting_limit_orders(b, q, side)
  PROVE  /\ o \in Order /\ sub_type(OrderOf[o]) = side
         /\ PlaceOf(b, o) \in {"RestingLimit", "FloatingLimit"}
         /\ update_finds(b, o)
<1>1. b \in Book /\ q.index \in Market
  BY SearchAssumption DEF GoodBook, QueryRecord
<1>2. PICK l \in {"RestingLimit", "FloatingLimit"} :
        \E n \in b.heap[q.index][l][side] : n.sig = o
  BY DEF resting_limit_orders, get_best_orders
<1>3. o \in b.orders /\ sub_type(OrderOf[o]) = side /\ PlaceOf(b, o) = l
  BY <1>1, <1>2 DEF GoodBook, BookInv, NodesPlaced, NodeType
<1>4. o \in Order /\ b.seen[o] \in Nat /\ b.seen[o] <= slot
  BY <1>1, <1>3 DEF Book, GoodBook, SeenBy
<1>5. node_type(OrderOf[o], slot) = PlaceOf(b, o)
  BY <1>3, <1>4, OrderAssumption, PlaceLater DEF PlaceOf
<1>6. /\ o \in b.order_sigs[OrderOf[o].market][PlaceOf(b, o)]
      /\ \E n \in b.heap[OrderOf[o].market][PlaceOf(b, o)][sub_type(OrderOf[o])] : n.sig = o
  BY <1>3 DEF GoodBook, BookInv, IndexExact, OrdersHeld
<1>7. QED
  BY <1>3, <1>4, <1>5, <1>6 DEF update_finds, get_best_orders

(* The takers of a search belong to the searched market and rest nowhere.    *)
LEMMA TakingFiled ==
  ASSUME NEW b, GoodBook(b, slot), NEW q \in Query, NEW side \in Side,
         NEW o \in taking_orders(b, q, side)
  PROVE  /\ o \in Order /\ sub_type(OrderOf[o]) = side
         /\ PlaceOf(b, o) \in {"TakingLimit", "Market"}
         /\ OrderOf[o].market = q.index
<1>1. b \in Book /\ q.index \in Market
  BY SearchAssumption DEF GoodBook, QueryRecord
<1>2. PICK l \in {"TakingLimit", "Market"} : o \in get_best_orders(b, q.index, l, side)
  BY DEF taking_orders
<1>3. PICK n \in b.heap[q.index][l][side] : n.sig = o
  BY <1>2 DEF get_best_orders
<1>4. /\ o \in b.orders /\ sub_type(OrderOf[o]) = side /\ PlaceOf(b, o) = l
      /\ OrderOf[o].market = q.index \/ l = "TakingLimit"
  BY <1>1, <1>3 DEF GoodBook, BookInv, NodesPlaced, NodeType
<1>5. l = "TakingLimit" => OrderOf[o].market = q.index
  BY <1>1, <1>2 DEF get_best_orders, GoodBook, BookInv, TakingIndexOwn
<1>6. QED
  BY <1>1, <1>4, <1>5 DEF Book

(* A sequence that sorts a set, or pops it from a heap, has every element    *)
(* once.                                                                     *)
Listed(w, S, n) ==
  /\ w \in [1..n -> S]
  /\ \A i, j \in 1..n : i < j => w[i] # w[j]
  /\ \A x \in S : \E i \in 1..n : w[i] = x

LEMMA AllListed ==
  ASSUME NEW S, IsFiniteSet(S), NEW w \in [1..Cardinality(S) -> S],
         \A i, j \in DOMAIN w : i < j => w[i] # w[j]
  PROVE  Cardinality(S) \in Nat /\ Listed(w, S, Cardinality(S))
<1> DEFINE n == Cardinality(S)
<1>1. n \in Nat
  BY FS_CardinalityType
<1>2. \A i, j \in 1..n : w[i] = w[j] => i = j
  BY <1>1
<1>3. w \in Injection(1..n, S)
  BY <1>2 DEF Injection, IsInjective
<1>4. Cardinality(1..n) = n
  BY <1>1, FS_Interval
<1>5. w \in Surjection(1..n, S)
  BY <1>3, <1>4, FS_Injection
<1>6. \A x \in S : \E i \in 1..n : w[i] = x
  BY <1>5 DEF Surjection
<1>7. QED
  BY <1>1, <1>2, <1>6 DEF Listed

LEMMA FiniteLists ==
  ASSUME NEW b \in Book, NEW q \in Query, NEW side \in Side
  PROVE  /\ IsFiniteSet(resting_limit_orders(b, q, side))
         /\ IsFiniteSet(taking_orders(b, q, side))
<1>1. q.index \in Market
  BY SearchAssumption DEF QueryRecord
<1>2. /\ resting_limit_orders(b, q, side) \in SUBSET Order
      /\ taking_orders(b, q, side) \in SUBSET Order
  BY <1>1 DEF resting_limit_orders, taking_orders, get_best_orders, Book, NodeType
<1>3. QED
  BY <1>2, SearchAssumption, FS_Subset

(* The lists a search walks; the resting ones go from the best price on.     *)
LEMMA ListsExact ==
  ASSUME NEW b \in Book, NEW q \in Query, NEW lists \in Lists(b, q), NEW side \in Side
  PROVE  /\ \E n \in Nat : Listed(lists.resting[side], resting_limit_orders(b, q, side), n)
         /\ \E n \in Nat : Listed(lists.taking[side], taking_orders(b, q, side), n)
         /\ \A i, j \in DOMAIN lists.resting[side] : i < j =>
              LET x == lists.resting[side][i]
                  y == lists.resting[side][j]
              IN IF side = "asks" THEN ~(Price(q, y) < Price(q, x))
                                  ELSE ~(Price(q, y) > Price(q, x))
<1>1. /\ lists.resting[side] \in get_resting_limit_orders(b, q, side)
      /\ lists.taking[side] \in get_taking_orders(b, q, side)
  BY DEF Lists, Side
<1> DEFINE r == lists.resting[side]
           t == lists.taking[side]
           R == resting_limit_orders(b, q, side)
           T == taking_orders(b, q, side)
<1>2. /\ r \in [1..Cardinality(R) -> R]
      /\ \A i, j \in DOMAIN r : i < j => r[i] # r[j]
      /\ \A i, j \in DOMAIN r : i < j =>
           IF side = "asks" THEN ~(Price(q, r[j]) < Price(q, r[i]))
                            ELSE ~(Price(q, r[j]) > Price(q, r[i]))
  BY <1>1 DEF get_resting_limit_orders, sortings
<1>3. /\ t \in [1..Cardinality(T) -> T]
      /\ \A i, j \in DOMAIN t : i < j => t[i] # t[j]
  BY <1>1 DEF get_taking_orders, sortings
<1>4. IsFiniteSet(R) /\ IsFiniteSet(T)
  BY FiniteLists
<1> HIDE DEF r, t, R, T
<1>5. Cardinality(R) \in Nat /\ Listed(r, R, Cardinality(R))
  BY <1>2, <1>4, AllListed
<1>6. Cardinality(T) \in Nat /\ Listed(t, T, Cardinality(T))
  BY <1>3, <1>4, AllListed
<1>7. QED
  BY <1>2, <1>5, <1>6 DEF r, t, R, T

LEMMA ListedDomain ==
  ASSUME NEW n, NEW S, NEW w, Listed(w, S, n)
  PROVE  DOMAIN w = 1..n
BY DEF Listed

-----------------------------------------------------------------------------
(* The states of a search.  An amount lies between what was filled and what  *)
(* the order has, and only the list of an order's own market is written to.  *)
Base(o) == OrderOf[o].base_asset_amount
FilledBefore(o) == OrderOf[o].base_asset_amount_filled
Written(amt, o) == amt[OrderOf[o].market][o]

Amounts ==
  {a \in [Market -> [Order -> Nat]] :
     \A m \in Market, o \in Order :
       /\ FilledBefore(o) <= a[m][o] /\ a[m][o] <= Base(o)
       /\ m # OrderOf[o].market => a[m][o] = FilledBefore(o)}

(* What a search may find: a match, or an order the vAMM may fill.           *)
FallbackOpen(q, o) ==
  /\ "AmmPaused" \notin q.state.exchange_status
  /\ q.index \in Perp =>
       /\ "AmmFill" \notin q.market.paused_operations
       /\ ~q.market.drawdown
       /\ \/ q.state.min_perp_auction_duration = 0
          \/ slot > OrderOf[o].slot + q.state.min_perp_auction_duration

Found(q) ==
  {n \in [node: Order, maker_nodes: Seq(Order)] : n.maker_nodes = <<>> => FallbackOpen(q, n.node)}

(* The resting bids of the searched market are matched one at a time with    *)
(* what the book has left of them: its amounts are the sums of the matches.  *)
Bids(b, q) == {o \in resting_limit_orders(b, q, "bids") : OrderOf[o].market = q.index}

Booked(b, q, st) ==
  \A o \in Bids(b, q) \cap Order : Written(st.amt, o) = FilledBefore(o) + st.matched[o]

SearchRecord(q) ==
  [outcome: {"running", "blocked", "panicked"}, nodes: Seq(Found(q)), amt: Amounts, left: BOOLEAN,
   matched: [Order -> Nat]]

SearchState(b, q) == {t \in SearchRecord(q) : t.outcome = "running" => Booked(b, q, t)}

LEMMA OrderAmounts ==
  ASSUME NEW o \in Order
  PROVE  /\ OrderOf[o].market \in Market
         /\ Base(o) \in Nat /\ FilledBefore(o) \in Nat
         /\ FilledBefore(o) < Base(o)
BY OrderAssumption, SearchAssumption DEF OrderRecord, Base, FilledBefore

LEMMA StartState ==
  ASSUME NEW b, NEW q
  PROVE  /\ Start \in SearchState(b, q) /\ Start.outcome = "running"
         /\ \A m \in Market, o \in Order : Start.amt[m][o] = FilledBefore(o)
<1>1. Unfilled \in [Market -> [Order -> Nat]]
  BY OrderAmounts DEF Unfilled, FilledBefore
<1>2. \A m \in Market, o \in Order : Unfilled[m][o] = FilledBefore(o)
  BY DEF Unfilled, FilledBefore
<1>3. Unfilled \in Amounts
  BY <1>1, <1>2, OrderAmounts DEF Amounts
<1> DEFINE none == [o \in Order |-> 0]
<1>4. Start = [outcome |-> "running", nodes |-> <<>>, amt |-> Unfilled, left |-> FALSE,
               matched |-> none]
  BY DEF Start
<1>5. none \in [Order -> Nat] /\ \A o \in Order : none[o] = 0
  OBVIOUS
<1> HIDE DEF none
<1>6. Start \in SearchRecord(q) /\ Start.amt = Unfilled /\ Start.matched = none
  BY <1>3, <1>4, <1>5 DEF SearchRecord
<1>7. Booked(b, q, Start)
  BY <1>2, <1>5, <1>6, OrderAmounts DEF Booked, Written
<1>8. QED
  BY <1>2, <1>4, <1>6, <1>7 DEF SearchState

LEMMA PanicState ==
  ASSUME NEW b, NEW q, NEW st \in SearchState(b, q)
  PROVE  /\ Panic(st) \in SearchState(b, q)
         /\ Panic(st).outcome = "panicked" /\ Panic(st).left /\ Panic(st).amt = st.amt
<1>1. st \in SearchRecord(q)
  BY DEF SearchState
<1>2. /\ Panic(st) \in SearchRecord(q)
      /\ Panic(st).outcome = "panicked" /\ Panic(st).left /\ Panic(st).amt = st.amt
  BY <1>1 DEF Panic, SearchRecord
<1>3. QED
  BY <1>2 DEF SearchState

(* Entering and leaving the inner loop, and a node for the vAMM.             *)
Passed(st) == [st EXCEPT !.left = TRUE]
Entered(st) == [st EXCEPT !.left = FALSE]
WithNode(st, node) == [st EXCEPT !.nodes = Append(@, node)]

LEMMA LeaveState ==
  ASSUME NEW b, NEW q, NEW st \in SearchState(b, q)
  PROVE  /\ Passed(st) \in SearchState(b, q) /\ Passed(st).outcome = st.outcome
         /\ Passed(st).left /\ Passed(st).amt = st.amt
         /\ Entered(st) \in SearchState(b, q) /\ Entered(st).outcome = st.outcome
         /\ ~Entered(st).left /\ Entered(st).amt = st.amt
<1> DEFINE t == Passed(st)
           f == Entered(st)
<1>1. st \in SearchRecord(q) /\ (st.outcome = "running" => Booked(b, q, st))
  BY DEF SearchState
<1>2. /\ t \in SearchRecord(q)
      /\ t.outcome = st.outcome /\ t.left /\ t.amt = st.amt /\ t.matched = st.matched
  BY <1>1 DEF SearchRecord, Passed
<1>3. /\ f \in SearchRecord(q)
      /\ f.outcome = st.outcome /\ ~f.left /\ f.amt = st.amt /\ f.matched = st.matched
  BY <1>1 DEF SearchRecord, Entered
<1> HIDE DEF t, f
<1>4. t \in SearchState(b, q) /\ f \in SearchState(b, q)
  BY <1>1, <1>2, <1>3 DEF SearchState, Booked
<1>5. QED
  BY <1>2, <1>3, <1>4 DEF t, f

LEMMA NodeState ==
  ASSUME NEW b, NEW q, NEW st \in SearchState(b, q), NEW node \in Found(q)
  PROVE  /\ WithNode(st, node) \in SearchState(b, q)
         /\ WithNode(st, node).outcome = st.outcome /\ WithNode(st, node).amt = st.amt
<1> DEFINE nodes == Append(st.nodes, node)
           t == WithNode(st, node)
<1>1. st \in SearchRecord(q) /\ (st.outcome = "running" => Booked(b, q, st))
  BY DEF SearchState
<1>2. nodes \in Seq(Found(q))
  BY <1>1 DEF SearchRecord
<1>0. t = [st EXCEPT !.nodes = nodes]
  BY DEF WithNode
<1> HIDE DEF nodes, t
<1>3. /\ t \in SearchRecord(q)
      /\ t.outcome = st.outcome /\ t.amt = st.amt /\ t.matched = st.matched
  BY <1>0, <1>1, <1>2 DEF SearchRecord
<1>4. t \in SearchState(b, q)
  BY <1>1, <1>3 DEF SearchState, Booked
<1>5. QED
  BY <1>3, <1>4 DEF t

LEMMA StateAmounts ==
  ASSUME NEW b, NEW q, NEW st \in SearchState(b, q)
  PROVE  /\ st \in SearchRecord(q) /\ st.amt \in Amounts
         /\ \A o \in Order : /\ Written(st.amt, o) \in Nat
                             /\ FilledBefore(o) <= Written(st.amt, o)
                             /\ Written(st.amt, o) <= Base(o)
<1>1. st \in SearchRecord(q) /\ st.amt \in Amounts
  BY DEF SearchState, SearchRecord
<1>2. QED
  BY <1>1, OrderAmounts DEF Amounts, Written

(* What update does to the amounts.                                          *)
LEMMA UpdateAmounts ==
  ASSUME NEW b, NEW amt \in Amounts, NEW o \in Order,
         NEW filled \in Nat, FilledBefore(o) <= filled, filled <= Base(o)
  PROVE  /\ update(b, amt, o, filled) \in Amounts
         /\ \A x \in Order : x # o => Written(update(b, amt, o, filled), x) = Written(amt, x)
         /\ Written(update(b, amt, o, filled), o) =
              IF update_finds(b, o) THEN filled ELSE Written(amt, o)
<1> DEFINE m == OrderOf[o].market
           a == [amt EXCEPT ![m][o] = filled]
<1>1. m \in Market /\ amt \in [Market -> [Order -> Nat]]
  BY OrderAmounts DEF Amounts
<1>2. a \in [Market -> [Order -> Nat]]
  BY <1>1
<1>3. \A k \in Market, x \in Order :
        a[k][x] = IF k = m /\ x = o THEN filled ELSE amt[k][x]
  BY <1>1
<1>4. update(b, amt, o, filled) = IF update_finds(b, o) THEN a ELSE amt
  BY DEF update
<1> HIDE DEF a
<1>5. a \in Amounts
  BY <1>2, <1>3 DEF Amounts, m
<1>6. \A x \in Order : Written(a, x) = IF x = o THEN filled ELSE Written(amt, x)
  BY <1>3, OrderAmounts DEF Written, m
<1>7. QED
  BY <1>4, <1>5, <1>6

(* What a match does: a state t after st that matched first with second.     *)
Matched(b, q, st, first, second, t) ==
  /\ t \in SearchState(b, q)
  /\ \A o \in Order : o # first /\ o # second => Written(t.amt, o) = Written(st.amt, o)
  /\ Written(t.amt, first) > FilledBefore(first)
  /\ OrderOf[first].market = q.index => Written(t.amt, first) >= Written(st.amt, first)
  /\ IF Shard[OrderOf[first].market] = Shard[OrderOf[second].market]
     THEN t.outcome = "blocked" /\ t.left /\ Written(t.amt, second) = Written(st.amt, second)
     ELSE /\ t.outcome = st.outcome
          /\ IF update_finds(b, second) THEN t.left <=> Written(t.amt, second) = Base(second)
                                        ELSE Written(t.amt, second) = Written(st.amt, second)

LEMMA FillMatches ==
  ASSUME NEW b, NEW q \in Query, NEW st \in SearchState(b, q),
         NEW first \in Order, NEW second \in Order, first # second, update_finds(b, first),
         second \notin Bids(b, q),
         NEW second_left \in Nat, second_left <= Base(second) - FilledBefore(second),
         NEW node \in Found(q)
  PROVE  LET t == fill(b, q, st, first, second, second_left, node)
         IN /\ t \in SearchState(b, q)
            /\ second_left # 0 => Matched(b, q, st, first, second, t)
<1>1. q.index \in Market
  BY SearchAssumption DEF QueryRecord
<1> DEFINE old == st.amt[q.index][first]
           base_filled == lesser(Left(st.amt, q.index, first), second_left)
           amount == Base(second) - second_left + base_filled
           half == update(b, st.amt, first, old + base_filled)
           whole == update(b, half, second, amount)
           same == Shard[OrderOf[first].market] = Shard[OrderOf[second].market]
           blocked == [st EXCEPT !.outcome = "blocked", !.amt = half, !.left = TRUE]
           nodes == Append(st.nodes, node)
           matched == match(st.matched, first, second, base_filled)
           found(left) == [outcome |-> st.outcome, nodes |-> nodes,
                           amt |-> whole, left |-> left, matched |-> matched]
           t == fill(b, q, st, first, second, second_left, node)
<1>2. /\ Base(first) \in Nat /\ FilledBefore(first) \in Nat /\ FilledBefore(first) < Base(first)
      /\ Base(second) \in Nat /\ FilledBefore(second) \in Nat
  BY OrderAmounts
<1>3. /\ st.amt \in Amounts /\ old \in Nat /\ FilledBefore(first) <= old /\ old <= Base(first)
      /\ OrderOf[first].market = q.index => old = Written(st.amt, first)
  BY <1>1, StateAmounts DEF Amounts, Written
<1>4. Left(st.amt, q.index, first) = Base(first) - old
  BY DEF Left, Base
<1>5. t = IF same THEN blocked ELSE found(base_filled = second_left)
  BY DEF fill, Base
<1> HIDE DEF t
<1>6. /\ base_filled \in Nat /\ base_filled <= second_left
      /\ old + base_filled \in Nat /\ old + base_filled <= Base(first)
      /\ FilledBefore(first) <= old + base_filled
      /\ (second_left # 0 => old + base_filled > FilledBefore(first))
      /\ amount \in Nat /\ FilledBefore(second) <= amount /\ amount <= Base(second)
      /\ amount = Base(second) <=> base_filled = second_left
  <2> HIDE DEF old
  <2>1. base_filled = lesser(Base(first) - old, second_left)
    BY <1>4
  <2> HIDE DEF base_filled
  <2>2. /\ base_filled \in Nat /\ base_filled <= second_left
        /\ base_filled <= Base(first) - old
        /\ base_filled = second_left \/ base_filled = Base(first) - old
    BY <1>2, <1>3, <2>1 DEF lesser
  <2>3. QED
    BY <1>2, <1>3, <2>2
<1>7. /\ half \in Amounts
      /\ \A o \in Order : o # first => Written(half, o) = Written(st.amt, o)
      /\ Written(half, first) = old + base_filled
  <2> DEFINE new == old + base_filled
  <2>1. new \in Nat /\ FilledBefore(first) <= new /\ new <= Base(first)
    BY <1>2, <1>6
  <2>2. half = update(b, st.amt, first, new)
    OBVIOUS
  <2> HIDE DEF new, half
  <2>3. /\ half \in Amounts
        /\ \A o \in Order : o # first => Written(half, o) = Written(st.amt, o)
        /\ Written(half, first) = new
    BY <1>3, <2>1, <2>2, UpdateAmounts
  <2>4. QED
    BY <2>3 DEF new
<1> HIDE DEF half, amount
<1>8. /\ whole \in Amounts
      /\ \A o \in Order : o # second => Written(whole, o) = Written(half, o)
      /\ Written(whole, second) = IF update_finds(b, second) THEN amount ELSE Written(half, second)
  BY <1>6, <1>7, UpdateAmounts
<1> HIDE DEF whole, old, base_filled
<1>9. CASE same
  <2>3. st \in SearchRecord(q) /\ half \in Amounts
    BY <1>7, StateAmounts
  <2>0. /\ blocked \in SearchRecord(q)
        /\ blocked.amt = half /\ blocked.outcome = "blocked" /\ blocked.left
    BY <2>3 DEF SearchRecord
  <2>1. /\ t \in SearchState(b, q)
        /\ t.amt = half /\ t.outcome = "blocked" /\ t.left
    BY <1>5, <1>9, <2>0 DEF SearchState
  <2>2. QED
    BY <1>2, <1>3, <1>6, <1>7, <1>9, <2>1 DEF Matched, t
<1>10. CASE ~same
  <2>0. st \in SearchRecord(q) /\ (st.outcome = "running" => Booked(b, q, st))
    BY DEF SearchState
  <2>1. nodes \in Seq(Found(q))
    BY <2>0 DEF SearchRecord
  <2>2. /\ matched \in [Order -> Nat] /\ st.matched \in [Order -> Nat]
        /\ \A o \in Order : o # first /\ o # second => matched[o] = st.matched[o]
        /\ matched[first] = st.matched[first] + base_filled
    <3>1. st.matched \in [Order -> Nat]
      BY <2>0 DEF SearchRecord
    <3>2. QED
      BY <1>6, <3>1 DEF match
  <2> HIDE DEF nodes, matched
  <2>3. \A left \in BOOLEAN : found(left) \in SearchState(b, q)
    <3> SUFFICES ASSUME NEW left \in BOOLEAN PROVE found(left) \in SearchState(b, q)
      OBVIOUS
    <3>1. /\ found(left) \in SearchRecord(q) /\ found(left).outcome = st.outcome
          /\ found(left).amt = whole /\ found(left).matched = matched
      BY <1>8, <2>0, <2>1, <2>2 DEF SearchRecord
    <3>2. ASSUME st.outcome = "running", NEW o \in Bids(b, q) \cap Order
          PROVE  Written(whole, o) = FilledBefore(o) + matched[o]
      <4>1. o # second /\ o \in Order /\ OrderOf[o].market = q.index
        BY DEF Bids
      <4>2. Written(st.amt, o) = FilledBefore(o) + st.matched[o]
        BY <2>0, <3>2 DEF Booked
      <4>3. CASE o = first
        <5>1. Written(whole, o) = Written(st.amt, o) + base_filled
          BY <1>3, <1>7, <1>8, <4>1, <4>3
        <5>2. QED
          BY <1>2, <1>6, <2>2, <4>2, <4>3, <5>1
      <4>4. CASE o # first
        <5>1. Written(whole, o) = Written(st.amt, o) /\ matched[o] = st.matched[o]
          BY <1>7, <1>8, <2>2, <4>1, <4>4
        <5>2. QED
          BY <4>2, <5>1
      <4>5. QED
        BY <4>3, <4>4
    <3> HIDE DEF found
    <3>3. QED
      BY <3>1, <3>2 DEF SearchState, Booked
  <2>4. (base_filled = second_left) \in BOOLEAN
    OBVIOUS
  <2>5. /\ t \in SearchState(b, q)
        /\ t.amt = whole /\ t.outcome = st.outcome
        /\ t.left <=> base_filled = second_left
    BY <1>5, <1>10, <2>3, <2>4
  <2>6. Written(t.amt, first) = old + base_filled
    BY <1>7, <1>8, <2>5
  <2>7. \A o \in Order : o # first /\ o # second => Written(t.amt, o) = Written(st.amt, o)
    BY <1>7, <1>8, <2>5
  <2>8. IF update_finds(b, second) THEN t.left <=> Written(t.amt, second) = Base(second)
                                   ELSE Written(t.amt, second) = Written(st.amt, second)
    BY <1>6, <1>7, <1>8, <2>5
  <2>9. QED
    BY <1>2, <1>3, <1>6, <1>10, <2>5, <2>6, <2>7, <2>8 DEF Matched, t
<1>11. QED
  BY <1>9, <1>10

LEMMA QuotientType ==
  ASSUME NEW a \in Int, NEW d \in Nat \ {0}
  PROVE  quotient(a, d) \in Int
BY DEF quotient

LEMMA PriceType ==
  ASSUME slot \in Nat, NEW q \in Query, NEW o \in Order
  PROVE  Price(q, o) \in Int
<1> DEFINE order == OrderOf[o]
<1>1. order \in OrderRecord /\ q.oracle_price \in Int
  BY OrderAssumption, SearchAssumption DEF QueryRecord
<1>2. auction_offset(order, slot) \in Int \/ order.auction_duration = 0
  <2> SUFFICES ASSUME order.auction_duration # 0 PROVE auction_offset(order, slot) \in Int
    OBVIOUS
  <2> DEFINE num == lesser(slot - order.slot, order.auction_duration)
             den == order.auction_duration
  <2>1. /\ den \in Nat \ {0} /\ num \in Int
        /\ order.auction_start_price \in Int /\ order.auction_end_price \in Int
    BY <1>1 DEF OrderRecord, lesser
  <2>2. /\ order.auction_start_price * num \in Int
        /\ order.auction_end_price * num \in Int
    BY <2>1
  <2>3. /\ quotient(order.auction_start_price * num, den) \in Int
        /\ quotient(order.auction_end_price * num, den) \in Int
    BY <2>1, <2>2, QuotientType
  <2>4. QED
    BY <2>1, <2>3 DEF auction_offset
<1>3. /\ order.auction_start_price \in Int /\ order.oracle_price_offset \in Int
      /\ order.price \in Int
  BY <1>1 DEF OrderRecord
<1>4. order.auction_duration = 0 => is_auction_complete(order, slot)
  BY DEF is_auction_complete
<1>5. get_limit_price(order, q.oracle_price, slot) \in Int
  <2> HIDE DEF order
  <2>1. QED
    BY <1>1, <1>2, <1>3, <1>4 DEF get_limit_price, get_auction_price, has_auction_price, NoPrice
<1>6. QED
  BY <1>5 DEF Price

LEMMA MatchFound ==
  ASSUME NEW q, NEW o \in Order, NEW p \in Order
  PROVE  NodeToFill(o, <<p>>) \in Found(q)
<1> DEFINE n == NodeToFill(o, <<p>>)
           makers == <<p>>
<1>1. makers \in Seq(Order) /\ makers # <<>> /\ DOMAIN makers = {1} /\ makers[1] = p
  OBVIOUS
<1>2. n = [node |-> o, maker_nodes |-> makers]
  BY DEF NodeToFill
<1> HIDE DEF makers, n
<1>3. n \in [node: Order, maker_nodes: Seq(Order)] /\ n.node = o /\ n.maker_nodes = makers
  BY <1>1, <1>2
<1>4. n \in Found(q)
  BY <1>1, <1>3 DEF Found
<1>5. QED
  BY <1>4 DEF n, makers

-----------------------------------------------------------------------------
(* What blocks a search, and what it may leave behind.                       *)
HalfFilled(b, q, amt) ==
  \E p \in Crossed(b, q) :
    /\ SameShard(p)
    /\ Written(amt, p[2]) > FilledBefore(p[2])
    /\ Written(amt, p[1]) < Base(p[1])

(* The states of the loops over the makers of an order o: s is the state     *)
(* before, makers are the orders it may be matched with.                     *)
Matching(b, q, s, o, makers) ==
  {t \in SearchState(b, q) :
     /\ t.outcome # "running" => t.left
     /\ ~t.left => Written(t.amt, o) < Base(o)
     /\ t.outcome = "blocked" => HalfFilled(b, q, t.amt)
     /\ \A x \in Order : x # o /\ x \notin makers => Written(t.amt, x) = Written(s.amt, x)
     /\ \A x \in makers : OrderOf[x].market = q.index =>
          Written(t.amt, x) >= Written(s.amt, x)}

LEMMA MatchingStep ==
  ASSUME NEW b, NEW q \in Query, NEW s, NEW o \in Order, NEW makers \in SUBSET Order,
         NEW t \in Matching(b, q, s, o, makers), ~t.left, NEW maker \in makers, o \notin makers,
         s.amt \in Amounts,
         <<o, maker>> \in Crossed(b, q),
         NEW u, Matched(b, q, t, maker, o, u)
  PROVE  /\ u \in Matching(b, q, s, o, makers)
         /\ u.outcome = "running" => ~SameShard(<<o, maker>>)
         /\ u.outcome = "running" /\ u.left /\ update_finds(b, o) => Written(u.amt, o) = Base(o)
<1>1. /\ t \in SearchState(b, q) /\ t.outcome = "running"
      /\ Written(t.amt, o) < Base(o)
      /\ \A x \in Order : x # o /\ x \notin makers => Written(t.amt, x) = Written(s.amt, x)
      /\ \A x \in makers : OrderOf[x].market = q.index => Written(t.amt, x) >= Written(s.amt, x)
  BY DEF Matching
<1>2. \A x \in Order : Written(t.amt, x) \in Nat /\ Written(s.amt, x) \in Nat
  BY <1>1, StateAmounts, OrderAmounts DEF Amounts, Written
<1>3. u \in SearchState(b, q)
  BY DEF Matched
<1>4. \A x \in Order : Written(u.amt, x) \in Nat
  BY <1>3, StateAmounts
<1>5. \A x \in Order : x # o /\ x \notin makers => Written(u.amt, x) = Written(s.amt, x)
  BY <1>1 DEF Matched
<1>6. \A x \in makers : OrderOf[x].market = q.index => Written(u.amt, x) >= Written(s.amt, x)
  <2> SUFFICES ASSUME NEW x \in makers, OrderOf[x].market = q.index
               PROVE  Written(u.amt, x) >= Written(s.amt, x)
    OBVIOUS
  <2>1. CASE x = maker
    <3>1. Written(u.amt, x) >= Written(t.amt, x)
      BY <2>1 DEF Matched
    <3>2. Written(t.amt, x) >= Written(s.amt, x)
      BY <1>1
    <3>3. QED
      BY <1>2, <1>4, <3>1, <3>2
  <2>2. CASE x = o
    BY <2>2
  <2>3. CASE x # maker /\ x # o
    BY <1>1, <2>3 DEF Matched
  <2>4. QED
    BY <2>1, <2>2, <2>3
<1>7. CASE SameShard(<<o, maker>>)
  <2>1. /\ u.outcome = "blocked" /\ u.left /\ Written(u.amt, o) = Written(t.amt, o)
        /\ Written(u.amt, maker) > FilledBefore(maker)
    BY <1>7 DEF Matched, SameShard
  <2>2. HalfFilled(b, q, u.amt)
    BY <1>1, <1>7, <2>1 DEF HalfFilled
  <2>3. QED
    BY <1>3, <1>5, <1>6, <2>1, <2>2 DEF Matching
<1>8. CASE ~SameShard(<<o, maker>>)
  <2>1. /\ u.outcome = "running"
        /\ IF update_finds(b, o) THEN u.left <=> Written(u.amt, o) = Base(o)
                                 ELSE Written(u.amt, o) = Written(t.amt, o)
    BY <1>1, <1>8 DEF Matched, SameShard
  <2>2. Written(u.amt, o) <= Base(o) /\ Base(o) \in Nat
    BY <1>3, StateAmounts, OrderAmounts
  <2>3. ~u.left => Written(u.amt, o) < Base(o)
    BY <1>1, <1>4, <2>1, <2>2
  <2>4. QED
    BY <1>3, <1>5, <1>6, <1>8, <2>1, <2>3 DEF Matching
<1>9. QED
  BY <1>7, <1>8

-----------------------------------------------------------------------------
OtherSide(side) == IF side = "asks" THEN "bids" ELSE "asks"

LEMMA RestingCrossed ==
  ASSUME slot \in Nat, NEW b, GoodBook(b, slot), NEW q \in Query,
         NEW ask \in resting_limit_orders(b, q, "asks"), NEW bid \in resting_limit_orders(b, q, "bids")
  PROVE  <<ask, bid>> \in Crossed(b, q) <=>
           /\ ~no_taker(OrderOf[ask], OrderOf[bid])
           /\ Strangers(ask, bid)
           /\ Price(q, ask) <= Price(q, bid)
<1>1. \A side \in Side : ask \notin taking_orders(b, q, side)
  <2> SUFFICES ASSUME NEW side \in Side, ask \in taking_orders(b, q, side) PROVE FALSE
    OBVIOUS
  <2>1. PlaceOf(b, ask) \in {"TakingLimit", "Market"}
    BY TakingFiled
  <2>2. PlaceOf(b, ask) \in {"RestingLimit", "FloatingLimit"}
    BY RestingFiled DEF Side
  <2>3. QED
    BY <2>1, <2>2
<1>2. QED
  BY <1>1 DEF Crossed, Side

LEMMA TakingCrossed ==
  ASSUME slot \in Nat, NEW b, GoodBook(b, slot), NEW q \in Query, NEW side \in Side,
         NEW taker \in taking_orders(b, q, side),
         NEW maker \in resting_limit_orders(b, q, OtherSide(side)), Price(q, maker) >= 0
  PROVE  <<taker, maker>> \in Crossed(b, q) <=>
           Strangers(taker, maker) /\ does_cross(q, side, Price(q, taker), Price(q, maker))
<1>1. OtherSide(side) \in Side
  BY DEF OtherSide, Side
<1>2. sub_type(OrderOf[taker]) = side /\ PlaceOf(b, taker) \in {"TakingLimit", "Market"}
  BY TakingFiled
<1>3. taker \in Order /\ maker \in Order
  BY <1>1, TakingFiled, RestingFiled
<1>4. taker \notin resting_limit_orders(b, q, "asks")
  <2> SUFFICES ASSUME taker \in resting_limit_orders(b, q, "asks") PROVE FALSE
    OBVIOUS
  <2>1. PlaceOf(b, taker) \in {"RestingLimit", "FloatingLimit"}
    BY RestingFiled DEF Side
  <2>2. QED
    BY <1>2, <2>1
<1>5. taker \notin taking_orders(b, q, OtherSide(side))
  <2> SUFFICES ASSUME taker \in taking_orders(b, q, OtherSide(side)) PROVE FALSE
    OBVIOUS
  <2>1. sub_type(OrderOf[taker]) = OtherSide(side)
    BY <1>1, TakingFiled
  <2>2. QED
    BY <1>2, <2>1 DEF OtherSide, Side
<1>6. Price(q, taker) \in Int /\ Price(q, maker) \in Int
  BY <1>3, PriceType
<1>7. q.fallback_bid \in Int /\ q.fallback_ask \in Int
  BY SearchAssumption DEF QueryRecord
<1>8. CASE side = "asks"
  <2>1. <<taker, maker>> \in Crossed(b, q) <=>
          /\ Strangers(taker, maker) /\ Price(q, taker) <= Price(q, maker)
          /\ q.index \in Perp \/ q.fallback_bid <= Price(q, maker)
    BY <1>4, <1>5, <1>8 DEF Crossed, OtherSide
  <2>2. QED
    BY <1>6, <1>7, <1>8, <2>1 DEF does_cross, NoFallback
<1>9. CASE side = "bids"
  <2>1. <<taker, maker>> \in Crossed(b, q) <=>
          /\ Strangers(taker, maker) /\ Price(q, taker) >= Price(q, maker)
          /\ q.index \in Perp \/ q.fallback_ask = NoFallback \/ q.fallback_ask >= Price(q, maker)
    BY <1>4, <1>5, <1>9 DEF Crossed, OtherSide
  <2>2. QED
    BY <1>6, <1>7, <1>9, <2>1 DEF does_cross, NoFallback
<1>10. QED
  BY <1>8, <1>9 DEF Side

(* An ask and a bid of the resting lists.                                    *)
LEMMA AskAndBid ==
  ASSUME slot \in Nat, NEW b, GoodBook(b, slot), NEW q \in Query,
         NEW side \in Side, NEW o \in resting_limit_orders(b, q, side) \cup taking_orders(b, q, side)
  PROVE  /\ o \in Order
         /\ o \notin resting_limit_orders(b, q, OtherSide(side))
         /\ resting_limit_orders(b, q, OtherSide(side)) \in SUBSET Order
         /\ \A maker \in resting_limit_orders(b, q, OtherSide(side)) : update_finds(b, maker)
         /\ side = "asks" \/ o \in taking_orders(b, q, side) => o \notin Bids(b, q)
<1>1. OtherSide(side) \in Side /\ OtherSide(side) # side
  BY DEF OtherSide, Side
<1>2. \A x \in resting_limit_orders(b, q, OtherSide(side)) :
        x \in Order /\ sub_type(OrderOf[x]) = OtherSide(side) /\ update_finds(b, x)
  BY <1>1, RestingFiled
<1>3. o \in Order /\ sub_type(OrderOf[o]) = side
  BY RestingFiled, TakingFiled
<1>4. ASSUME side = "asks" \/ o \in taking_orders(b, q, side), o \in Bids(b, q) PROVE FALSE
  <2>1. sub_type(OrderOf[o]) = "bids" /\ PlaceOf(b, o) \in {"RestingLimit", "FloatingLimit"}
    BY <1>4, RestingFiled DEF Bids, Side
  <2>2. o \in taking_orders(b, q, side)
    BY <1>3, <1>4, <2>1
  <2>3. PlaceOf(b, o) \in {"TakingLimit", "Market"}
    BY <2>2, TakingFiled
  <2>4. QED
    BY <2>1, <2>3
<1>5. QED
  BY <1>1, <1>2, <1>3, <1>4

(* One bid: the search goes on in a state of the loop.  It leaves the loop   *)
(* at a bid below the ask or when the ask is filled, and passes over no bid  *)
(* of one shard with the ask that crosses it.                                *)
LEMMA BidStep ==
  ASSUME slot \in Nat, NEW b, GoodBook(b, slot), NEW q \in Query,
         NEW ask \in resting_limit_orders(b, q, "asks"),
         NEW s \in SearchState(b, q),
         NEW t \in Matching(b, q, s, ask, resting_limit_orders(b, q, "bids")),
         NEW bid \in resting_limit_orders(b, q, "bids"),
         NEW ask_left \in Nat, ask_left = Base(ask) - FilledBefore(ask)
  PROVE  LET u == crossing_bid(b, q, t, ask, ask_left, bid)
         IN /\ u \in Matching(b, q, s, ask, resting_limit_orders(b, q, "bids"))
            /\ t.left => u = t
            /\ ~t.left /\ u.outcome = "running" =>
                 IF u.left THEN Written(u.amt, ask) = Base(ask) \/ Price(q, bid) < Price(q, ask)
                           ELSE ~(<<ask, bid>> \in Crossed(b, q) /\ SameShard(<<ask, bid>>))
<1> DEFINE R == resting_limit_orders(b, q, "bids")
           u == crossing_bid(b, q, t, ask, ask_left, bid)
           node == IF ask_takes(OrderOf[ask], OrderOf[bid]) THEN NodeToFill(ask, <<bid>>)
                                                           ELSE NodeToFill(bid, <<ask>>)
           pass == [t EXCEPT !.left = TRUE]
           filled == fill(b, q, t, bid, ask, ask_left, node)
<1>1. /\ ask \in Order /\ bid \in Order /\ R \in SUBSET Order
      /\ ask \notin R /\ ask # bid
      /\ update_finds(b, ask) /\ update_finds(b, bid) /\ ask \notin Bids(b, q)
  <2>1. "asks" \in Side /\ OtherSide("asks") = "bids"
    BY DEF OtherSide, Side
  <2>2. update_finds(b, ask)
    BY <2>1, RestingFiled
  <2>3. QED
    BY <2>1, <2>2, AskAndBid
<1>2. Price(q, ask) \in Int /\ Price(q, bid) \in Int
  BY <1>1, PriceType
<1>3. ask_left \in Nat \ {0} /\ ask_left <= Base(ask) - FilledBefore(ask)
  BY <1>1, OrderAmounts
<1>4. t \in SearchState(b, q) /\ s.amt \in Amounts /\ t \in Matching(b, q, s, ask, R)
  BY StateAmounts DEF Matching
<1>5. node \in Found(q)
  BY <1>1, MatchFound
<1>6. u = IF t.left THEN t
          ELSE IF Price(q, bid) < 0 THEN Panic(t)
          ELSE IF Price(q, bid) < Price(q, ask) THEN pass
          ELSE IF ~Strangers(ask, bid) \/ no_taker(OrderOf[ask], OrderOf[bid]) THEN t
          ELSE filled
  BY DEF crossing_bid, Strangers
<1>7. <<ask, bid>> \in Crossed(b, q) <=>
        /\ ~no_taker(OrderOf[ask], OrderOf[bid])
        /\ Strangers(ask, bid)
        /\ Price(q, ask) <= Price(q, bid)
  BY RestingCrossed
<1> HIDE DEF u, filled, node, R
<1>8. CASE t.left
  BY <1>6, <1>8 DEF R, u
<1>9. CASE ~t.left /\ Price(q, bid) < 0
  <2>1. u = Panic(t)
    BY <1>6, <1>9
  <2>2. u \in SearchState(b, q) /\ u.outcome = "panicked" /\ u.left /\ u.amt = t.amt
    BY <1>4, <2>1, PanicState
  <2>3. u \in Matching(b, q, s, ask, R)
    BY <1>4, <2>2 DEF Matching
  <2>4. QED
    BY <1>9, <2>2, <2>3 DEF R, u
<1>10. CASE ~t.left /\ ~(Price(q, bid) < 0) /\ Price(q, bid) < Price(q, ask)
  <2>1. u = Passed(t)
    BY <1>6, <1>10 DEF Passed
  <2>2. u \in SearchState(b, q) /\ u.outcome = t.outcome /\ u.left /\ u.amt = t.amt
    BY <1>4, <2>1, LeaveState
  <2>3. u \in Matching(b, q, s, ask, R)
    BY <1>4, <2>2 DEF Matching
  <2>4. QED
    BY <1>10, <2>2, <2>3 DEF R, u
<1>11. CASE /\ ~t.left /\ ~(Price(q, bid) < 0) /\ ~(Price(q, bid) < Price(q, ask))
            /\ ~Strangers(ask, bid) \/ no_taker(OrderOf[ask], OrderOf[bid])
  BY <1>6, <1>7, <1>11 DEF R, u
<1>12. CASE /\ ~t.left /\ ~(Price(q, bid) < 0) /\ ~(Price(q, bid) < Price(q, ask))
            /\ Strangers(ask, bid) /\ ~no_taker(OrderOf[ask], OrderOf[bid])
  <2>1. <<ask, bid>> \in Crossed(b, q)
    BY <1>2, <1>7, <1>12
  <2>2. u = filled
    BY <1>6, <1>12
  <2>3. Matched(b, q, t, bid, ask, u)
    BY <1>1, <1>3, <1>4, <1>5, <2>2, FillMatches DEF filled
  <2>4. bid \in R
    BY DEF R
  <2>5. /\ u \in Matching(b, q, s, ask, R)
        /\ u.outcome = "running" => ~SameShard(<<ask, bid>>)
        /\ u.outcome = "running" /\ u.left /\ update_finds(b, ask) => Written(u.amt, ask) = Base(ask)
    BY <1>1, <1>4, <1>12, <2>1, <2>3, <2>4, MatchingStep
  <2>6. QED
    BY <1>1, <1>12, <2>5 DEF R, u
<1>13. QED
  BY <1>8, <1>9, <1>10, <1>11, <1>12

(* One maker: a taker leaves the loop only when it is filled.                *)
LEMMA MakerStep ==
  ASSUME slot \in Nat, NEW b, GoodBook(b, slot), NEW q \in Query, NEW side \in Side,
         NEW taker \in taking_orders(b, q, side),
         NEW s \in SearchState(b, q),
         NEW t \in Matching(b, q, s, taker, resting_limit_orders(b, q, OtherSide(side))),
         NEW maker \in resting_limit_orders(b, q, OtherSide(side)),
         NEW taker_left \in Nat, taker_left = Base(taker) - FilledBefore(taker)
  PROVE  LET u == crossing_maker(b, q, t, side, taker, taker_left, maker)
         IN /\ u \in Matching(b, q, s, taker, resting_limit_orders(b, q, OtherSide(side)))
            /\ t.left => u = t
            /\ ~t.left /\ u.outcome = "running" =>
                 IF u.left THEN update_finds(b, taker) => Written(u.amt, taker) = Base(taker)
                           ELSE ~(<<taker, maker>> \in Crossed(b, q) /\ SameShard(<<taker, maker>>))
<1> DEFINE R == resting_limit_orders(b, q, OtherSide(side))
           u == crossing_maker(b, q, t, side, taker, taker_left, maker)
           node == NodeToFill(taker, <<maker>>)
           filled == fill(b, q, t, maker, taker, taker_left, node)
           Cross == does_cross(q, side, Price(q, taker), Price(q, maker))
<1>1. /\ taker \in Order /\ maker \in Order /\ R \in SUBSET Order
      /\ taker \notin R /\ taker # maker
      /\ update_finds(b, maker) /\ taker \notin Bids(b, q)
  BY AskAndBid
<1>2. Price(q, taker) \in Int /\ Price(q, maker) \in Int
  BY <1>1, PriceType
<1>3. taker_left # 0 /\ taker_left <= Base(taker) - FilledBefore(taker)
  BY <1>1, OrderAmounts
<1>4. t \in SearchState(b, q) /\ s.amt \in Amounts /\ t \in Matching(b, q, s, taker, R)
  BY StateAmounts DEF Matching
<1>5. node \in Found(q)
  BY <1>1, MatchFound
<1>6. u = IF t.left \/ ~Strangers(taker, maker) THEN t
          ELSE IF Price(q, taker) < 0 \/ Price(q, maker) < 0 THEN Panic(t)
          ELSE IF ~Cross THEN t
          ELSE filled
  BY DEF crossing_maker, Strangers
<1>7. Price(q, maker) >= 0 =>
        (<<taker, maker>> \in Crossed(b, q) <=> Strangers(taker, maker) /\ Cross)
  BY TakingCrossed
<1>8. <<taker, maker>> \in Crossed(b, q) => Strangers(taker, maker)
  BY DEF Crossed
<1> HIDE DEF u, filled, node, R, Cross
<1>9. CASE t.left
  BY <1>6, <1>9 DEF R, u
<1>10. CASE ~t.left /\ ~Strangers(taker, maker)
  BY <1>4, <1>6, <1>8, <1>10 DEF R, u
<1>11. CASE /\ ~t.left /\ Strangers(taker, maker)
            /\ Price(q, taker) < 0 \/ Price(q, maker) < 0
  <2>1. u = Panic(t)
    BY <1>6, <1>11
  <2>2. u \in SearchState(b, q) /\ u.outcome = "panicked" /\ u.left /\ u.amt = t.amt
    BY <1>4, <2>1, PanicState
  <2>3. u \in Matching(b, q, s, taker, R)
    BY <1>4, <2>2 DEF Matching
  <2>4. QED
    BY <1>11, <2>2, <2>3 DEF R, u
<1>12. CASE /\ ~t.left /\ Strangers(taker, maker)
            /\ ~(Price(q, taker) < 0) /\ ~(Price(q, maker) < 0) /\ ~Cross
  BY <1>2, <1>4, <1>6, <1>7, <1>12 DEF R, u
<1>13. CASE /\ ~t.left /\ Strangers(taker, maker)
            /\ ~(Price(q, taker) < 0) /\ ~(Price(q, maker) < 0) /\ Cross
  <2>1. <<taker, maker>> \in Crossed(b, q)
    BY <1>2, <1>7, <1>13
  <2>2. u = filled
    BY <1>6, <1>13
  <2>3. Matched(b, q, t, maker, taker, u)
    BY <1>1, <1>3, <1>4, <1>5, <2>2, FillMatches DEF filled
  <2>4. maker \in R
    BY DEF R
  <2>5. /\ u \in Matching(b, q, s, taker, R)
        /\ u.outcome = "running" => ~SameShard(<<taker, maker>>)
        /\ u.outcome = "running" /\ u.left /\ update_finds(b, taker) => Written(u.amt, taker) = Base(taker)
    BY <1>1, <1>4, <1>13, <2>1, <2>3, <2>4, MatchingStep
  <2>6. QED
    BY <1>1, <1>13, <2>5 DEF R, u
<1>14. QED
  BY <1>9, <1>10, <1>11, <1>12, <1>13

(* Whatever the state, a search goes on in one.                              *)
LEMMA LeftAmount ==
  ASSUME NEW b, NEW q \in Query, NEW st \in SearchState(b, q), NEW o \in Order
  PROVE  /\ Left(st.amt, q.index, o) \in Nat
         /\ Left(st.amt, q.index, o) <= Base(o) - FilledBefore(o)
<1>1. q.index \in Market
  BY SearchAssumption DEF QueryRecord
<1>2. /\ st.amt[q.index][o] \in Nat
      /\ FilledBefore(o) <= st.amt[q.index][o] /\ st.amt[q.index][o] <= Base(o)
  BY <1>1, StateAmounts DEF Amounts
<1>3. QED
  BY <1>2, OrderAmounts DEF Left, Base

LEMMA CrossingState ==
  ASSUME slot \in Nat, NEW b, GoodBook(b, slot), NEW q \in Query, NEW side \in Side,
         NEW t \in SearchState(b, q), NEW o \in Order, NEW left \in Nat, left <= Base(o) - FilledBefore(o),
         NEW maker \in resting_limit_orders(b, q, OtherSide(side)),
         o \notin resting_limit_orders(b, q, OtherSide(side)), o \notin Bids(b, q)
  PROVE  /\ side = "asks" => crossing_bid(b, q, t, o, left, maker) \in SearchState(b, q)
         /\ crossing_maker(b, q, t, side, o, left, maker) \in SearchState(b, q)
<1>1. maker \in Order /\ update_finds(b, maker)
  <2>1. OtherSide(side) \in Side
    BY DEF OtherSide, Side
  <2>2. QED
    BY <2>1, RestingFiled
<1> DEFINE node == IF ask_takes(OrderOf[o], OrderOf[maker]) THEN NodeToFill(o, <<maker>>)
                                                           ELSE NodeToFill(maker, <<o>>)
           taken == NodeToFill(o, <<maker>>)
<1>2. o # maker
  OBVIOUS
<1>3. node \in Found(q) /\ taken \in Found(q)
  BY <1>1, MatchFound
<1>4. /\ Panic(t) \in SearchState(b, q)
      /\ [t EXCEPT !.left = TRUE] \in SearchState(b, q)
  <2>1. Passed(t) \in SearchState(b, q)
    BY LeaveState
  <2>2. QED
    BY <2>1, PanicState DEF Passed
<1> HIDE DEF node, taken
<1>5. /\ fill(b, q, t, maker, o, left, node) \in SearchState(b, q)
      /\ fill(b, q, t, maker, o, left, taken) \in SearchState(b, q)
  BY <1>1, <1>2, <1>3, FillMatches
<1>6. crossing_bid(b, q, t, o, left, maker) \in
        {t, Panic(t), [t EXCEPT !.left = TRUE], fill(b, q, t, maker, o, left, node)}
  BY DEF crossing_bid, node
<1>7. crossing_maker(b, q, t, side, o, left, maker) \in
        {t, Panic(t), fill(b, q, t, maker, o, left, taken)}
  BY DEF crossing_maker, taken
<1>8. QED
  BY <1>4, <1>5, <1>6, <1>7

LEMMA WithAsk ==
  ASSUME slot \in Nat, NEW b, GoodBook(b, slot), NEW q \in Query,
         NEW ask \in resting_limit_orders(b, q, "asks"),
         NEW st, st.amt[q.index][ask] = FilledBefore(ask),
         NEW s \in SearchState(b, q), s.outcome = "running", Written(s.amt, ask) = FilledBefore(ask),
         NEW n \in Nat, NEW bids, Listed(bids, resting_limit_orders(b, q, "bids"), n),
         \A i, j \in 1..n : i < j => ~(Price(q, bids[j]) > Price(q, bids[i]))
  PROVE  LET t == with_ask(b, q, st, bids, s, ask)
         IN /\ t \in Matching(b, q, s, ask, resting_limit_orders(b, q, "bids"))
            /\ t.outcome = "running" =>
                 \A bid \in resting_limit_orders(b, q, "bids") :
                   <<ask, bid>> \in Crossed(b, q) /\ SameShard(<<ask, bid>>) =>
                     Written(t.amt, ask) = Base(ask)
<1> DEFINE R == resting_limit_orders(b, q, "bids")
           T == Matching(b, q, s, ask, R)
           C(bid) == <<ask, bid>> \in Crossed(b, q) /\ SameShard(<<ask, bid>>)
           ask_left == Left(st.amt, q.index, ask)
           base == [s EXCEPT !.left = FALSE]
           fold == FoldLeft(LAMBDA t, bid : crossing_bid(b, q, t, ask, ask_left, bid), base, bids)
           P(t, k) == t.outcome = "running" =>
                        IF t.left THEN Written(t.amt, ask) = Base(ask) \/ \A i \in 1..n : ~C(bids[i])
                                  ELSE \A i \in 1..k : ~C(bids[i])
           tt == with_ask(b, q, st, bids, s, ask)
<1>1. ask \in Order /\ R \in SUBSET Order
  BY RestingFiled DEF Side
<1>2. ask_left = Base(ask) - FilledBefore(ask) /\ ask_left \in Nat
  BY <1>1, OrderAmounts DEF Left, Base
<1>3. tt = IF Price(q, ask) < 0 \/ SortPanics(q, bids) THEN Panic(s) ELSE fold
  BY DEF with_ask
<1>4. base \in T
  <2>1. /\ base \in SearchState(b, q) /\ base.outcome = "running" /\ ~base.left /\ base.amt = s.amt
    <3>1. base = Entered(s)
      BY DEF Entered
    <3> HIDE DEF base
    <3>2. QED
      BY <3>1, LeaveState
  <2>2. Written(s.amt, ask) < Base(ask)
    BY <1>1, OrderAmounts
  <2>3. \A x \in Order : Written(s.amt, x) \in Nat
    BY StateAmounts
  <2> HIDE DEF base, R
  <2>4. QED
    BY <1>1, <2>1, <2>2, <2>3 DEF Matching
<1>5. Panic(s) \in T
  <2>1. /\ Panic(s) \in SearchState(b, q)
        /\ Panic(s).outcome = "panicked" /\ Panic(s).left /\ Panic(s).amt = s.amt
    BY PanicState
  <2>2. \A x \in Order : Written(s.amt, x) \in Nat
    BY StateAmounts
  <2> HIDE DEF R
  <2>3. QED
    BY <1>1, <2>1, <2>2 DEF Matching
<1>6. bids \in [1..n -> Order] /\ \A k \in 1..n : bids[k] \in R
  BY <1>1 DEF Listed
<1>7. ASSUME NEW t \in T, NEW bid \in R
      PROVE  LET u == crossing_bid(b, q, t, ask, ask_left, bid)
             IN /\ u \in T
                /\ t.left => u = t
                /\ ~t.left /\ u.outcome = "running" =>
                     IF u.left THEN Written(u.amt, ask) = Base(ask) \/ Price(q, bid) < Price(q, ask)
                               ELSE ~C(bid)
  <2> HIDE DEF ask_left
  <2>1. QED
    BY <1>2, BidStep
<1> HIDE DEF ask_left, base, T, R, fold, tt
<1>8. BidRuns(b, q, ask, ask_left, T, base, n, bids)
  BY <1>4, <1>6, <1>7, BidRun
<1>9. PICK run \in [0..n -> T] :
        /\ run[0] = base
        /\ run[n] = fold
        /\ \A k \in 1..n : run[k] = crossing_bid(b, q, run[k - 1], ask, ask_left, bids[k])
  BY <1>8 DEF BidRuns, fold
<1> DEFINE K == {k \in 0..n : P(run[k], k)}
<1>10. 0 \in K
  <2>1. base.left = FALSE
    BY LeaveState DEF base, Entered
  <2>2. P(run[0], 0)
    BY <1>9, <2>1
  <2>3. QED
    BY <2>2
<1>11. ASSUME NEW k \in 1..n, k - 1 \in K PROVE k \in K
  <2> DEFINE t == run[k - 1]
             u == run[k]
             bid == bids[k]
  <2>1. k - 1 \in 0..n /\ k \in 0..n /\ t \in T /\ u \in T /\ bid \in R /\ P(t, k - 1)
    BY <1>6, <1>11
  <2>2. u = crossing_bid(b, q, t, ask, ask_left, bid)
    BY <1>9
  <2>3. /\ t.left => u = t
        /\ ~t.left /\ u.outcome = "running" =>
             IF u.left THEN Written(u.amt, ask) = Base(ask) \/ Price(q, bid) < Price(q, ask)
                       ELSE ~C(bid)
    BY <1>7, <2>1, <2>2
  <2>4. P(u, k)
    <3> HIDE DEF t, u, bid, C
    <3>1. CASE t.left
      BY <2>1, <2>3, <3>1
    <3>2. CASE ~t.left /\ u.outcome = "running" /\ ~u.left
      <4>1. t.outcome = "running"
        BY <2>1, <3>2 DEF T, Matching
      <4>2. \A i \in 1..(k - 1) : ~C(bids[i])
        BY <2>1, <3>2, <4>1
      <4>3. ~C(bids[k])
        BY <2>3, <3>2 DEF bid
      <4>4. \A i \in 1..k : i \in 1..(k - 1) \/ i = k
        OBVIOUS
      <4>5. QED
        BY <3>2, <4>2, <4>3, <4>4
    <3>3. CASE ~t.left /\ u.outcome = "running" /\ u.left /\ Price(q, bid) < Price(q, ask)
      <4>1. t.outcome = "running"
        BY <2>1, <3>3 DEF T, Matching
      <4>2. \A i \in 1..(k - 1) : ~C(bids[i])
        BY <2>1, <3>3, <4>1
      <4>3. ASSUME NEW i \in k..n PROVE ~C(bids[i])
        <5>1. i \in 1..n /\ bids[i] \in R /\ bids[i] \in Order /\ (k < i \/ i = k)
          BY <1>6
        <5>2. Price(q, bids[i]) \in Int /\ Price(q, ask) \in Int /\ Price(q, bids[k]) \in Int
          BY <1>1, <1>6, <5>1, PriceType
        <5>3. Price(q, bids[i]) <= Price(q, bids[k])
          BY <5>1, <5>2
        <5>4. ~(Price(q, ask) <= Price(q, bids[i]))
          BY <3>3, <5>2, <5>3 DEF bid
        <5>5. QED
          BY <5>1, <5>4, RestingCrossed DEF C, R
      <4>4. \A i \in 1..n : i \in 1..(k - 1) \/ i \in k..n
        OBVIOUS
      <4>5. QED
        BY <3>3, <4>2, <4>3, <4>4
    <3>4. QED
      BY <2>3, <3>1, <3>2, <3>3
  <2>5. QED
    BY <2>1, <2>4
<1> HIDE DEF K, P
<1>12. n \in K
  <2>1. \A k \in 0..n : k \in K
    BY <1>10, <1>11, CountUp
  <2>2. QED
    BY <2>1
<1>13. fold \in T /\ P(fold, n)
  BY <1>9, <1>12 DEF K
<1>14. fold.outcome = "running" => \A bid \in R : C(bid) => Written(fold.amt, ask) = Base(ask)
  <2>1. \A bid \in R : \E i \in 1..n : bids[i] = bid
    BY DEF Listed, R
  <2>2. QED
    BY <1>13, <2>1 DEF P
<1>15. tt \in T /\ (tt.outcome = "running" => \A bid \in R : C(bid) => Written(tt.amt, ask) = Base(ask))
  <2>1. Panic(s).outcome = "panicked"
    BY PanicState
  <2>2. QED
    BY <1>3, <1>5, <1>13, <1>14, <2>1
<1>16. QED
  BY <1>15 DEF tt, T, R

LEMMA WithTaker ==
  ASSUME slot \in Nat, NEW b, GoodBook(b, slot), NEW q \in Query, NEW side \in Side,
         NEW taker \in taking_orders(b, q, side),
         NEW st, st.amt[q.index][taker] = FilledBefore(taker),
         NEW s \in SearchState(b, q), s.outcome = "running", Written(s.amt, taker) = FilledBefore(taker),
         NEW n \in Nat, NEW makers, Listed(makers, resting_limit_orders(b, q, OtherSide(side)), n)
  PROVE  LET t == with_taker(b, q, st, side, makers, s, taker)
         IN /\ t \in Matching(b, q, s, taker, resting_limit_orders(b, q, OtherSide(side)))
            /\ t.outcome = "running" /\ update_finds(b, taker) =>
                 \A maker \in resting_limit_orders(b, q, OtherSide(side)) :
                   <<taker, maker>> \in Crossed(b, q) /\ SameShard(<<taker, maker>>) =>
                     Written(t.amt, taker) = Base(taker)
<1> DEFINE R == resting_limit_orders(b, q, OtherSide(side))
           T == Matching(b, q, s, taker, R)
           C(maker) == <<taker, maker>> \in Crossed(b, q) /\ SameShard(<<taker, maker>>)
           taker_left == Left(st.amt, q.index, taker)
           base == [s EXCEPT !.left = FALSE]
           fold == FoldLeft(LAMBDA t, maker : crossing_maker(b, q, t, side, taker, taker_left, maker),
                            base, makers)
           P(t, k) == t.outcome = "running" =>
                        IF t.left THEN update_finds(b, taker) => Written(t.amt, taker) = Base(taker)
                                  ELSE \A i \in 1..k : ~C(makers[i])
           tt == with_taker(b, q, st, side, makers, s, taker)
<1>1. taker \in Order /\ R \in SUBSET Order
  BY AskAndBid
<1>2. taker_left = Base(taker) - FilledBefore(taker) /\ taker_left \in Nat
  BY <1>1, OrderAmounts DEF Left, Base
<1>3. tt = IF SortPanics(q, makers) THEN Panic(s) ELSE fold
  BY DEF with_taker
<1>4. base \in T
  <2>1. /\ base \in SearchState(b, q) /\ base.outcome = "running" /\ ~base.left /\ base.amt = s.amt
    <3>1. base = Entered(s)
      BY DEF Entered
    <3> HIDE DEF base
    <3>2. QED
      BY <3>1, LeaveState
  <2>2. Written(s.amt, taker) < Base(taker)
    BY <1>1, OrderAmounts
  <2>3. \A x \in Order : Written(s.amt, x) \in Nat
    BY StateAmounts
  <2> HIDE DEF base, R
  <2>4. QED
    BY <1>1, <2>1, <2>2, <2>3 DEF Matching
<1>5. Panic(s) \in T
  <2>1. /\ Panic(s) \in SearchState(b, q)
        /\ Panic(s).outcome = "panicked" /\ Panic(s).left /\ Panic(s).amt = s.amt
    BY PanicState
  <2>2. \A x \in Order : Written(s.amt, x) \in Nat
    BY StateAmounts
  <2> HIDE DEF R
  <2>3. QED
    BY <1>1, <2>1, <2>2 DEF Matching
<1>6. makers \in [1..n -> Order] /\ \A k \in 1..n : makers[k] \in R
  BY <1>1 DEF Listed
<1>7. ASSUME NEW t \in T, NEW maker \in R
      PROVE  LET u == crossing_maker(b, q, t, side, taker, taker_left, maker)
             IN /\ u \in T
                /\ t.left => u = t
                /\ ~t.left /\ u.outcome = "running" =>
                     IF u.left THEN update_finds(b, taker) => Written(u.amt, taker) = Base(taker)
                               ELSE ~C(maker)
  <2> HIDE DEF taker_left
  <2>1. QED
    BY <1>2, MakerStep
<1> HIDE DEF taker_left, base, T, R, fold, tt
<1>8. MakerRuns(b, q, side, taker, taker_left, T, base, n, makers)
  BY <1>4, <1>6, <1>7, MakerRun
<1>9. PICK run \in [0..n -> T] :
        /\ run[0] = base
        /\ run[n] = fold
        /\ \A k \in 1..n : run[k] = crossing_maker(b, q, run[k - 1], side, taker, taker_left, makers[k])
  BY <1>8 DEF MakerRuns, fold
<1> DEFINE K == {k \in 0..n : P(run[k], k)}
<1>10. 0 \in K
  <2>1. base.left = FALSE
    BY LeaveState DEF base, Entered
  <2>2. P(run[0], 0)
    BY <1>9, <2>1
  <2>3. QED
    BY <2>2
<1>11. ASSUME NEW k \in 1..n, k - 1 \in K PROVE k \in K
  <2> DEFINE t == run[k - 1]
             u == run[k]
             maker == makers[k]
  <2>1. k - 1 \in 0..n /\ k \in 0..n /\ t \in T /\ u \in T /\ maker \in R /\ P(t, k - 1)
    BY <1>6, <1>11
  <2>2. u = crossing_maker(b, q, t, side, taker, taker_left, maker)
    BY <1>9
  <2>3. /\ t.left => u = t
        /\ ~t.left /\ u.outcome = "running" =>
             IF u.left THEN update_finds(b, taker) => Written(u.amt, taker) = Base(taker)
                       ELSE ~C(maker)
    BY <1>7, <2>1, <2>2
  <2>4. P(u, k)
    <3> HIDE DEF t, u, maker, C
    <3>1. CASE t.left
      BY <2>1, <2>3, <3>1
    <3>2. CASE ~t.left /\ u.outcome = "running" /\ ~u.left
      <4>1. t.outcome = "running"
        BY <2>1, <3>2 DEF T, Matching
      <4>2. \A i \in 1..(k - 1) : ~C(makers[i])
        BY <2>1, <3>2, <4>1
      <4>3. ~C(makers[k])
        BY <2>3, <3>2 DEF maker
      <4>4. \A i \in 1..k : i \in 1..(k - 1) \/ i = k
        OBVIOUS
      <4>5. QED
        BY <3>2, <4>2, <4>3, <4>4
    <3>3. QED
      BY <2>3, <3>1, <3>2
  <2>5. QED
    BY <2>1, <2>4
<1> HIDE DEF K, P
<1>12. n \in K
  <2>1. \A k \in 0..n : k \in K
    BY <1>10, <1>11, CountUp
  <2>2. QED
    BY <2>1
<1>13. fold \in T /\ P(fold, n)
  BY <1>9, <1>12 DEF K
<1>14. fold.outcome = "running" /\ update_finds(b, taker) =>
         \A maker \in R : C(maker) => Written(fold.amt, taker) = Base(taker)
  <2>1. \A maker \in R : \E i \in 1..n : makers[i] = maker
    BY DEF Listed, R
  <2>2. QED
    BY <1>13, <2>1 DEF P
<1>15. /\ tt \in T
       /\ tt.outcome = "running" /\ update_finds(b, taker) =>
            \A maker \in R : C(maker) => Written(tt.amt, taker) = Base(taker)
  <2>1. Panic(s).outcome = "panicked"
    BY PanicState
  <2>2. QED
    BY <1>3, <1>5, <1>13, <1>14, <2>1
<1>16. QED
  BY <1>15 DEF tt, T, R

(* Whatever the state before, the loops of an ask and of a taker end in one. *)
LEMMA LoopState ==
  ASSUME slot \in Nat, NEW b, GoodBook(b, slot), NEW q \in Query, NEW side \in Side,
         NEW st \in SearchState(b, q), NEW s \in SearchState(b, q),
         NEW o \in resting_limit_orders(b, q, side) \cup taking_orders(b, q, side),
         side = "asks" \/ o \in taking_orders(b, q, side),
         NEW n \in Nat, NEW makers, Listed(makers, resting_limit_orders(b, q, OtherSide(side)), n)
  PROVE  /\ side = "asks" => with_ask(b, q, st, makers, s, o) \in SearchState(b, q)
         /\ with_taker(b, q, st, side, makers, s, o) \in SearchState(b, q)
<1> DEFINE R == resting_limit_orders(b, q, OtherSide(side))
           T == SearchState(b, q)
           left == Left(st.amt, q.index, o)
           base == [s EXCEPT !.left = FALSE]
           bid_fold == FoldLeft(LAMBDA t, bid : crossing_bid(b, q, t, o, left, bid), base, makers)
           maker_fold == FoldLeft(LAMBDA t, maker : crossing_maker(b, q, t, side, o, left, maker),
                                  base, makers)
<1>1. o \in Order /\ R \in SUBSET Order /\ o \notin R /\ o \notin Bids(b, q)
  BY AskAndBid
<1>2. left \in Nat /\ left <= Base(o) - FilledBefore(o)
  BY <1>1, LeftAmount
<1>3. base \in T /\ Panic(s) \in T
  <2>1. Entered(s) \in T
    BY LeaveState
  <2>2. QED
    BY <2>1, PanicState DEF Entered
<1>4. with_ask(b, q, st, makers, s, o) \in {s, Panic(s), bid_fold}
  BY DEF with_ask
<1>5. with_taker(b, q, st, side, makers, s, o) \in {s, Panic(s), maker_fold}
  BY DEF with_taker
<1>6. makers \in [1..n -> Order] /\ \A k \in 1..n : makers[k] \in R
  BY <1>1 DEF Listed
<1> HIDE DEF left, base
<1>7. \A t \in T, k \in 1..n :
        /\ side = "asks" => crossing_bid(b, q, t, o, left, makers[k]) \in T
        /\ crossing_maker(b, q, t, side, o, left, makers[k]) \in T
  BY <1>1, <1>2, <1>6, CrossingState
<1> HIDE DEF T, R, bid_fold, maker_fold
<1>8. ASSUME side = "asks" PROVE bid_fold \in T
  <2>1. BidRuns(b, q, o, left, T, base, n, makers)
    BY <1>3, <1>6, <1>7, <1>8, BidRun
  <2>2. PICK run \in [0..n -> T] : run[n] = bid_fold
    BY <2>1 DEF BidRuns, bid_fold
  <2>3. QED
    BY <2>2
<1>9. maker_fold \in T
  <2>1. MakerRuns(b, q, side, o, left, T, base, n, makers)
    BY <1>3, <1>6, <1>7, MakerRun
  <2>2. PICK run \in [0..n -> T] : run[n] = maker_fold
    BY <2>1 DEF MakerRuns, maker_fold
  <2>3. QED
    BY <2>2
<1>10. QED
  BY <1>3, <1>4, <1>5, <1>8, <1>9 DEF T

-----------------------------------------------------------------------------
Untouched(st, S) == \A o \in S : Written(st.amt, o) = FilledBefore(o)

(* All asks against all bids: a search still running after them has filled   *)
(* every ask that a bid of its shard crosses.                                *)
LEMMA AskLoop ==
  ASSUME slot \in Nat, NEW b, GoodBook(b, slot), NEW q \in Query, NEW lists \in Lists(b, q),
         NEW st \in SearchState(b, q), st.outcome = "running",
         \A m \in Market, o \in Order : st.amt[m][o] = FilledBefore(o)
  PROVE  LET t == find_crossing_resting_limit_orders(b, q, st, lists)
             A == resting_limit_orders(b, q, "asks")
             B == resting_limit_orders(b, q, "bids")
         IN /\ t \in SearchState(b, q)
            /\ t.outcome = "blocked" => HalfFilled(b, q, t.amt)
            /\ Untouched(t, Order \ (A \cup B))
            /\ t.outcome = "running" =>
                 \A ask \in A, bid \in B :
                   <<ask, bid>> \in Crossed(b, q) /\ SameShard(<<ask, bid>>) =>
                     Written(t.amt, ask) = Base(ask)
<1> DEFINE A == resting_limit_orders(b, q, "asks")
           B == resting_limit_orders(b, q, "bids")
           T == SearchState(b, q)
           asks == lists.resting["asks"]
           bids == lists.resting["bids"]
           C(ask, bid) == <<ask, bid>> \in Crossed(b, q) /\ SameShard(<<ask, bid>>)
           fold == FoldLeft(LAMBDA s, ask : with_ask(b, q, st, bids, s, ask), st, asks)
           tt == find_crossing_resting_limit_orders(b, q, st, lists)
<1>1. "asks" \in Side /\ "bids" \in Side /\ OtherSide("asks") = "bids" /\ b \in Book
  BY DEF Side, OtherSide, GoodBook
<1>2. PICK n \in Nat : Listed(asks, A, n)
  BY <1>1, ListsExact
<1>3. PICK m \in Nat : Listed(bids, B, m)
  BY <1>1, ListsExact
<1>4. \A i, j \in 1..m : i < j => ~(Price(q, bids[j]) > Price(q, bids[i]))
  <2>1. DOMAIN bids = 1..m
    BY <1>3, ListedDomain
  <2>2. \A i, j \in DOMAIN bids : i < j => ~(Price(q, bids[j]) > Price(q, bids[i]))
    BY <1>1, ListsExact
  <2>3. QED
    BY <2>1, <2>2
<1>5. /\ A \in SUBSET Order /\ B \in SUBSET Order
      /\ \A o \in A : o \notin B
  BY <1>1, RestingFiled, AskAndBid
<1>6. q.index \in Market
  BY SearchAssumption DEF QueryRecord
<1>7. asks \in [1..n -> Order] /\ \A k \in 1..n : asks[k] \in A
  BY <1>2, <1>5 DEF Listed
<1>8. \A o \in Order : Written(st.amt, o) = FilledBefore(o)
  BY OrderAmounts DEF Written
<1>9. tt = IF SortPanics(q, asks) THEN Panic(st) ELSE fold
  BY DEF find_crossing_resting_limit_orders
<1>10. \A s \in T, k \in 1..n : with_ask(b, q, st, bids, s, asks[k]) \in T
  BY <1>1, <1>3, <1>7, LoopState
<1>11. ASSUME NEW s \in T, s.outcome = "running", NEW ask \in A,
              Written(s.amt, ask) = FilledBefore(ask)
       PROVE  LET u == with_ask(b, q, st, bids, s, ask)
              IN /\ u \in Matching(b, q, s, ask, B)
                 /\ u.outcome = "running" => \A bid \in B : C(ask, bid) => Written(u.amt, ask) = Base(ask)
  <2>1. st.amt[q.index][ask] = FilledBefore(ask)
    BY <1>5, <1>6
  <2> HIDE DEF bids
  <2>2. QED
    BY <1>3, <1>4, <1>11, <2>1, WithAsk
<1>12. \A s \in T, ask \in A : s.outcome # "running" => with_ask(b, q, st, bids, s, ask) = s
  BY DEF with_ask
<1> HIDE DEF A, B, T, asks, bids, fold, tt, C
<1>13. AskRuns(b, q, st, bids, T, st, n, asks)
  <2>1. st \in T
    BY DEF T
  <2>2. QED
    BY <1>7, <1>10, <2>1, AskRun
<1>14. PICK run \in [0..n -> T] :
         /\ run[0] = st
         /\ run[n] = fold
         /\ \A k \in 1..n : run[k] = with_ask(b, q, st, bids, run[k - 1], asks[k])
  BY <1>13 DEF AskRuns, fold
<1> DEFINE P(s, k) ==
             /\ s.outcome = "blocked" => HalfFilled(b, q, s.amt)
             /\ Untouched(s, Order \ (A \cup B))
             /\ s.outcome = "running" =>
                  /\ \A j \in (k + 1)..n : Written(s.amt, asks[j]) = FilledBefore(asks[j])
                  /\ \A j \in 1..k : \A bid \in B :
                       C(asks[j], bid) => Written(s.amt, asks[j]) = Base(asks[j])
           K == {k \in 0..n : P(run[k], k)}
<1>15. 0 \in K
  <2>1. P(st, 0)
    BY <1>7, <1>8 DEF Untouched
  <2>2. QED
    BY <1>14, <2>1
<1>16. ASSUME NEW k \in 1..n, k - 1 \in K PROVE k \in K
  <2> DEFINE s == run[k - 1]
             u == run[k]
             ask == asks[k]
  <2>1. k - 1 \in 0..n /\ k \in 0..n /\ s \in T /\ u \in T /\ ask \in A /\ P(s, k - 1)
    BY <1>7, <1>16
  <2>2. u = with_ask(b, q, st, bids, s, ask)
    BY <1>14
  <2>3. CASE s.outcome # "running"
    <3>1. u = s
      BY <1>12, <2>1, <2>2, <2>3
    <3> HIDE DEF s, u, ask
    <3>2. QED
      BY <2>1, <2>3, <3>1 DEF u
  <2>4. CASE s.outcome = "running"
    <3>1. Written(s.amt, ask) = FilledBefore(ask)
      BY <2>1, <2>4
    <3>2. /\ u \in Matching(b, q, s, ask, B)
          /\ u.outcome = "running" => \A bid \in B : C(ask, bid) => Written(u.amt, ask) = Base(ask)
      BY <1>11, <2>1, <2>2, <2>4, <3>1
    <3>3. /\ u.outcome = "blocked" => HalfFilled(b, q, u.amt)
          /\ \A x \in Order : x # ask /\ x \notin B => Written(u.amt, x) = Written(s.amt, x)
      BY <3>2 DEF Matching
    <3>4. Untouched(u, Order \ (A \cup B))
      BY <2>1, <3>3 DEF Untouched
    <3>5. \A j \in 1..n : j # k => /\ asks[j] # ask /\ asks[j] \in Order /\ asks[j] \notin B
                                   /\ Written(u.amt, asks[j]) = Written(s.amt, asks[j])
      <4>1. \A j \in 1..n : j # k => asks[j] # ask
        BY <1>2 DEF Listed
      <4>2. QED
        BY <1>5, <1>7, <3>3, <4>1
    <3>6. \A j \in (k + 1)..n : j \in ((k - 1) + 1)..n /\ j \in 1..n /\ j # k
      OBVIOUS
    <3>7. \A j \in 1..k : j = k \/ (j \in 1..(k - 1) /\ j \in 1..n /\ j # k)
      OBVIOUS
    <3>8. \A j \in (k + 1)..n : Written(u.amt, asks[j]) = FilledBefore(asks[j])
      BY <2>1, <2>4, <3>5, <3>6
    <3>9. u.outcome = "running" =>
            \A j \in 1..k : \A bid \in B : C(asks[j], bid) => Written(u.amt, asks[j]) = Base(asks[j])
      BY <2>1, <2>4, <3>2, <3>5, <3>7
    <3>10. P(u, k)
      BY <3>3, <3>4, <3>8, <3>9
    <3>11. QED
      BY <2>1, <3>10
  <2>5. QED
    BY <2>3, <2>4
<1> HIDE DEF K, P
<1>17. n \in K
  <2>1. \A k \in 0..n : k \in K
    BY <1>15, <1>16, CountUp
  <2>2. QED
    BY <2>1
<1>18. fold \in T /\ P(fold, n)
  BY <1>14, <1>17 DEF K
<1>19. CASE SortPanics(q, asks)
  <2>1. tt = Panic(st)
    BY <1>9, <1>19
  <2>2. tt \in T /\ tt.outcome = "panicked" /\ tt.amt = st.amt
    BY <2>1, PanicState DEF T
  <2>3. QED
    BY <1>8, <2>2 DEF T, tt, A, B, Untouched
<1>20. CASE ~SortPanics(q, asks)
  <2>1. tt \in T /\ P(tt, n)
    BY <1>9, <1>18, <1>20
  <2>2. \A ask \in A : \E j \in 1..n : asks[j] = ask
    BY <1>2 DEF Listed
  <2>3. tt.outcome = "running" => \A ask \in A, bid \in B : C(ask, bid) => Written(tt.amt, ask) = Base(ask)
    BY <2>1, <2>2 DEF P
  <2>4. /\ tt.outcome = "blocked" => HalfFilled(b, q, tt.amt)
        /\ Untouched(tt, Order \ (A \cup B))
    BY <2>1 DEF P
  <2>5. QED
    BY <2>1, <2>3, <2>4 DEF T, tt, A, B, C
<1>21. QED
  BY <1>19, <1>20

(* What the takers of a side change: t is the state after them, st the one   *)
(* before.                                                                   *)
Took(b, q, side, st, t) ==
  LET takers == taking_orders(b, q, side)
      makers == resting_limit_orders(b, q, OtherSide(side))
  IN /\ \A x \in Order : x \notin takers /\ x \notin makers => Written(t.amt, x) = Written(st.amt, x)
     /\ \A x \in makers : OrderOf[x].market = q.index => Written(t.amt, x) >= Written(st.amt, x)
     /\ t.outcome = "running" => st.outcome = "running"

(* All takers of a side against the resting orders of the other.             *)
LEMMA TakerLoop ==
  ASSUME slot \in Nat, NEW b, GoodBook(b, slot), NEW q \in Query, NEW side \in Side,
         NEW lists \in Lists(b, q), NEW st \in SearchState(b, q),
         st.outcome = "blocked" => HalfFilled(b, q, st.amt),
         Untouched(st, taking_orders(b, q, side))
  PROVE  LET t == find_taking_nodes_crossing_maker_nodes(b, q, st, side, lists)
         IN /\ t \in SearchState(b, q)
            /\ t.outcome = "blocked" => HalfFilled(b, q, t.amt)
            /\ Took(b, q, side, st, t)
            /\ t.outcome = "running" =>
                 \A taker \in taking_orders(b, q, side) :
                   \A maker \in resting_limit_orders(b, q, OtherSide(side)) :
                     <<taker, maker>> \in Crossed(b, q) /\ SameShard(<<taker, maker>>)
                       /\ update_finds(b, taker) => Written(t.amt, taker) = Base(taker)
<1> DEFINE A == taking_orders(b, q, side)
           B == resting_limit_orders(b, q, OtherSide(side))
           T == SearchState(b, q)
           takers == lists.taking[side]
           makers == lists.resting[OtherSide(side)]
           C(taker, maker) == <<taker, maker>> \in Crossed(b, q) /\ SameShard(<<taker, maker>>)
                                /\ update_finds(b, taker)
           fold == FoldLeft(LAMBDA s, taker : with_taker(b, q, st, side, makers, s, taker), st, takers)
           tt == find_taking_nodes_crossing_maker_nodes(b, q, st, side, lists)
<1>1. OtherSide(side) \in Side /\ b \in Book
  BY DEF Side, OtherSide, GoodBook
<1>2. PICK n \in Nat : Listed(takers, A, n)
  BY <1>1, ListsExact
<1>3. PICK m \in Nat : Listed(makers, B, m)
  BY <1>1, ListsExact
<1>4. /\ A \in SUBSET Order /\ B \in SUBSET Order
      /\ \A o \in A : o \notin B /\ OrderOf[o].market = q.index
  <2>1. \A o \in A : o \in Order /\ o \notin B /\ OrderOf[o].market = q.index
    BY TakingFiled, AskAndBid
  <2>2. \A o \in B : o \in Order
    BY <1>1, RestingFiled
  <2>3. QED
    BY <2>1, <2>2
<1>5. takers \in [1..n -> Order] /\ \A k \in 1..n : takers[k] \in A
  BY <1>2, <1>4 DEF Listed
<1>6. \A o \in A : Written(st.amt, o) = FilledBefore(o) /\ st.amt[q.index][o] = FilledBefore(o)
  BY <1>4 DEF Written, Untouched
<1>7. tt = fold
  BY DEF find_taking_nodes_crossing_maker_nodes, OtherSide
<1>8. \A s \in T, k \in 1..n : with_taker(b, q, st, side, makers, s, takers[k]) \in T
  BY <1>3, <1>5, LoopState
<1>9. ASSUME NEW s \in T, s.outcome = "running", NEW taker \in A,
              Written(s.amt, taker) = FilledBefore(taker)
       PROVE  LET u == with_taker(b, q, st, side, makers, s, taker)
              IN /\ u \in Matching(b, q, s, taker, B)
                 /\ u.outcome = "running" =>
                      \A maker \in B : C(taker, maker) => Written(u.amt, taker) = Base(taker)
  <2>1. st.amt[q.index][taker] = FilledBefore(taker)
    BY <1>6
  <2> HIDE DEF makers
  <2>2. QED
    BY <1>3, <1>9, <2>1, WithTaker
<1>10. \A s \in T, taker \in A : s.outcome # "running" => with_taker(b, q, st, side, makers, s, taker) = s
  BY DEF with_taker
<1> HIDE DEF A, B, T, takers, makers, fold, tt, C
<1>11. TakerRuns(b, q, st, side, makers, T, st, n, takers)
  <2>1. st \in T
    BY DEF T
  <2>2. QED
    BY <1>5, <1>8, <2>1, TakerRun
<1>12. PICK run \in [0..n -> T] :
         /\ run[0] = st
         /\ run[n] = fold
         /\ \A k \in 1..n : run[k] = with_taker(b, q, st, side, makers, run[k - 1], takers[k])
  BY <1>11 DEF TakerRuns, fold
<1>13. \A s \in T, x \in Order : Written(s.amt, x) \in Nat
  BY StateAmounts DEF T
<1> DEFINE P(s, k) ==
             /\ s.outcome = "blocked" => HalfFilled(b, q, s.amt)
             /\ \A x \in Order : x \notin A /\ x \notin B => Written(s.amt, x) = Written(st.amt, x)
             /\ \A x \in B : OrderOf[x].market = q.index => Written(s.amt, x) >= Written(st.amt, x)
             /\ s.outcome = "running" =>
                  /\ st.outcome = "running"
                  /\ \A j \in (k + 1)..n : Written(s.amt, takers[j]) = FilledBefore(takers[j])
                  /\ \A j \in 1..k : \A maker \in B :
                       C(takers[j], maker) => Written(s.amt, takers[j]) = Base(takers[j])
           K == {k \in 0..n : P(run[k], k)}
<1>14. 0 \in K
  <2>1. st \in T
    BY DEF T
  <2>2. P(st, 0)
    BY <1>4, <1>5, <1>6, <1>13, <2>1
  <2>3. QED
    BY <1>12, <2>2
<1>15. ASSUME NEW k \in 1..n, k - 1 \in K PROVE k \in K
  <2> DEFINE s == run[k - 1]
             u == run[k]
             taker == takers[k]
  <2>1. k - 1 \in 0..n /\ k \in 0..n /\ s \in T /\ u \in T /\ taker \in A /\ P(s, k - 1)
    BY <1>5, <1>15
  <2>2. u = with_taker(b, q, st, side, makers, s, taker)
    BY <1>12
  <2>3. CASE s.outcome # "running"
    <3>1. u = s
      BY <1>10, <2>1, <2>2, <2>3
    <3> HIDE DEF s, u, taker
    <3>2. QED
      BY <2>1, <2>3, <3>1 DEF u
  <2>4. CASE s.outcome = "running"
    <3>1. Written(s.amt, taker) = FilledBefore(taker)
      BY <2>1, <2>4
    <3>2. /\ u \in Matching(b, q, s, taker, B)
          /\ u.outcome = "running" =>
               \A maker \in B : C(taker, maker) => Written(u.amt, taker) = Base(taker)
      BY <1>9, <2>1, <2>2, <2>4, <3>1
    <3>3. /\ u.outcome = "blocked" => HalfFilled(b, q, u.amt)
          /\ \A x \in Order : x # taker /\ x \notin B => Written(u.amt, x) = Written(s.amt, x)
          /\ \A x \in B : OrderOf[x].market = q.index => Written(u.amt, x) >= Written(s.amt, x)
      BY <3>2 DEF Matching
    <3>4. \A x \in Order : x \notin A /\ x \notin B => Written(u.amt, x) = Written(st.amt, x)
      BY <2>1, <3>3
    <3>5. \A x \in B : OrderOf[x].market = q.index => Written(u.amt, x) >= Written(st.amt, x)
      <4> SUFFICES ASSUME NEW x \in B, OrderOf[x].market = q.index
                   PROVE  Written(u.amt, x) >= Written(st.amt, x)
        OBVIOUS
      <4>1. Written(u.amt, x) >= Written(s.amt, x) /\ Written(s.amt, x) >= Written(st.amt, x)
        BY <2>1, <3>3
      <4>2. st \in T /\ x \in Order
        BY <1>4 DEF T
      <4>3. Written(u.amt, x) \in Nat /\ Written(s.amt, x) \in Nat /\ Written(st.amt, x) \in Nat
        BY <1>13, <2>1, <4>2
      <4>4. QED
        BY <4>1, <4>3
    <3>6. \A j \in 1..n : j # k => /\ takers[j] # taker /\ takers[j] \in Order /\ takers[j] \notin B
                                   /\ Written(u.amt, takers[j]) = Written(s.amt, takers[j])
      <4>1. \A j \in 1..n : j # k => takers[j] # taker
        BY <1>2 DEF Listed
      <4>2. QED
        BY <1>4, <1>5, <3>3, <4>1
    <3>7. \A j \in (k + 1)..n : j \in ((k - 1) + 1)..n /\ j \in 1..n /\ j # k
      OBVIOUS
    <3>8. \A j \in 1..k : j = k \/ (j \in 1..(k - 1) /\ j \in 1..n /\ j # k)
      OBVIOUS
    <3>9. \A j \in (k + 1)..n : Written(u.amt, takers[j]) = FilledBefore(takers[j])
      BY <2>1, <2>4, <3>6, <3>7
    <3>10. u.outcome = "running" =>
            \A j \in 1..k : \A maker \in B :
              C(takers[j], maker) => Written(u.amt, takers[j]) = Base(takers[j])
      BY <2>1, <2>4, <3>2, <3>6, <3>8
    <3>11. P(u, k)
      BY <2>1, <2>4, <3>3, <3>4, <3>9, <3>10, <3>5
    <3>12. QED
      BY <2>1, <3>11
  <2>5. QED
    BY <2>3, <2>4
<1> HIDE DEF K, P
<1>16. n \in K
  <2>1. \A k \in 0..n : k \in K
    BY <1>14, <1>15, CountUp
  <2>2. QED
    BY <2>1
<1>17. tt \in T /\ P(tt, n)
  BY <1>7, <1>12, <1>16 DEF K
<1>18. QED
  <2>1. \A taker \in A : \E j \in 1..n : takers[j] = taker
    BY <1>2 DEF Listed
  <2>2. tt.outcome = "running" =>
          \A taker \in A, maker \in B : C(taker, maker) => Written(tt.amt, taker) = Base(taker)
    BY <1>17, <2>1 DEF P
  <2>3. Took(b, q, side, st, tt)
    BY <1>17 DEF P, Took, A, B
  <2>4. tt.outcome = "blocked" => HalfFilled(b, q, tt.amt)
    BY <1>17 DEF P
  <2>5. QED
    BY <1>17, <2>2, <2>3, <2>4 DEF T, tt, A, B, C

(* The loops against the vAMM find orders and write no amounts.              *)
AfterFallback(b, q, st) ==
  {t \in SearchState(b, q) : t.amt = st.amt /\ t.outcome \in {st.outcome, "panicked"}}

LEMMA OrderFound ==
  ASSUME NEW q, NEW o \in Order, FallbackOpen(q, o)
  PROVE  NodeToFill(o, <<>>) \in Found(q)
<1> DEFINE makers == <<>>
<1>1. makers \in Seq(Order) /\ DOMAIN makers = {}
  OBVIOUS
<1>2. NodeToFill(o, makers) = [node |-> o, maker_nodes |-> makers]
  BY DEF NodeToFill
<1> HIDE DEF makers
<1>3. NodeToFill(o, makers) \in Found(q)
  BY <1>1, <1>2 DEF Found
<1>4. QED
  BY <1>3 DEF makers

LEMMA FallbackStep ==
  ASSUME slot \in Nat, NEW b, NEW q \in Query, ~is_amm_paused(q.market, q.state),
         NEW st \in SearchState(b, q), NEW crosses, NEW s \in AfterFallback(b, q, st), NEW o \in Order
  PROVE  crossing_fallback(q, crosses, s, o) \in AfterFallback(b, q, st)
<1> DEFINE node == NodeToFill(o, <<>>)
           u == crossing_fallback(q, crosses, s, o)
           found == WithNode(s, node)
           fallback == \/ q.index \notin Perp
                       \/ is_fallback_available(OrderOf[o], min_auction_duration(q), slot)
<1>1. s \in SearchState(b, q) /\ s.amt = st.amt /\ s.outcome \in {st.outcome, "panicked"}
  BY DEF AfterFallback
<1>2. u = s \/ u = Panic(s) \/ (fallback /\ u = found)
  BY DEF crossing_fallback, WithNode
<1>3. CASE u = s
  BY <1>3
<1>4. CASE u = Panic(s)
  BY <1>1, <1>4, PanicState DEF AfterFallback
<1>5. CASE fallback /\ u = found
  <2>1. /\ "AmmPaused" \notin q.state.exchange_status
        /\ q.index \in Perp => "AmmFill" \notin q.market.paused_operations /\ ~q.market.drawdown
    BY SearchAssumption DEF is_amm_paused
  <2>2. OrderOf[o].slot \in Int /\ q.state.min_perp_auction_duration \in Int
    BY OrderAssumption, SearchAssumption DEF OrderRecord, QueryRecord
  <2>3. FallbackOpen(q, o)
    BY <1>5, <2>1, <2>2 DEF FallbackOpen, is_fallback_available, min_auction_duration
  <2>4. node \in Found(q)
    BY <2>3, OrderFound
  <2> HIDE DEF node
  <2>5. found \in SearchState(b, q) /\ found.amt = s.amt /\ found.outcome = s.outcome
    BY <1>1, <2>4, NodeState
  <2>6. QED
    BY <1>1, <1>5, <2>5 DEF AfterFallback
<1>6. QED
  BY <1>2, <1>3, <1>4, <1>5

LEMMA FallbackLoop ==
  ASSUME slot \in Nat, NEW b, NEW q \in Query, ~is_amm_paused(q.market, q.state),
         NEW st \in SearchState(b, q), NEW crosses, NEW n \in Nat, NEW nodes \in [1..n -> Order]
  PROVE  find_nodes_crossing_fallback_liquidity(q, st, nodes, crosses) \in AfterFallback(b, q, st)
<1> DEFINE T == AfterFallback(b, q, st)
           fold == FoldLeft(LAMBDA t, o : crossing_fallback(q, crosses, t, o), st, nodes)
<1>1. st \in T
  BY DEF AfterFallback
<1>2. \A t \in T, k \in 1..n : crossing_fallback(q, crosses, t, nodes[k]) \in T
  BY FallbackStep
<1>3. find_nodes_crossing_fallback_liquidity(q, st, nodes, crosses) = fold
  BY DEF find_nodes_crossing_fallback_liquidity
<1> HIDE DEF T, fold
<1>4. FallbackRuns(q, crosses, T, st, n, nodes)
  BY <1>1, <1>2, FallbackRun
<1>5. PICK run \in [0..n -> T] : run[n] = fold
  BY <1>4 DEF FallbackRuns, fold
<1>6. QED
  BY <1>3, <1>5 DEF T

LEMMA ToFallback ==
  ASSUME slot \in Nat, NEW b \in Book, NEW q \in Query, NEW side \in Side, NEW lists \in Lists(b, q),
         NEW st \in SearchState(b, q)
  PROVE  /\ resting_to_fallback(q, st, side, lists) \in AfterFallback(b, q, st)
         /\ taking_to_fallback(q, st, side, lists) \in AfterFallback(b, q, st)
<1>1. st \in AfterFallback(b, q, st) /\ Panic(st) \in AfterFallback(b, q, st)
  BY PanicState DEF AfterFallback
<1>2. /\ resting_limit_orders(b, q, side) \in SUBSET Order
      /\ taking_orders(b, q, side) \in SUBSET Order
  <2>1. q.index \in Market
    BY SearchAssumption DEF QueryRecord
  <2>2. QED
    BY <2>1 DEF resting_limit_orders, taking_orders, get_best_orders, Book, NodeType
<1>3. PICK n \in Nat : lists.resting[side] \in [1..n -> Order]
  BY <1>2, ListsExact DEF Listed
<1>4. PICK m \in Nat : lists.taking[side] \in [1..m -> Order]
  BY <1>2, ListsExact DEF Listed
<1>5. CASE is_amm_paused(q.market, q.state)
  BY <1>1, <1>5 DEF resting_to_fallback, taking_to_fallback
<1>6. CASE ~is_amm_paused(q.market, q.state)
  <2>1. \A crosses : /\ find_nodes_crossing_fallback_liquidity(q, st, lists.resting[side], crosses)
                          \in AfterFallback(b, q, st)
                     /\ find_nodes_crossing_fallback_liquidity(q, st, lists.taking[side], crosses)
                          \in AfterFallback(b, q, st)
    BY <1>3, <1>4, <1>6, FallbackLoop
  <2>2. QED
    BY <1>1, <2>1 DEF resting_to_fallback, taking_to_fallback
<1>7. QED
  BY <1>5, <1>6

(* An order is in one of the four lists only.                                *)
LEMMA ListsDisjoint ==
  ASSUME slot \in Nat, NEW b, GoodBook(b, slot), NEW q \in Query, NEW side \in Side
  PROVE  /\ \A o \in resting_limit_orders(b, q, side) :
              /\ o \in Order
              /\ o \notin taking_orders(b, q, "asks") /\ o \notin taking_orders(b, q, "bids")
              /\ o \notin resting_limit_orders(b, q, OtherSide(side))
         /\ \A o \in taking_orders(b, q, side) :
              o \in Order /\ o \notin taking_orders(b, q, OtherSide(side))
<1>1. OtherSide(side) \in Side /\ OtherSide(side) # side /\ {"asks", "bids"} = Side
  BY DEF OtherSide, Side
<1>2. \A s \in Side : \A o \in resting_limit_orders(b, q, s) :
        o \in Order /\ sub_type(OrderOf[o]) = s /\ PlaceOf(b, o) \in {"RestingLimit", "FloatingLimit"}
  BY RestingFiled
<1>3. \A s \in Side : \A o \in taking_orders(b, q, s) :
        o \in Order /\ sub_type(OrderOf[o]) = s /\ PlaceOf(b, o) \in {"TakingLimit", "Market"}
  BY TakingFiled
<1>4. QED
  BY <1>1, <1>2, <1>3

(* What a search that comes back has done to the pairs that crossed.         *)
Uncrossed(b, q, amt) ==
  \A p \in Crossed(b, q) :
    SameShard(p) /\ OrderOf[p[1]].market = q.index /\ update_finds(b, p[1]) =>
      Written(amt, p[1]) = Base(p[1])

LEMMA RestingEnds ==
  ASSUME slot \in Nat, NEW b, GoodBook(b, slot), NEW q \in Query, NEW lists \in Lists(b, q)
  PROVE  LET t == find_resting_orders_to_fill(b, q, Start, lists)
             A == resting_limit_orders(b, q, "asks")
             B == resting_limit_orders(b, q, "bids")
         IN /\ t \in SearchState(b, q)
            /\ t.outcome = "blocked" => HalfFilled(b, q, t.amt)
            /\ Untouched(t, Order \ (A \cup B))
            /\ t.outcome = "running" =>
                 \A ask \in A, bid \in B :
                   <<ask, bid>> \in Crossed(b, q) /\ SameShard(<<ask, bid>>) =>
                     Written(t.amt, ask) = Base(ask)
<1> DEFINE s == find_crossing_resting_limit_orders(b, q, Start, lists)
           a == resting_to_fallback(q, s, "asks", lists)
           t == resting_to_fallback(q, a, "bids", lists)
<1>1. t = find_resting_orders_to_fill(b, q, Start, lists)
  BY DEF find_resting_orders_to_fill
<1>2. /\ s \in SearchState(b, q)
      /\ s.outcome = "blocked" => HalfFilled(b, q, s.amt)
      /\ Untouched(s, Order \ (resting_limit_orders(b, q, "asks") \cup resting_limit_orders(b, q, "bids")))
      /\ s.outcome = "running" =>
           \A ask \in resting_limit_orders(b, q, "asks"), bid \in resting_limit_orders(b, q, "bids") :
             <<ask, bid>> \in Crossed(b, q) /\ SameShard(<<ask, bid>>) =>
               Written(s.amt, ask) = Base(ask)
  BY StartState, AskLoop
<1> HIDE DEF s
<1>3. b \in Book /\ "asks" \in Side /\ "bids" \in Side
  BY DEF GoodBook, Side
<1>4. a \in AfterFallback(b, q, s)
  BY <1>2, <1>3, ToFallback
<1>5. a \in SearchState(b, q) /\ a.amt = s.amt /\ a.outcome \in {s.outcome, "panicked"}
  BY <1>4 DEF AfterFallback
<1> HIDE DEF a
<1>6. t \in AfterFallback(b, q, a)
  BY <1>3, <1>5, ToFallback
<1>7. t \in SearchState(b, q) /\ t.amt = s.amt /\ t.outcome \in {s.outcome, "panicked"}
  BY <1>5, <1>6 DEF AfterFallback
<1> HIDE DEF t
<1>8. QED
  BY <1>1, <1>2, <1>7 DEF Untouched

LEMMA SearchEnds ==
  ASSUME slot \in Nat, NEW b, GoodBook(b, slot), NEW q \in Query, NEW lists \in Lists(b, q)
  PROVE  LET t == find_taking_orders_to_fill(b, q, find_resting_orders_to_fill(b, q, Start, lists), lists)
         IN /\ t \in SearchState(b, q)
            /\ t.outcome = "blocked" => HalfFilled(b, q, t.amt)
            /\ t.outcome = "running" => Uncrossed(b, q, t.amt)
<1> DEFINE RA == resting_limit_orders(b, q, "asks")
           RB == resting_limit_orders(b, q, "bids")
           TA == taking_orders(b, q, "asks")
           TB == taking_orders(b, q, "bids")
           s == find_resting_orders_to_fill(b, q, Start, lists)
           u == find_taking_nodes_crossing_maker_nodes(b, q, s, "asks", lists)
           v == find_taking_nodes_crossing_maker_nodes(b, q, u, "bids", lists)
           w == taking_to_fallback(q, v, "asks", lists)
           t == taking_to_fallback(q, w, "bids", lists)
           C(x, y) == <<x, y>> \in Crossed(b, q) /\ SameShard(<<x, y>>)
<1>1. t = find_taking_orders_to_fill(b, q, s, lists)
  BY DEF find_taking_orders_to_fill
<1>2. /\ b \in Book /\ "asks" \in Side /\ "bids" \in Side
      /\ OtherSide("asks") = "bids" /\ OtherSide("bids") = "asks"
  BY DEF GoodBook, Side, OtherSide
<1>3. /\ \A o \in RA : o \in Order /\ o \notin TA /\ o \notin TB /\ o \notin RB
      /\ \A o \in RB : o \in Order /\ o \notin TA /\ o \notin TB /\ o \notin RA
      /\ \A o \in TA : o \in Order /\ o \notin TB /\ o \notin RA /\ o \notin RB
      /\ \A o \in TB : o \in Order /\ o \notin TA /\ o \notin RA /\ o \notin RB
  BY <1>2, ListsDisjoint
<1>4. /\ s \in SearchState(b, q)
      /\ s.outcome = "blocked" => HalfFilled(b, q, s.amt)
      /\ Untouched(s, Order \ (RA \cup RB))
      /\ s.outcome = "running" => \A x \in RA, y \in RB : C(x, y) => Written(s.amt, x) = Base(x)
  BY RestingEnds
<1> HIDE DEF s
<1>5. Untouched(s, TA) /\ Untouched(s, TB)
  BY <1>3, <1>4 DEF Untouched
<1>6. /\ u \in SearchState(b, q)
      /\ u.outcome = "blocked" => HalfFilled(b, q, u.amt)
      /\ Took(b, q, "asks", s, u)
      /\ u.outcome = "running" => \A x \in TA, y \in RB :
           C(x, y) /\ update_finds(b, x) => Written(u.amt, x) = Base(x)
  BY <1>2, <1>4, <1>5, TakerLoop
<1> HIDE DEF u
<1>7. /\ \A x \in Order : x \notin TA /\ x \notin RB => Written(u.amt, x) = Written(s.amt, x)
      /\ u.outcome = "running" => s.outcome = "running"
  BY <1>2, <1>6 DEF Took
<1>8. Untouched(u, TB)
  BY <1>3, <1>5, <1>7 DEF Untouched
<1>9. /\ v \in SearchState(b, q)
      /\ v.outcome = "blocked" => HalfFilled(b, q, v.amt)
      /\ Took(b, q, "bids", u, v)
      /\ v.outcome = "running" => \A x \in TB, y \in RA :
           C(x, y) /\ update_finds(b, x) => Written(v.amt, x) = Base(x)
  BY <1>2, <1>6, <1>8, TakerLoop
<1> HIDE DEF v
<1>10. /\ \A x \in Order : x \notin TB /\ x \notin RA => Written(v.amt, x) = Written(u.amt, x)
       /\ \A x \in RA : OrderOf[x].market = q.index => Written(v.amt, x) >= Written(u.amt, x)
       /\ v.outcome = "running" => u.outcome = "running"
  BY <1>2, <1>9 DEF Took
<1>11. w \in AfterFallback(b, q, v)
  BY <1>2, <1>9, ToFallback
<1>12. w \in SearchState(b, q) /\ w.amt = v.amt /\ w.outcome \in {v.outcome, "panicked"}
  BY <1>11 DEF AfterFallback
<1> HIDE DEF w
<1>13. t \in AfterFallback(b, q, w)
  BY <1>2, <1>12, ToFallback
<1>14. t \in SearchState(b, q) /\ t.amt = v.amt /\ t.outcome \in {v.outcome, "panicked"}
  BY <1>12, <1>13 DEF AfterFallback
<1> HIDE DEF t
<1>15. ASSUME v.outcome = "running",
              NEW p \in Crossed(b, q), SameShard(p), OrderOf[p[1]].market = q.index,
              update_finds(b, p[1])
       PROVE  Written(v.amt, p[1]) = Base(p[1])
  <2> DEFINE x == p[1]
             y == p[2]
  <2>1. p = <<x, y>> /\ C(x, y) /\ (x \in RA \cup TA \cup TB)
        /\ (x \in RA => y \in RB) /\ (x \in TA => y \in RB) /\ (x \in TB => y \in RA)
    BY <1>3, <1>15 DEF Crossed
  <2> HIDE DEF x, y, RA, RB, TA, TB, C
  <2>2. x \in Order
    BY <1>3, <2>1
  <2>3. /\ Written(u.amt, x) \in Nat /\ Written(v.amt, x) \in Nat /\ Base(x) \in Nat
        /\ Written(v.amt, x) <= Base(x)
    BY <1>6, <1>9, <2>2, StateAmounts, OrderAmounts
  <2>4. u.outcome = "running" /\ s.outcome = "running"
    BY <1>7, <1>10, <1>15
  <2>5. CASE x \in RA
    <3>1. Written(s.amt, x) = Base(x)
      BY <1>4, <2>1, <2>4, <2>5
    <3>2. Written(u.amt, x) = Base(x)
      BY <1>3, <1>7, <2>2, <2>5, <3>1
    <3>3. Written(v.amt, x) >= Base(x)
      BY <1>10, <1>15, <2>5, <3>2 DEF x
    <3>4. QED
      BY <2>3, <3>3 DEF x
  <2>6. CASE x \in TA
    <3>1. Written(u.amt, x) = Base(x)
      BY <1>6, <1>15, <2>1, <2>4, <2>6 DEF x
    <3>2. QED
      BY <1>3, <1>10, <2>2, <2>6, <3>1 DEF x
  <2>7. CASE x \in TB
    BY <1>9, <1>15, <2>1, <2>7 DEF x
  <2>8. QED
    BY <2>1, <2>5, <2>6, <2>7
<1>16. v.outcome = "running" => Uncrossed(b, q, v.amt)
  BY <1>15 DEF Uncrossed
<1>17. QED
  BY <1>1, <1>9, <1>14, <1>16 DEF s

-----------------------------------------------------------------------------
TriggerOf(q, side, o) ==
  /\ OrderOf[o].market = q.index
  /\ is_inactive_trigger_order(OrderOf[o])
  /\ sub_type(OrderOf[o]) = side

(* The trigger list of a side holds the inactive trigger orders of the       *)
(* market, each with a node of its own.                                      *)
LEMMA TriggerList ==
  ASSUME NEW b \in Book, BookInv(b), NEW q \in Query, NEW side \in Side
  PROVE  LET S == b.heap[q.index]["Trigger"][side]
         IN /\ IsFiniteSet(S)
            /\ \A n \in S : n.node_type = "Trigger" /\ n.sig \in b.orders /\ TriggerOf(q, side, n.sig)
            /\ \A o \in b.orders : TriggerOf(q, side, o) => \E n \in S : n.sig = o
<1> DEFINE S == b.heap[q.index]["Trigger"][side]
           f == [o \in Order |-> [sig |-> o, node_type |-> "Trigger"]]
           Nodes == {f[o] : o \in Order}
<1>1. q.index \in Market /\ "Trigger" \in NodeType
  BY SearchAssumption DEF QueryRecord, NodeType
<1>2. \A o : node_type(OrderOf[o], b.seen[o]) = "Trigger" <=> is_inactive_trigger_order(OrderOf[o])
  BY DEF node_type
<1>3. ASSUME NEW n \in S
      PROVE  n.node_type = "Trigger" /\ n.sig \in b.orders /\ TriggerOf(q, side, n.sig)
  <2>1. /\ n.sig \in b.orders /\ sub_type(OrderOf[n.sig]) = side
        /\ PlaceOf(b, n.sig) = "Trigger"
        /\ OrderOf[n.sig].market = q.index /\ n.node_type = "Trigger"
    BY <1>1 DEF BookInv, NodesPlaced
  <2>2. QED
    BY <1>2, <2>1 DEF PlaceOf, TriggerOf
<1>4. \A o \in b.orders : TriggerOf(q, side, o) => \E n \in S : n.sig = o
  BY <1>2 DEF TriggerOf, BookInv, OrdersHeld, PlaceOf
<1>5. IsFiniteSet(S)
  <2>1. f \in Surjection(Order, Nodes)
    BY DEF Surjection
  <2>2. IsFiniteSet(Nodes)
    <3> HIDE DEF f, Nodes
    <3> QED
      BY <2>1, SearchAssumption, FS_Surjection
  <2>3. S \subseteq Nodes
    <3>1. S \subseteq Node
      BY <1>1 DEF Book
    <3>2. \A n \in S : n.sig \in Order /\ n = f[n.sig]
      BY <1>3, <3>1 DEF Node
    <3> HIDE DEF f, S
    <3>3. QED
      BY <3>2
  <2> HIDE DEF Range, S
  <2>4. QED
    BY <2>2, <2>3, FS_Subset
<1>6. QED
  BY <1>3, <1>4, <1>5

(* An order that triggers is popped only after orders that do too.           *)
LEMMA TriggeredPrefix ==
  ASSUME NEW b \in Book, BookInv(b), NEW q \in Query, NEW side \in Side,
         NEW heap \in trigger_orders(b, q, side)
  PROVE  triggered_prefix(heap, q, side) =
           {o \in b.orders :
              /\ TriggerOf(q, side, o)
              /\ IF side = "bids" THEN OrderOf[o].trigger_price < q.oracle_price
                                  ELSE OrderOf[o].trigger_price > q.oracle_price}
<1> DEFINE S == b.heap[q.index]["Trigger"][side]
           price(n) == OrderOf[n.sig].trigger_price
           triggers(n) == IF side = "bids" THEN price(n) < q.oracle_price
                                           ELSE price(n) > q.oracle_price
           Popped == {k \in DOMAIN heap : \A i \in 1..k : triggers(heap[i])}
           O == {o \in b.orders :
                   /\ TriggerOf(q, side, o)
                   /\ IF side = "bids" THEN OrderOf[o].trigger_price < q.oracle_price
                                       ELSE OrderOf[o].trigger_price > q.oracle_price}
<1>1. /\ IsFiniteSet(S)
      /\ \A n \in S : n.node_type = "Trigger" /\ n.sig \in b.orders /\ TriggerOf(q, side, n.sig)
      /\ \A o \in b.orders : TriggerOf(q, side, o) => \E n \in S : n.sig = o
  BY TriggerList
<1>2. /\ heap \in [1..Cardinality(S) -> S]
      /\ \A i, j \in DOMAIN heap : i < j => heap[i] # heap[j]
      /\ \A i, j \in DOMAIN heap : i < j =>
           ~pops_before(<<"Trigger", side>>, OrderOf[heap[j].sig], heap[j].node_type,
                        OrderOf[heap[i].sig], heap[i].node_type)
  BY DEF trigger_orders, sortings
<1>3. triggered_prefix(heap, q, side) = {heap[k].sig : k \in Popped}
  BY DEF triggered_prefix
<1> HIDE DEF S
<1>4. PICK n \in Nat : Listed(heap, S, n)
  BY <1>1, <1>2, AllListed
<1>5. DOMAIN heap = 1..n /\ \A k \in 1..n : heap[k] \in S
  BY <1>4 DEF Listed
<1>6. \A x \in S : price(x) \in Nat /\ OrderOf[x.sig].slot \in Nat
  BY <1>1, OrderAssumption DEF OrderRecord, Book
<1>7. q.oracle_price \in Nat
  BY SearchAssumption DEF QueryRecord
<1>8. ASSUME NEW i \in 1..n, NEW j \in 1..n, i < j, triggers(heap[j]) PROVE triggers(heap[i])
  <2> DEFINE x == heap[j]
             y == heap[i]
  <2>1. /\ x \in S /\ y \in S /\ x.node_type = "Trigger" /\ y.node_type = "Trigger"
        /\ ~pops_before(<<"Trigger", side>>, OrderOf[x.sig], x.node_type, OrderOf[y.sig], y.node_type)
    BY <1>1, <1>2, <1>5, <1>8
  <2>2. price(x) \in Nat /\ price(y) \in Nat /\ triggers(x)
    BY <1>6, <1>8, <2>1
  <2> HIDE DEF x, y
  <2>3. \A order : sort_value(order, "Trigger") = order.trigger_price
    BY DEF sort_value
  <2>4. CASE side = "bids"
    <3>1. <<"Trigger", side>> \in Ascending
      BY <2>4 DEF Ascending
    <3>2. ~(price(x) < price(y))
      BY <2>1, <2>3, <3>1 DEF pops_before
    <3>3. triggers(y)
      BY <1>7, <2>2, <2>4, <3>2
    <3>4. QED
      BY <3>3 DEF y
  <2>5. CASE side # "bids"
    <3>1. <<"Trigger", side>> \notin Ascending
      BY <2>5 DEF Ascending, Side
    <3>2. ~(price(y) < price(x))
      BY <2>1, <2>3, <3>1 DEF pops_before
    <3>3. triggers(y)
      BY <1>7, <2>2, <2>5, <3>2
    <3>4. QED
      BY <3>3 DEF y
  <2>6. QED
    BY <2>4, <2>5
<1>9. Popped = {k \in 1..n : triggers(heap[k])}
  <2>1. ASSUME NEW k \in 1..n, triggers(heap[k]), NEW i \in 1..k PROVE triggers(heap[i])
    <3>1. i = k \/ (i \in 1..n /\ i < k)
      OBVIOUS
    <3> HIDE DEF triggers
    <3>2. QED
      BY <1>8, <2>1, <3>1
  <2>2. \A k \in 1..n : k \in 1..k
    OBVIOUS
  <2> HIDE DEF triggers
  <2>3. QED
    BY <1>5, <2>1, <2>2
<1>10. ASSUME NEW k \in Popped PROVE heap[k].sig \in O
  BY <1>1, <1>5, <1>9
<1>11. ASSUME NEW o \in O PROVE \E k \in Popped : heap[k].sig = o
  <2>1. PICK x \in S : x.sig = o
    BY <1>1
  <2>2. PICK k \in 1..n : heap[k] = x
    BY <1>4 DEF Listed
  <2>3. QED
    BY <1>9, <2>1, <2>2
<1> HIDE DEF Popped, O
<1>12. {heap[k].sig : k \in Popped} = O
  BY <1>10, <1>11
<1>13. QED
  BY <1>3, <1>12 DEF O

(* Both sides together: those that trigger above a price and those below.    *)
LEMMA TriggersFound ==
  ASSUME NEW b \in Book, BookInv(b), NEW q \in Query,
         NEW above \in trigger_orders(b, q, "bids"), NEW below \in trigger_orders(b, q, "asks")
  PROVE  triggered_prefix(above, q, "bids") \cup triggered_prefix(below, q, "asks") =
           {o \in b.orders :
              /\ OrderOf[o].market = q.index
              /\ is_inactive_trigger_order(OrderOf[o])
              /\ \/ /\ OrderOf[o].trigger_condition = "Above"
                    /\ OrderOf[o].trigger_price < q.oracle_price
                 \/ /\ OrderOf[o].trigger_condition = "Below"
                    /\ OrderOf[o].trigger_price > q.oracle_price}
<1>1. triggered_prefix(above, q, "bids") =
        {o \in b.orders : /\ TriggerOf(q, "bids", o)
                          /\ OrderOf[o].trigger_price < q.oracle_price}
  BY TriggeredPrefix DEF Side
<1>2. triggered_prefix(below, q, "asks") =
        {o \in b.orders : /\ TriggerOf(q, "asks", o)
                          /\ OrderOf[o].trigger_price > q.oracle_price}
  BY TriggeredPrefix DEF Side
<1>3. ASSUME NEW o \in b.orders, is_inactive_trigger_order(OrderOf[o])
      PROVE  /\ sub_type(OrderOf[o]) = "bids" <=> OrderOf[o].trigger_condition = "Above"
             /\ sub_type(OrderOf[o]) = "asks" <=> OrderOf[o].trigger_condition = "Below"
  <2>1. OrderOf[o].trigger_condition \in TriggerCondition
    BY OrderAssumption DEF Book, OrderRecord
  <2>2. OrderOf[o].trigger_condition \in {"Above", "Below"}
    BY <1>3, <2>1 DEF is_inactive_trigger_order, triggered, TriggerCondition
  <2>3. QED
    BY <1>3, <2>2 DEF sub_type
<1>4. QED
  BY <1>1, <1>2, <1>3 DEF TriggerOf

-----------------------------------------------------------------------------
(* The caller's book is a book filed no later than now, and the answer is    *)
(* right.                                                                    *)
AnswerRight ==
  /\ ReturnsOnlyUncrossed
  /\ BlocksHalfway
  /\ BidsMatchedWithinSize
  /\ NeverOverfilled
  /\ FallbackInTime
  /\ ExpiredAllReturned
  /\ TriggersExact

IInv ==
  /\ slot \in Nat
  /\ GoodBook(book, slot)
  /\ AnswerRight

(* The searches leave the book as they found it or swept.                    *)
LEMMA SweptGood ==
  ASSUME slot \in Nat, GoodBook(book, slot),
         NEW swept \in {book} \cup {update_resting_limit_orders(book, slot, rank) : rank \in Visits}
  PROVE  GoodBook(swept, slot) /\ swept.orders = book.orders
<1>1. \A rank \in Visits : update_resting_limit_orders(book, slot, rank).orders = book.orders
  BY DEF update_resting_limit_orders
<1>2. QED
  BY <1>1, GoodUpdate DEF GoodBook

(* Every expired order is in a heap the expiry scan reads: an order of a     *)
(* book is in a heap of its market, and an expired order in no trigger heap. *)
LEMMA ExpiredFound ==
  ASSUME NEW b \in Book, BookInv(b), NEW q, NEW o \in b.orders,
         OrderOf[o].market = q.index, is_order_expired(OrderOf[o], q.ts)
  PROVE  o \in find_expired_orders_to_fill(b, q)
<1> DEFINE l == PlaceOf(b, o)
           s == sub_type(OrderOf[o])
<1>1. l \in NodeType /\ s \in Side
  BY PlaceType DEF PlaceOf
<1>2. l # "Trigger"
  BY DEF PlaceOf, node_type, is_order_expired, is_inactive_trigger_order
<1>3. PICK n \in b.heap[q.index][l][s] : n.sig = o
  BY DEF BookInv, OrdersHeld
<1> HIDE DEF l, s
<1> QED
  BY <1>1, <1>2, <1>3 DEF find_expired_orders_to_fill

(* What find_nodes_to_fill returns from a book c, having collected the       *)
(* expired orders from b.                                                    *)
LEMMA FillsRight ==
  ASSUME slot \in Nat, NEW b, GoodBook(b, slot), NEW c, GoodBook(c, slot), b.orders = c.orders,
         NEW q \in Query, NEW lists \in Lists(c, q),
         NEW a, a = find_nodes_to_fill(b, c, q, lists)
  PROVE  /\ a.query = q /\ a.amt \in Amounts
         /\ a.outcome \in {"returned", "blocked", "panicked"}
         /\ a.outcome = "returned" => Uncrossed(c, q, a.amt)
         /\ a.outcome = "blocked" => HalfFilled(c, q, a.amt)
         /\ a.outcome = "returned" => Booked(c, q, a)
         /\ \A o \in a.to_vamm : FallbackOpen(q, o)
         /\ \A o \in c.orders :
              OrderOf[o].market = q.index /\ is_order_expired(OrderOf[o], q.ts) => o \in a.expired
<1> DEFINE t == find_taking_orders_to_fill(c, q,
                  find_resting_orders_to_fill(c, q, Start, lists), lists)
<1>1. /\ t \in SearchState(c, q)
      /\ t.outcome = "blocked" => HalfFilled(c, q, t.amt)
      /\ t.outcome = "running" => Uncrossed(c, q, t.amt)
  BY SearchEnds
<1>2. /\ a.outcome = IF t.outcome = "running" THEN "returned" ELSE t.outcome
      /\ a.query = q
      /\ a.expired = find_expired_orders_to_fill(b, q)
      /\ a.amt = t.amt /\ a.matched = t.matched
      /\ a.to_vamm = {n.node : n \in {k \in Range(t.nodes) : k.maker_nodes = <<>>}}
  BY DEF find_nodes_to_fill, fill_answer
<1> HIDE DEF t
<1>3. /\ t.outcome \in {"running", "blocked", "panicked"}
      /\ t.nodes \in Seq(Found(q))
      /\ t.amt \in Amounts
      /\ t.outcome = "running" => Booked(c, q, t)
  BY <1>1 DEF SearchState, SearchRecord
<1>4. \A o \in a.to_vamm : FallbackOpen(q, o)
  <2>1. \A n \in Range(t.nodes) : n \in Found(q)
    BY <1>3 DEF Range
  <2>2. QED
    BY <1>2, <2>1 DEF Found
<1>5. \A o \in c.orders :
        OrderOf[o].market = q.index /\ is_order_expired(OrderOf[o], q.ts) => o \in a.expired
  BY <1>2, ExpiredFound DEF GoodBook
<1>6. a.outcome = "returned" => Booked(c, q, a)
  BY <1>2, <1>3 DEF Booked
<1>7. QED
  BY <1>1, <1>2, <1>3, <1>4, <1>5, <1>6

LEMMA InitIInv == Init => IInv
<1> SUFFICES ASSUME Init PROVE IInv
  OBVIOUS
<1>1. AnswerRight
  BY DEF Init, NoAnswer, AnswerRight, ReturnsOnlyUncrossed, BlocksHalfway, BidsMatchedWithinSize,
         NeverOverfilled, FallbackInTime, ExpiredAllReturned, TriggersExact
<1>2. QED
  BY <1>1, GoodEmpty DEF Init, IInv

LEMMA NextIInv == IInv /\ [Next]_vars => IInv'
<1> SUFFICES ASSUME IInv, [Next]_vars PROVE IInv'
  OBVIOUS
<1>1. slot \in Nat /\ GoodBook(book, slot) /\ AnswerRight
  BY DEF IInv
<1>2. ASSUME slot' \in Nat, GoodBook(book', slot'),
             answer' = NoAnswer \/ \E q \in Query : answer' = [outcome |-> "none", query |-> q]
      PROVE  IInv'
  <2>1. answer'.outcome \in {"no search", "none"} /\ {"amt", "to_vamm"} \cap DOMAIN answer' = {}
    <3>1. CASE answer' = NoAnswer
      BY <3>1 DEF NoAnswer
    <3>2. ASSUME NEW q \in Query, answer' = [outcome |-> "none", query |-> q]
          PROVE  answer'.outcome = "none" /\ {"amt", "to_vamm"} \cap DOMAIN answer' = {}
      BY <3>2
    <3>3. QED
      BY <1>2, <3>1, <3>2
  <2>2. AnswerRight'
    BY <2>1 DEF AnswerRight, ReturnsOnlyUncrossed, BlocksHalfway, BidsMatchedWithinSize,
                NeverOverfilled, FallbackInTime, ExpiredAllReturned, TriggersExact
  <2>3. QED
    BY <1>2, <2>2 DEF IInv
<1>3. CASE Tick
  <2>1. slot' \in Nat /\ slot <= slot' /\ book' = book /\ answer' = NoAnswer
    BY <1>1, <1>3 DEF Tick
  <2>2. GoodBook(book', slot')
    BY <1>1, <2>1, GoodLater
  <2>3. QED
    BY <1>2, <2>1, <2>2
<1>4. ASSUME NEW o \in Order, InsertOrder(o) PROVE IInv'
  <2>1. /\ o \notin book.orders
        /\ book' = insert_order(book, o, slot)
        /\ slot' = slot /\ answer' = NoAnswer
    BY <1>4 DEF InsertOrder
  <2>2. GoodBook(book', slot)
    BY <1>1, <2>1, GoodInsert
  <2>3. QED
    BY <1>1, <1>2, <2>1, <2>2
<1>5. CASE Sweep
  <2>1. PICK rank \in Visits : book' = update_resting_limit_orders(book, slot, rank)
    BY <1>5 DEF Sweep
  <2>2. slot' = slot /\ answer' = NoAnswer
    BY <1>5 DEF Sweep
  <2>3. GoodBook(book', slot)
    BY <1>1, <2>1, GoodUpdate DEF GoodBook
  <2>4. QED
    BY <1>1, <1>2, <2>2, <2>3
<1>6. ASSUME NEW q \in Query, FindNodesToFill(q) PROVE IInv'
  <2>1. slot' = slot
    BY <1>6 DEF FindNodesToFill
  <2>2. CASE is_fill_paused(q.market, q.state)
    BY <1>1, <1>2, <1>6, <2>1, <2>2 DEF FindNodesToFill
  <2>3. CASE ~is_fill_paused(q.market, q.state)
    <3>1. PICK swept \in {book} \cup {update_resting_limit_orders(book, slot, rank) :
                                        rank \in Visits} :
            /\ \E lists \in Lists(swept, q) :
                 answer' = find_nodes_to_fill(book, swept, q, lists)
            /\ book' = swept
      BY <1>6, <2>3 DEF FindNodesToFill
    <3>2. PICK lists \in Lists(swept, q) : answer' = find_nodes_to_fill(book, swept, q, lists)
      BY <3>1
    <3>3. GoodBook(swept, slot) /\ swept.orders = book.orders
      BY <1>1, SweptGood
    <3>4. PICK a : a = answer' /\ a = find_nodes_to_fill(book, swept, q, lists)
      BY <3>2
    <3>5. /\ a.query = q /\ a.amt \in Amounts
          /\ a.outcome \in {"returned", "blocked", "panicked"}
          /\ a.outcome = "returned" => Uncrossed(swept, q, a.amt)
          /\ a.outcome = "blocked" => HalfFilled(swept, q, a.amt)
          /\ a.outcome = "returned" => Booked(swept, q, a)
          /\ \A o \in a.to_vamm : FallbackOpen(q, o)
          /\ \A o \in swept.orders :
               OrderOf[o].market = q.index /\ is_order_expired(OrderOf[o], q.ts) => o \in a.expired
      BY <1>1, <3>3, <3>4, FillsRight
    <3>6. /\ answer' = a /\ answer'.query = q /\ book' = swept /\ slot' = slot
          /\ a.outcome # "triggers"
      BY <2>1, <3>1, <3>4, <3>5
    <3>7. ReturnsOnlyUncrossed'
      <4>1. ASSUME a.outcome = "returned", NEW p \in Crossed(book, answer.query)',
                   SameShard(p), OrderOf[p[1]].market = q.index, update_finds(book, p[1])'
            PROVE  a.amt[q.index][p[1]] = OrderOf[p[1]].base_asset_amount
        <5>1. p \in Crossed(swept, q)
          BY <3>6, <4>1 DEF Crossed, Price
        <5>2. update_finds(swept, p[1])
          BY <3>6, <4>1 DEF update_finds
        <5>3. Uncrossed(swept, q, a.amt)
          BY <3>5, <4>1
        <5>4. QED
          BY <4>1, <5>1, <5>2, <5>3 DEF Uncrossed, Written, Base
      <4>2. QED
        BY <3>6, <4>1 DEF ReturnsOnlyUncrossed
    <3>8. BlocksHalfway'
      <4>1. SUFFICES ASSUME a.outcome = "blocked" PROVE BlocksHalfway'
        BY <3>6 DEF BlocksHalfway
      <4>2. PICK p \in Crossed(swept, q) :
              /\ SameShard(p)
              /\ Written(a.amt, p[2]) > FilledBefore(p[2])
              /\ Written(a.amt, p[1]) < Base(p[1])
        BY <3>5, <4>1 DEF HalfFilled
      <4>3. p \in Crossed(book, answer.query)'
        BY <3>6, <4>2 DEF Crossed, Price
      <4>4. QED
        BY <3>6, <4>2, <4>3 DEF BlocksHalfway, Written, FilledBefore, Base
    <3>9. BidsMatchedWithinSize'
      <4>1. ASSUME a.outcome = "returned",
                   NEW o \in resting_limit_orders(book, answer.query, "bids")',
                   OrderOf[o].market = q.index
            PROVE  LET filled == OrderOf[o].base_asset_amount_filled + a.matched[o]
                   IN a.amt[q.index][o] = filled /\ filled <= OrderOf[o].base_asset_amount
        <5>1. o \in resting_limit_orders(swept, q, "bids")
          BY <3>6, <4>1 DEF resting_limit_orders
        <5>2. o \in Bids(swept, q) /\ o \in Order
          BY <1>1, <3>3, <4>1, <5>1, RestingFiled DEF Bids, Side
        <5>3. Written(a.amt, o) = FilledBefore(o) + a.matched[o]
          BY <3>5, <4>1, <5>2 DEF Booked
        <5>4. Written(a.amt, o) <= Base(o)
          BY <3>5, <5>2, OrderAmounts DEF Amounts, Written
        <5>5. QED
          BY <4>1, <5>3, <5>4 DEF Written, FilledBefore, Base
      <4>2. QED
        BY <3>6, <4>1 DEF BidsMatchedWithinSize
    <3>10. NeverOverfilled'
      <4>1. \A m \in Market, o \in Order : a.amt[m][o] \in 0..OrderOf[o].base_asset_amount
        BY <3>5, OrderAmounts DEF Amounts, Base
      <4>2. QED
        BY <3>6, <4>1 DEF NeverOverfilled
    <3>11. FallbackInTime'
      BY <3>5, <3>6 DEF FallbackInTime, FallbackOpen
    <3>12. ExpiredAllReturned' /\ TriggersExact'
      BY <3>5, <3>6 DEF ExpiredAllReturned, TriggersExact
    <3>13. QED
      BY <1>1, <3>3, <3>6, <3>7, <3>8, <3>9, <3>10, <3>11, <3>12 DEF IInv, AnswerRight
  <2>4. QED
    BY <2>2, <2>3
<1>7. ASSUME NEW q \in Query, FindNodesToTrigger(q) PROVE IInv'
  <2>1. PICK above \in trigger_orders(book, q, "bids"), below \in trigger_orders(book, q, "asks") :
          answer' = find_nodes_to_trigger(book, q, above, below)
    BY <1>7 DEF FindNodesToTrigger
  <2>2. slot' = slot /\ book' = book
    BY <1>7 DEF FindNodesToTrigger
  <2>3. CASE answer' = [outcome |-> "none", query |-> q]
    BY <1>1, <1>2, <2>2, <2>3
  <2>4. CASE answer'.outcome = "triggers"
    <3> DEFINE found == triggered_prefix(above, q, "bids") \cup triggered_prefix(below, q, "asks")
    <3>1. found = {o \in book.orders :
                     /\ OrderOf[o].market = q.index
                     /\ is_inactive_trigger_order(OrderOf[o])
                     /\ \/ /\ OrderOf[o].trigger_condition = "Above"
                           /\ OrderOf[o].trigger_price < q.oracle_price
                        \/ /\ OrderOf[o].trigger_condition = "Below"
                           /\ OrderOf[o].trigger_price > q.oracle_price}
      BY <1>1, TriggersFound DEF GoodBook
    <3>2. answer' = [outcome |-> "triggers", query |-> q, nodes_to_trigger |-> found]
      BY <2>1, <2>4 DEF find_nodes_to_trigger
    <3> HIDE DEF found
    <3>3. /\ answer'.query = q /\ answer'.nodes_to_trigger = found
          /\ "amt" \notin DOMAIN answer' /\ "to_vamm" \notin DOMAIN answer'
      BY <3>2
    <3>4. TriggersExact'
      BY <2>2, <3>1, <3>3 DEF TriggersExact
    <3>5. AnswerRight'
      BY <2>4, <3>3, <3>4 DEF AnswerRight, ReturnsOnlyUncrossed, BlocksHalfway,
           BidsMatchedWithinSize, NeverOverfilled, FallbackInTime, ExpiredAllReturned
    <3>6. QED
      BY <1>1, <2>2, <3>5 DEF IInv
  <2>5. QED
    BY <2>1, <2>3, <2>4 DEF find_nodes_to_trigger
<1>8. CASE NextBook
  <2>1. slot' = slot /\ book' = EmptyBook /\ answer' = NoAnswer
    BY <1>8 DEF NextBook
  <2>2. QED
    BY <1>1, <1>2, <2>1, GoodEmpty
<1>9. CASE UNCHANGED vars
  <2>1. slot' = slot /\ book' = book /\ answer' = answer
    BY <1>9 DEF vars
  <2>2. ReturnsOnlyUncrossed'
    BY <1>1, <2>1 DEF AnswerRight, ReturnsOnlyUncrossed, Crossed, Price, update_finds
  <2>3. BlocksHalfway'
    BY <1>1, <2>1 DEF AnswerRight, BlocksHalfway, Crossed, Price
  <2>4. BidsMatchedWithinSize' /\ NeverOverfilled' /\ FallbackInTime'
    BY <1>1, <2>1 DEF AnswerRight, BidsMatchedWithinSize, resting_limit_orders, NeverOverfilled,
                      FallbackInTime
  <2>5. ExpiredAllReturned' /\ TriggersExact'
    BY <1>1, <2>1 DEF AnswerRight, ExpiredAllReturned, TriggersExact
  <2>6. QED
    BY <1>1, <2>1, <2>2, <2>3, <2>4, <2>5 DEF IInv, AnswerRight
<1>10. QED
  BY <1>3, <1>4, <1>5, <1>6, <1>7, <1>8, <1>9 DEF Next

LEMMA Invariance == Spec => []IInv
BY InitIInv, NextIInv, PTL DEF Spec

(* A search returns only from a book whose own orders no longer cross, for   *)
(* any lists, prices, amounts and shards.                                    *)
THEOREM ReturnsUncrossed == Spec => []ReturnsOnlyUncrossed
<1>1. IInv => ReturnsOnlyUncrossed
  BY DEF IInv, AnswerRight
<1>2. QED
  BY Invariance, <1>1, PTL

(* A search that never returns is held up by a crossed pair on one shard,    *)
(* and has written the amount of one of the two only.                        *)
THEOREM BlockedHalf == Spec => []BlocksHalfway
<1>1. IInv => BlocksHalfway
  BY DEF IInv, AnswerRight
<1>2. QED
  BY Invariance, <1>1, PTL

(* Over all the loops of a search, a resting bid of the searched market is   *)
(* matched with no more than it has, and the book says with how much.        *)
THEOREM BidsWithinSize == Spec => []BidsMatchedWithinSize
<1>1. IInv => BidsMatchedWithinSize
  BY DEF IInv, AnswerRight
<1>2. QED
  BY Invariance, <1>1, PTL

(* However stale the amounts a search reads, none it writes exceeds its      *)
(* order.                                                                    *)
THEOREM AmountsBounded == Spec => []NeverOverfilled
<1>1. IInv => NeverOverfilled
  BY DEF IInv, AnswerRight
<1>2. QED
  BY Invariance, <1>1, PTL

(* No order is sent to the vAMM while the exchange or its perp market pauses *)
(* that, in a drawdown, or too early, whether it has makers as well or not.  *)
THEOREM FallbackWaits == Spec => []FallbackInTime
<1>1. IInv => FallbackInTime
  BY DEF IInv, AnswerRight
<1>2. QED
  BY Invariance, <1>1, PTL

(* Every expired order of the searched market is returned.                   *)
THEOREM ExpiredReturned == Spec => []ExpiredAllReturned
<1>1. IInv => ExpiredAllReturned
  BY DEF IInv, AnswerRight
<1>2. QED
  BY Invariance, <1>1, PTL

(* The orders returned to be triggered are those that trigger.               *)
THEOREM TriggersFoundAll == Spec => []TriggersExact
<1>1. IInv => TriggersExact
  BY DEF IInv, AnswerRight
<1>2. QED
  BY Invariance, <1>1, PTL

-----------------------------------------------------------------------------
(* Auction prices: the product with the progress of the auction, divided by  *)
(* its duration, goes from nothing to the whole and never back.              *)
LEMMA DivMonotone ==
  ASSUME NEW d \in Nat \ {0}, NEW x \in Nat, NEW y \in Nat, x <= y
  PROVE  x \div d \in Nat /\ x \div d <= y \div d
OBVIOUS

LEMMA Progress ==
  ASSUME NEW d \in Nat \ {0}, NEW a \in Nat, NEW n \in 0..d, NEW m \in 0..d, n <= m
  PROVE  /\ (a * n) \div d \in Nat /\ (a * m) \div d \in Nat
         /\ (a * n) \div d <= (a * m) \div d
         /\ (a * m) \div d <= a
         /\ m = d => (a * m) \div d = a
<1>1. a * n \in Nat /\ a * m \in Nat /\ a * d \in Nat
  OBVIOUS
<1>2. a * n <= a * m /\ a * m <= a * d
  OBVIOUS
<1>3. (a * d) \div d = a
  OBVIOUS
<1> QED
  BY <1>1, <1>2, <1>3, DivMonotone

LEMMA QuotientApproaches ==
  ASSUME NEW d \in Nat \ {0}, NEW a \in Int, NEW n \in 0..d, NEW m \in 0..d, n <= m
  PROVE  /\ quotient(a * n, d) \in Int /\ quotient(a * m, d) \in Int
         /\ a >= 0 => quotient(a * n, d) <= quotient(a * m, d) /\ quotient(a * m, d) <= a
         /\ a < 0 => quotient(a * n, d) >= quotient(a * m, d) /\ quotient(a * m, d) >= a
         /\ m = d => quotient(a * m, d) = a
<1>1. CASE a >= 0
  <2>1. a \in Nat /\ a * n >= 0 /\ a * m >= 0
    BY <1>1
  <2>2. quotient(a * n, d) = (a * n) \div d /\ quotient(a * m, d) = (a * m) \div d
    BY <2>1 DEF quotient
  <2>3. /\ (a * n) \div d \in Nat /\ (a * m) \div d \in Nat
        /\ (a * n) \div d <= (a * m) \div d
        /\ (a * m) \div d <= a
        /\ m = d => (a * m) \div d = a
    BY <2>1, Progress
  <2>4. QED
    BY <1>1, <2>2, <2>3
<1>2. CASE a < 0
  <2> DEFINE b == -a
  <2>1. b \in Nat
    BY <1>2
  <2>2. ASSUME NEW k \in 0..d
        PROVE  quotient(a * k, d) = -((b * k) \div d)
    <3>1. -(a * k) = b * k /\ b * k \in Nat
      <4>1. (-a) * k = -(a * k)
        OBVIOUS
      <4>2. QED
        BY <2>1, <4>1
    <3>2. a * k >= 0 => k = 0
      <4>1. k # 0 => a * k < 0
        BY <1>2
      <4>2. QED
        BY <4>1
    <3>3. CASE k = 0
      <4>1. a * k = 0 /\ b * k = 0
        BY <3>3, <2>1
      <4>2. 0 \div d = 0
        OBVIOUS
      <4>3. QED
        BY <4>1, <4>2 DEF quotient
    <3>4. CASE k # 0
      BY <3>1, <3>2, <3>4 DEF quotient
    <3>5. QED
      BY <3>3, <3>4
  <2> HIDE DEF b
  <2>3. /\ (b * n) \div d \in Nat /\ (b * m) \div d \in Nat
        /\ (b * n) \div d <= (b * m) \div d
        /\ (b * m) \div d <= b
        /\ m = d => (b * m) \div d = b
    BY <2>1, Progress
  <2>4. quotient(a * n, d) = -((b * n) \div d) /\ quotient(a * m, d) = -((b * m) \div d)
    BY <2>2
  <2>5. a = -b
    BY DEF b
  <2>6. QED
    BY <1>2, <2>1, <2>3, <2>4, <2>5
<1>3. QED
  BY <1>1, <1>2

LEMMA AuctionCloser ==
  ASSUME NEW order \in OrderRecord, NEW s \in Nat, NEW t \in Nat, s <= t,
         has_auction_price(order, t), s >= order.slot
  PROVE  /\ Distance(order, t) <= Distance(order, s)
         /\ t = order.slot + order.auction_duration => Distance(order, t) = 0
<1> DEFINE d == order.auction_duration
           n == lesser(s - order.slot, d)
           m == lesser(t - order.slot, d)
           a == IF order.direction = "Long" THEN order.auction_start_price
                                            ELSE order.auction_end_price
<1>1. d \in Nat \ {0} /\ order.slot \in Nat /\ t <= order.slot + d
  BY DEF has_auction_price, is_auction_complete, OrderRecord
<1>2. order.auction_start_price \in Int /\ order.auction_end_price \in Int /\ a \in Int
  BY DEF OrderRecord
<1>3. n \in 0..d /\ m \in 0..d /\ n <= m /\ (t = order.slot + d => m = d)
  BY <1>1 DEF lesser
<1>4. auction_offset(order, s) =
        IF order.direction = "Long"
        THEN order.auction_start_price
               + (order.auction_end_price - quotient(order.auction_start_price * n, d))
        ELSE order.auction_start_price
               - (order.auction_start_price - quotient(order.auction_end_price * n, d))
  BY DEF auction_offset
<1>5. auction_offset(order, t) =
        IF order.direction = "Long"
        THEN order.auction_start_price
               + (order.auction_end_price - quotient(order.auction_start_price * m, d))
        ELSE order.auction_start_price
               - (order.auction_start_price - quotient(order.auction_end_price * m, d))
  BY DEF auction_offset
<1> DEFINE q == quotient(a * n, d)
           r == quotient(a * m, d)
<1>6. /\ auction_offset(order, s) - order.auction_end_price =
           IF order.direction = "Long" THEN a - quotient(a * n, d) ELSE quotient(a * n, d) - a
      /\ auction_offset(order, t) - order.auction_end_price =
           IF order.direction = "Long" THEN a - quotient(a * m, d) ELSE quotient(a * m, d) - a
  <2>1. q \in Int /\ r \in Int
    BY <1>1, <1>2, <1>3, QuotientApproaches
  <2>2. CASE order.direction = "Long"
    <3>1. /\ auction_offset(order, s) = a + (order.auction_end_price - q)
          /\ auction_offset(order, t) = a + (order.auction_end_price - r)
      BY <1>4, <1>5, <2>2
    <3> HIDE DEF a, q, r
    <3>2. QED
      BY <1>2, <2>1, <2>2, <3>1 DEF q, r
  <2>3. CASE order.direction # "Long"
    <3>1. /\ auction_offset(order, s) = order.auction_start_price - (order.auction_start_price - q)
          /\ auction_offset(order, t) = order.auction_start_price - (order.auction_start_price - r)
          /\ a = order.auction_end_price
      BY <1>4, <1>5, <2>3
    <3> HIDE DEF a, q, r
    <3>2. QED
      BY <1>2, <2>1, <2>3, <3>1 DEF q, r
  <2>4. QED
    BY <2>2, <2>3
<1>7. /\ q \in Int /\ r \in Int
      /\ a >= 0 => q <= r /\ r <= a
      /\ a < 0 => q >= r /\ r >= a
      /\ m = d => r = a
  BY <1>1, <1>2, <1>3, QuotientApproaches
<1> HIDE DEF a, q, r, n, m, d
<1>8. /\ Distance(order, s) = IF a >= q THEN a - q ELSE q - a
      /\ Distance(order, t) = IF a >= r THEN a - r ELSE r - a
  BY <1>2, <1>6, <1>7 DEF Distance, q, r
<1>9. QED
  BY <1>2, <1>3, <1>7, <1>8 DEF d

(* While an auction runs, no step takes its price further from the end       *)
(* price, and its last slot has it: for every order, price and duration.     *)
THEOREM AuctionEnds == Spec => AuctionEndsAtEndPrice
<1> DEFINE Closer ==
      \A o \in Order :
        LET order == OrderOf[o]
        IN has_auction_price(order, slot') /\ slot >= order.slot =>
             /\ Distance(order, slot') <= Distance(order, slot)
             /\ slot' = order.slot + order.auction_duration => Distance(order, slot') = 0
<1>1. IInv /\ IInv' /\ [Next]_vars => [Closer]_vars
  <2> SUFFICES ASSUME IInv, IInv', [Next]_vars PROVE Closer
    OBVIOUS
  <2>1. slot \in Nat /\ slot' \in Nat /\ slot <= slot'
    <3>1. slot \in Nat /\ slot' \in Nat
      BY DEF IInv
    <3>2. slot' = slot \/ slot' = slot + 1
      BY DEF Next, vars, Tick, InsertOrder, Sweep, FindNodesToFill, FindNodesToTrigger, NextBook
    <3>3. QED
      BY <3>1, <3>2
  <2>2. QED
    BY <2>1, OrderAssumption, AuctionCloser
<1>2. QED
  BY Invariance, <1>1, PTL DEF Spec, AuctionEndsAtEndPrice
=============================================================================
