------------------------------ MODULE DLOBProofs ------------------------------
(***************************************************************************)
(* Proofs about DLOB for every set of markets, orders and consumers.  The   *)
(* inductive invariant says of each book alive where its nodes may be       *)
(* (NodesPlaced) and that every order has one where it belongs              *)
(* (OrdersHeld); together they give EveryOrderFiledOnce.                    *)
(***************************************************************************)
EXTENDS DLOB, OrderBookProofs, TLAPS, SequenceTheorems

(* The invariant of the state machine.  A copy is not replaced while a query *)
(* is under way, so the slot of the query is no earlier than any slot at     *)
(* which the copy filed an order.                                            *)
IInv ==
  /\ TypeOK
  /\ build_slot <= current_slot
  /\ GoodBook(dlob, current_slot)
  /\ \A c \in Consumer : GoodBook(copy[c], current_slot)
  /\ \A c \in Consumer : \A i \in 1..Len(events[c]) : GoodBook(events[c][i], current_slot)
  /\ \A c \in Consumer : query_slot[c] <= current_slot
  /\ \A c \in Consumer : pc[c] \in {"store", "move"} => SeenBy(copy[c], query_slot[c])

-----------------------------------------------------------------------------
(* IInv is inductive.                                                        *)
LEMMA InitIInv == Init => IInv
<1> SUFFICES ASSUME Init PROVE IInv
  OBVIOUS
<1>1. TypeOK
  BY EmptyBookInv DEF Init, TypeOK
<1>2. QED
  BY <1>1, GoodEmpty DEF Init, IInv

LEMMA NextIInv == IInv /\ [Next]_vars => IInv'
<1> SUFFICES ASSUME IInv, [Next]_vars PROVE IInv'
  OBVIOUS
<1> USE DEF IInv, builder_vars, consumer_vars
<1>1. CASE Tick
  <2>1. TypeOK' /\ current_slot \in Nat /\ current_slot' \in Nat /\ current_slot <= current_slot'
    BY <1>1 DEF Tick, TypeOK
  <2>2. /\ GoodBook(dlob, current_slot')
        /\ \A c \in Consumer : GoodBook(copy[c], current_slot')
        /\ \A c \in Consumer : \A i \in 1..Len(events[c]) : GoodBook(events[c][i], current_slot')
    BY <2>1, GoodLater
  <2>3. \A c \in Consumer : query_slot[c] <= current_slot'
    BY <2>1 DEF TypeOK
  <2>4. build_slot <= current_slot'
    BY <2>1 DEF TypeOK
  <2>5. QED
    BY <1>1, <2>1, <2>2, <2>3, <2>4 DEF Tick
<1>2. CASE Clear
  <2>1. TypeOK'
    BY <1>2, EmptyBookInv DEF Clear, TypeOK
  <2>2. GoodBook(dlob', current_slot') /\ build_slot' <= current_slot'
    BY <1>2, GoodEmpty DEF Clear, TypeOK
  <2>3. QED
    BY <1>2, <2>1, <2>2 DEF Clear
<1>3. ASSUME NEW o \in Order, BuildInsert(o) PROVE IInv'
  <2>1. GoodBook(dlob', current_slot')
    BY <1>3, GoodInsert DEF BuildInsert, TypeOK
  <2>2. TypeOK'
    BY <1>3, <2>1 DEF BuildInsert, TypeOK, GoodBook
  <2>3. QED
    BY <1>3, <2>1, <2>2 DEF BuildInsert
<1>4. CASE BuildFinish
  <2>1. /\ events' = [c \in Consumer |-> Append(events[c], dlob)]
        /\ build_pc' = "idle" /\ build_slot' = 0
        /\ UNCHANGED <<current_slot, dlob, max_slot, copy, pc, query_slot>>
    BY <1>4 DEF BuildFinish
  <2>2. TypeOK'
    BY <2>1 DEF TypeOK
  <2>3. ASSUME NEW c \in Consumer, NEW i \in 1..Len(events'[c])
        PROVE  GoodBook(events'[c][i], current_slot)
    <3>1. events[c] \in Seq(Book) /\ dlob \in Book
      BY DEF TypeOK
    <3>2. events'[c][i] = dlob \/ (i \in 1..Len(events[c]) /\ events'[c][i] = events[c][i])
      BY <2>1, <2>3, <3>1
    <3>3. QED
      BY <3>2
  <2>4. QED
    BY <2>1, <2>2, <2>3 DEF TypeOK
<1>5. ASSUME NEW c \in Consumer, Recv(c) PROVE IInv'
  <2>1. /\ pc[c] = "idle" /\ events[c] # <<>>
        /\ copy' = [copy EXCEPT ![c] = Head(events[c])]
        /\ events' = [events EXCEPT ![c] = Tail(@)]
        /\ UNCHANGED <<current_slot, dlob, build_pc, build_slot, max_slot, pc, query_slot>>
    BY <1>5 DEF Recv
  <2>2. events[c] \in Seq(Book) /\ Len(events[c]) \in Nat /\ Len(events[c]) >= 1
    BY <2>1 DEF TypeOK
  <2>3. GoodBook(Head(events[c]), current_slot)
    BY <2>2
  <2>4. TypeOK'
    BY <2>1, <2>2, <2>3 DEF TypeOK, GoodBook
  <2>5. ASSUME NEW d \in Consumer, NEW i \in 1..Len(events'[d])
        PROVE  GoodBook(events'[d][i], current_slot)
    <3>1. CASE d = c
      <4>1. i + 1 \in 1..Len(events[c]) /\ events'[c][i] = events[c][i + 1]
        BY <2>1, <2>2, <2>5, <3>1 DEF TypeOK
      <4>2. QED
        BY <3>1, <4>1
    <3>2. CASE d # c
      BY <2>1, <2>5, <3>2 DEF TypeOK
    <3>3. QED
      BY <3>1, <3>2
  <2>6. \A d \in Consumer : GoodBook(copy'[d], current_slot)
    BY <2>1, <2>3 DEF TypeOK
  <2>7. \A d \in Consumer : pc[d] \in {"store", "move"} => SeenBy(copy'[d], query_slot[d])
    BY <2>1 DEF TypeOK
  <2>8. QED
    BY <2>1, <2>4, <2>5, <2>6, <2>7
<1>6. ASSUME NEW c \in Consumer, GetDlob(c) PROVE IInv'
  <2>1. TypeOK'
    BY <1>6 DEF GetDlob, TypeOK
  <2>2. QED
    BY <1>6, <2>1 DEF GetDlob, TypeOK
<1>7. ASSUME NEW c \in Consumer, NEW o \in Order, InsertOrder(c, o) PROVE IInv'
  <2>1. GoodBook(insert_order(copy[c], o, current_slot), current_slot)
    BY <1>7, GoodInsert DEF InsertOrder, TypeOK
  <2>2. copy' = [copy EXCEPT ![c] = insert_order(copy[c], o, current_slot)]
    BY <1>7 DEF InsertOrder
  <2>3. TypeOK'
    BY <1>7, <2>1, <2>2 DEF InsertOrder, TypeOK, GoodBook
  <2>4. QED
    BY <1>7, <2>1, <2>2, <2>3 DEF InsertOrder, TypeOK
<1>8. ASSUME NEW c \in Consumer, Query(c) PROVE IInv'
  <2>1. TypeOK'
    BY <1>8 DEF Query, TypeOK
  <2>2. \A d \in Consumer : query_slot'[d] <= current_slot'
    BY <1>8 DEF Query, TypeOK
  <2>3. \A d \in Consumer : pc'[d] \in {"store", "move"} => SeenBy(copy'[d], query_slot'[d])
    BY <1>8 DEF Query, TypeOK, GoodBook
  <2>4. QED
    BY <1>8, <2>1, <2>2, <2>3 DEF Query
<1>9. ASSUME NEW c \in Consumer, Store(c) PROVE IInv'
  <2>1. TypeOK'
    BY <1>9 DEF Store, TypeOK
  <2>2. QED
    BY <1>9, <2>1 DEF Store, TypeOK
<1>10. ASSUME NEW c \in Consumer, Move(c) PROVE IInv'
  <2>1. PICK rank \in Visits :
          copy' = [copy EXCEPT ![c] = update_resting_limit_orders(copy[c], query_slot[c], rank)]
    BY <1>10 DEF Move
  <2>2. GoodBook(update_resting_limit_orders(copy[c], query_slot[c], rank), current_slot)
    BY <1>10, GoodUpdate DEF Move, TypeOK
  <2>3. TypeOK'
    BY <1>10, <2>1, <2>2 DEF Move, TypeOK, GoodBook
  <2>4. \A d \in Consumer : GoodBook(copy'[d], current_slot)
    BY <2>1, <2>2 DEF TypeOK
  <2>5. \A d \in Consumer : pc'[d] \in {"store", "move"} => SeenBy(copy'[d], query_slot[d])
    BY <1>10, <2>1 DEF Move, TypeOK
  <2>6. QED
    BY <1>10, <2>3, <2>4, <2>5 DEF Move
<1>11. ASSUME NEW c \in Consumer, Return(c) PROVE IInv'
  <2>1. TypeOK'
    BY <1>11 DEF Return, TypeOK
  <2>2. \A d \in Consumer : query_slot'[d] <= current_slot'
    BY <1>11 DEF Return, TypeOK
  <2>3. \A d \in Consumer : pc'[d] \in {"store", "move"} => SeenBy(copy'[d], query_slot'[d])
    BY <1>11 DEF Return, TypeOK
  <2>4. QED
    BY <1>11, <2>1, <2>2, <2>3 DEF Return
<1>12. CASE UNCHANGED vars
  BY <1>12 DEF vars, TypeOK
<1>13. QED
  BY <1>1, <1>2, <1>3, <1>4, <1>5, <1>6, <1>7, <1>8, <1>9, <1>10, <1>11, <1>12 DEF Next

LEMMA Invariance == Spec => []IInv
BY InitIInv, NextIInv, PTL DEF Spec

(* What each book promises, from its part of the invariant.                  *)
LEMMA BookPromises ==
  ASSUME NEW b \in Book, BookInv(b)
  PROVE  BookFiled(b) /\ BookTakingOwn(b) /\ BookTypesApart(b)
<1>1. BookFiled(b)
  <2> SUFFICES ASSUME NEW o \in b.orders
               PROVE  FiledAt(b, o) = {<<PlaceOf(b, o), sub_type(OrderOf[o])>>}
    BY DEF BookFiled, PlaceOf
  <2>1. OrderOf[o].market \in Market /\ PlaceOf(b, o) \in NodeType
        /\ sub_type(OrderOf[o]) \in Side
    BY OrderAssumption, PlaceType DEF Book, OrderRecord, PlaceOf
  <2>2. <<PlaceOf(b, o), sub_type(OrderOf[o])>> \in FiledAt(b, o)
    BY <2>1 DEF BookInv, OrdersHeld, FiledAt
  <2>3. ASSUME NEW p \in FiledAt(b, o)
        PROVE  p = <<PlaceOf(b, o), sub_type(OrderOf[o])>>
    BY <2>1, <2>3 DEF BookInv, NodesPlaced, FiledAt
  <2>4. QED
    BY <2>2, <2>3
<1>2. BookTakingOwn(b)
  BY DEF BookTakingOwn, BookInv, TakingIndexOwn, get_best_orders
<1>3. BookTypesApart(b)
  BY DEF BookTypesApart, BookInv, NodesPlaced
<1>4. QED
  BY <1>1, <1>2, <1>3

(* get_order finds an order through the index of the list it is filed on.    *)
LEMMA BookLookup ==
  ASSUME NEW b \in Book, BookInv(b), NEW o \in Order
  PROVE  get_order(b, o) <=> o \in b.orders
<1>1. get_order(b, o) => o \in b.orders
  BY DEF get_order, BookInv, IndexExact, Book
<1>2. ASSUME o \in b.orders PROVE get_order(b, o)
  <2>1. PlaceOf(b, o) \in NodeType
    BY PlaceType DEF PlaceOf
  <2>2. OrderOf[o].market \in b.markets /\ o \in b.order_sigs[OrderOf[o].market][PlaceOf(b, o)]
    BY <1>2 DEF BookInv, IndexExact
  <2>3. QED
    BY <2>1, <2>2 DEF get_order
<1>3. QED
  BY <1>1, <1>2

LEMMA LiveBooksGood == IInv => \A b \in LiveBooks : b \in Book /\ BookInv(b)
<1> SUFFICES ASSUME IInv, NEW b \in LiveBooks PROVE GoodBook(b, current_slot)
  BY DEF GoodBook
<1>1. CASE b = dlob \/ \E c \in Consumer : b = copy[c]
  BY <1>1 DEF IInv
<1>2. CASE \E c \in Consumer : \E i \in DOMAIN events[c] : b = events[c][i]
  <2>1. PICK c \in Consumer : \E i \in DOMAIN events[c] : b = events[c][i]
    BY <1>2
  <2>2. DOMAIN events[c] = 1..Len(events[c])
    BY DEF IInv, TypeOK
  <2>3. QED
    BY <2>1, <2>2 DEF IInv
<1>3. QED
  BY <1>1, <1>2 DEF LiveBooks

(* Type correctness of the book and of the builder and consumers around it.  *)
THEOREM TypeCorrect == Spec => []TypeOK
<1>1. IInv => TypeOK
  BY DEF IInv
<1>2. QED
  BY Invariance, <1>1, PTL

(* In every book alive (the builder's, the clones queued and the clones in   *)
(* use), every order is in exactly one heap of its own market, the one       *)
(* get_node_subtype_and_type names, for any number of markets and orders,    *)
(* any visiting order and any interleaving of builder and consumers.         *)
THEOREM FiledOnce == Spec => []EveryOrderFiledOnce
<1>1. IInv => EveryOrderFiledOnce
  BY LiveBooksGood, BookPromises DEF EveryOrderFiledOnce
<1>2. QED
  BY Invariance, <1>1, PTL

(* A taking query of a market never returns an order of another market,      *)
(* although the heaps it pops hold such orders.                              *)
THEOREM TakingOwn == Spec => []TakingAnswersOwnMarket
<1>1. IInv => TakingAnswersOwnMarket
  BY LiveBooksGood, BookPromises DEF TakingAnswersOwnMarket
<1>2. QED
  BY Invariance, <1>1, PTL

(* Orders never cross from perp to spot lists or back.                       *)
THEOREM TypesApart == Spec => []MarketTypesApart
<1>1. IInv => MarketTypesApart
  BY LiveBooksGood, BookPromises DEF MarketTypesApart
<1>2. QED
  BY Invariance, <1>1, PTL

(* get_order, which looks through the indexes only, finds exactly the orders *)
(* of the book, however often a sweep has moved them between lists.          *)
THEOREM Lookup == Spec => []LookupExact
<1>1. IInv => LookupExact
  BY LiveBooksGood, BookLookup DEF LookupExact
<1>2. QED
  BY Invariance, <1>1, PTL
=============================================================================
