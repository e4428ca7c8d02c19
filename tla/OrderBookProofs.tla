--------------------------- MODULE OrderBookProofs ---------------------------
(***************************************************************************)
(* What every book satisfies, for any set of markets and orders: where its  *)
(* nodes may be (NodesPlaced), that every order has one where it belongs    *)
(* (OrdersHeld), and that its indexes name its orders (TakingIndexOwn,      *)
(* IndexExact).  An empty book has it, and insert_order and                 *)
(* update_resting_limit_orders keep it.                                     *)
(***************************************************************************)
EXTENDS OrderBook, TLAPS

(* Where a book files an order it last looked at at slot b.seen[o].          *)
PlaceOf(b, o) == node_type(OrderOf[o], b.seen[o])

(* A node is on its order's side of its order's list, in a market of its     *)
(* order's type, which is its order's own but for taking orders and for      *)
(* resting ones that took.  It keeps the type it was created with.           *)
NodesPlaced(b) ==
  \A m \in Market, l \in NodeType, s \in Side :
    \A n \in b.heap[m][l][s] :
      /\ n.sig \in b.orders
      /\ m \in b.markets
      /\ s = sub_type(OrderOf[n.sig])
      /\ SameMarketType(OrderOf[n.sig].market, m)
      /\ PlaceOf(b, n.sig) = l
      /\ OrderOf[n.sig].market = m \/ l \in {"TakingLimit", "RestingLimit"}
      /\ n.node_type = l \/ (l = "RestingLimit" /\ n.node_type = "TakingLimit")

OrdersHeld(b) ==
  \A o \in b.orders :
    \E n \in b.heap[OrderOf[o].market][PlaceOf(b, o)][sub_type(OrderOf[o])] : n.sig = o

TakingIndexOwn(b) ==
  \A m \in Market : \A o \in b.order_sigs[m]["TakingLimit"] : OrderOf[o].market = m

(* The indexes name orders of the book only, and the list an order is filed  *)
(* on names it.                                                              *)
IndexExact(b) ==
  /\ \A m \in Market, l \in NodeType : b.order_sigs[m][l] \subseteq b.orders
  /\ \A o \in b.orders :
       /\ OrderOf[o].market \in b.markets
       /\ o \in b.order_sigs[OrderOf[o].market][PlaceOf(b, o)]

BookInv(b) == NodesPlaced(b) /\ OrdersHeld(b) /\ TakingIndexOwn(b) /\ IndexExact(b)

(* No order of the book was filed later than slot.                           *)
SeenBy(b, slot) == \A o \in b.orders : b.seen[o] <= slot

-----------------------------------------------------------------------------
(* Resting is for ever: an auction that has ended stays ended.               *)
LEMMA PlaceLater ==
  ASSUME NEW order \in OrderRecord, NEW s \in Nat, NEW t \in Nat, s <= t
  PROVE  /\ node_type(order, s) = "TakingLimit" =>
              node_type(order, t) = IF is_resting_limit_order(order, t)
                                    THEN "RestingLimit" ELSE "TakingLimit"
         /\ node_type(order, s) # "TakingLimit" => node_type(order, t) = node_type(order, s)
<1>1. is_resting_limit_order(order, s) => is_resting_limit_order(order, t)
  BY DEF is_resting_limit_order, is_auction_complete, OrderRecord
<1>2. QED
  BY <1>1 DEF node_type

LEMMA PlaceType ==
  ASSUME NEW order, NEW s
  PROVE  node_type(order, s) \in NodeType /\ sub_type(order) \in Side
BY DEF node_type, sub_type, NodeType, Side

(* An empty book satisfies the invariant.                                    *)
LEMMA EmptyBookInv == EmptyBook \in Book /\ BookInv(EmptyBook) /\ EmptyBook.orders = {}
<1>1. EmptyBook \in Book
  BY DEF EmptyBook, Book
<1>2. /\ EmptyBook.orders = {}
      /\ \A m \in Market, l \in NodeType, s \in Side : EmptyBook.heap[m][l][s] = {}
      /\ \A m \in Market, l \in NodeType : EmptyBook.order_sigs[m][l] = {}
  BY DEF EmptyBook
<1>3. BookInv(EmptyBook)
  BY <1>2 DEF BookInv, NodesPlaced, OrdersHeld, TakingIndexOwn, IndexExact, NodeType
<1>4. QED
  BY <1>1, <1>2, <1>3

LEMMA InsertType ==
  ASSUME NEW b \in Book, NEW o \in Order, NEW slot \in Nat
  PROVE  insert_order(b, o, slot) \in Book
<1> DEFINE m == OrderOf[o].market
           l == node_type(OrderOf[o], slot)
           s == sub_type(OrderOf[o])
           node == [sig |-> o, node_type |-> l]
<1>1. m \in Market /\ l \in NodeType /\ s \in Side
  BY OrderAssumption, PlaceType DEF OrderRecord
<1>2. node \in Node
  BY <1>1 DEF Node
<1>3. push(b.heap[m][l][s], {node}) \in SUBSET Node
  BY <1>1, <1>2 DEF push, Book
<1> HIDE DEF m, l, s, node
<1>4. [b.heap EXCEPT ![m][l][s] = push(@, {node})]
        \in [Market -> [NodeType -> [Side -> SUBSET Node]]]
  BY <1>1, <1>3 DEF Book
<1>5. [b.order_sigs EXCEPT ![m][l] = @ \cup {o}] \in [Market -> [NodeType -> SUBSET Order]]
  BY <1>1 DEF Book
<1>6. QED
  BY <1>1, <1>4, <1>5 DEF insert_order, Book, m, l, s, node

(* insert_order files an order the book does not hold where it belongs and   *)
(* leaves every other node alone.                                            *)
LEMMA InsertInv ==
  ASSUME NEW b \in Book, NEW o \in Order, NEW slot \in Nat,
         BookInv(b), o \notin b.orders
  PROVE  BookInv(insert_order(b, o, slot))
<1> DEFINE c == insert_order(b, o, slot)
           m == OrderOf[o].market
           l == node_type(OrderOf[o], slot)
           s == sub_type(OrderOf[o])
           node == [sig |-> o, node_type |-> l]
<1>1. m \in Market /\ l \in NodeType /\ s \in Side
  BY OrderAssumption, PlaceType DEF OrderRecord
<1>2. c.markets = b.markets \cup {m} /\ c.orders = b.orders \cup {o}
  BY DEF insert_order
<1>3. c.seen = [b.seen EXCEPT ![o] = slot]
  BY DEF insert_order
<1>4. c.heap = [b.heap EXCEPT ![m][l][s] = push(@, {node})]
  BY DEF insert_order
<1>5. c.order_sigs = [b.order_sigs EXCEPT ![m][l] = @ \cup {o}]
  BY DEF insert_order
<1>6. node.sig = o /\ node.node_type = l
  OBVIOUS
<1> HIDE DEF c, m, l, s, node
<1>7. PlaceOf(c, o) = l /\ \A x \in b.orders : PlaceOf(c, x) = PlaceOf(b, x)
  BY <1>3 DEF PlaceOf, Book, l
<1>8. \A x \in Market, y \in NodeType, z \in Side :
        c.heap[x][y][z] = IF x = m /\ y = l /\ z = s THEN push(b.heap[m][l][s], {node})
                                                     ELSE b.heap[x][y][z]
  BY <1>1, <1>4 DEF Book
<1>9. push(b.heap[m][l][s], {node}) = b.heap[m][l][s] \cup {node}
  BY <1>1, <1>6 DEF BookInv, NodesPlaced, push
<1>10. NodesPlaced(c)
  <2> SUFFICES ASSUME NEW x \in Market, NEW y \in NodeType, NEW z \in Side,
                      NEW n \in c.heap[x][y][z]
               PROVE  /\ n.sig \in c.orders
                      /\ x \in c.markets
                      /\ z = sub_type(OrderOf[n.sig])
                      /\ SameMarketType(OrderOf[n.sig].market, x)
                      /\ PlaceOf(c, n.sig) = y
                      /\ OrderOf[n.sig].market = x \/ y \in {"TakingLimit", "RestingLimit"}
                      /\ n.node_type = y \/ (y = "RestingLimit" /\ n.node_type = "TakingLimit")
    BY DEF NodesPlaced
  <2>1. CASE n \in b.heap[x][y][z]
    BY <2>1, <1>2, <1>7 DEF BookInv, NodesPlaced
  <2>2. CASE n \notin b.heap[x][y][z]
    <3>1. x = m /\ y = l /\ z = s /\ n = node
      BY <2>2, <1>8, <1>9
    <3>2. QED
      BY <3>1, <1>2, <1>6, <1>7 DEF SameMarketType, m, s
  <2>3. QED
    BY <2>1, <2>2
<1>11. OrdersHeld(c)
  <2> SUFFICES ASSUME NEW x \in c.orders
               PROVE  \E n \in c.heap[OrderOf[x].market][PlaceOf(c, x)][sub_type(OrderOf[x])] :
                        n.sig = x
    BY DEF OrdersHeld
  <2>1. CASE x = o
    <3>1. OrderOf[x].market = m /\ PlaceOf(c, x) = l /\ sub_type(OrderOf[x]) = s
      BY <2>1, <1>7 DEF m, s
    <3>2. node \in c.heap[m][l][s]
      BY <1>1, <1>8, <1>9
    <3>3. QED
      BY <3>1, <3>2, <1>6, <2>1
  <2>2. CASE x # o
    <3>1. x \in b.orders
      BY <2>2, <1>2
    <3>2. OrderOf[x].market \in Market /\ PlaceOf(b, x) \in NodeType
          /\ sub_type(OrderOf[x]) \in Side
      BY <3>1, OrderAssumption, PlaceType DEF Book, OrderRecord, PlaceOf
    <3>3. b.heap[OrderOf[x].market][PlaceOf(b, x)][sub_type(OrderOf[x])]
            \subseteq c.heap[OrderOf[x].market][PlaceOf(b, x)][sub_type(OrderOf[x])]
      BY <3>2, <1>8, <1>9
    <3>4. QED
      BY <3>1, <3>3, <1>7 DEF BookInv, OrdersHeld
  <2>3. QED
    BY <2>1, <2>2
<1>12. TakingIndexOwn(c)
  <2>1. ASSUME NEW x \in Market
        PROVE  c.order_sigs[x]["TakingLimit"] \subseteq
                 b.order_sigs[x]["TakingLimit"] \cup (IF x = m THEN {o} ELSE {})
    BY <1>1, <1>5 DEF Book, NodeType
  <2>2. QED
    BY <2>1 DEF BookInv, TakingIndexOwn, m
<1>13. IndexExact(c)
  <2>1. ASSUME NEW x \in Market, NEW y \in NodeType
        PROVE  c.order_sigs[x][y] = b.order_sigs[x][y] \cup (IF x = m /\ y = l THEN {o} ELSE {})
    BY <1>1, <1>5 DEF Book
  <2>2. \A x \in Market, y \in NodeType : c.order_sigs[x][y] \subseteq c.orders
    BY <2>1, <1>2 DEF BookInv, IndexExact
  <2>3. ASSUME NEW x \in c.orders
        PROVE  /\ OrderOf[x].market \in c.markets
               /\ x \in c.order_sigs[OrderOf[x].market][PlaceOf(c, x)]
    <3>1. CASE x = o
      <4>1. OrderOf[x].market = m /\ PlaceOf(c, x) = l
        BY <3>1, <1>7 DEF m
      <4>2. QED
        BY <3>1, <4>1, <2>1, <1>1, <1>2
    <3>2. CASE x # o
      <4>1. x \in b.orders
        BY <3>2, <1>2
      <4>2. OrderOf[x].market \in Market /\ PlaceOf(b, x) \in NodeType
        BY <4>1, OrderAssumption, PlaceType DEF Book, OrderRecord, PlaceOf
      <4>3. /\ OrderOf[x].market \in b.markets
            /\ x \in b.order_sigs[OrderOf[x].market][PlaceOf(b, x)]
        BY <4>1 DEF BookInv, IndexExact
      <4>4. QED
        BY <4>1, <4>2, <4>3, <2>1, <1>2, <1>7
    <3>3. QED
      BY <3>1, <3>2
  <2>4. QED
    BY <2>2, <2>3 DEF IndexExact
<1>14. QED
  BY <1>10, <1>11, <1>12, <1>13 DEF BookInv, c

-----------------------------------------------------------------------------
(* The sweep of the taking lists, whatever the order of the markets.         *)
LEMMA UpdateFields ==
  ASSUME NEW b \in Book, NEW slot \in Nat, NEW rank \in Visits
  PROVE  LET c == update_resting_limit_orders(b, slot, rank)
         IN /\ c.markets = b.markets
            /\ c.orders = b.orders
            /\ \A o \in Order : c.seen[o] = IF o \in b.orders THEN slot ELSE b.seen[o]
            /\ \A m \in Market, s \in Side :
                 c.heap[m]["TakingLimit"][s] =
                   IF m \in b.markets THEN new_taking(b, slot, rank, m, s)
                                      ELSE b.heap[m]["TakingLimit"][s]
            /\ \A m \in Market, s \in Side :
                 c.heap[m]["RestingLimit"][s] =
                   IF m \in b.markets
                   THEN push(b.heap[m]["RestingLimit"][s], resting_nodes(b, slot, m, s))
                   ELSE b.heap[m]["RestingLimit"][s]
            /\ \A m \in Market, l \in NodeType \ {"TakingLimit", "RestingLimit"} :
                 c.heap[m][l] = b.heap[m][l]
            /\ \A m \in Market :
                 c.order_sigs[m]["TakingLimit"] = b.order_sigs[m]["TakingLimit"]
<1> DEFINE c == update_resting_limit_orders(b, slot, rank)
<1>1. /\ c.markets = b.markets
      /\ c.orders = b.orders
      /\ \A o \in Order : c.seen[o] = IF o \in b.orders THEN slot ELSE b.seen[o]
  BY DEF update_resting_limit_orders
<1>2. \A m \in Market : c.heap[m] = IF m \in b.markets THEN new_heap(b, slot, rank, m)
                                                       ELSE b.heap[m]
  BY DEF update_resting_limit_orders
<1>3. \A m \in Market :
        c.order_sigs[m] = IF m \in b.markets THEN new_order_sigs(b, slot, m)
                                             ELSE b.order_sigs[m]
  BY DEF update_resting_limit_orders
<1>4. \A m \in Market :
        /\ \A s \in Side :
             /\ new_heap(b, slot, rank, m)["TakingLimit"][s] = new_taking(b, slot, rank, m, s)
             /\ new_heap(b, slot, rank, m)["RestingLimit"][s] =
                  push(b.heap[m]["RestingLimit"][s], resting_nodes(b, slot, m, s))
        /\ \A l \in NodeType \ {"TakingLimit", "RestingLimit"} :
             new_heap(b, slot, rank, m)[l] = b.heap[m][l]
  BY DEF new_heap, Book, NodeType
<1>5. \A m \in Market :
        new_order_sigs(b, slot, m)["TakingLimit"] = b.order_sigs[m]["TakingLimit"]
  BY DEF new_order_sigs, Book, NodeType
<1> HIDE DEF c
<1>6. \A m \in Market, s \in Side :
        /\ c.heap[m]["TakingLimit"][s] =
             IF m \in b.markets THEN new_taking(b, slot, rank, m, s)
                                ELSE b.heap[m]["TakingLimit"][s]
        /\ c.heap[m]["RestingLimit"][s] =
             IF m \in b.markets
             THEN push(b.heap[m]["RestingLimit"][s], resting_nodes(b, slot, m, s))
             ELSE b.heap[m]["RestingLimit"][s]
  <2> SUFFICES ASSUME NEW m \in Market, NEW s \in Side
               PROVE  /\ c.heap[m]["TakingLimit"][s] =
                           IF m \in b.markets THEN new_taking(b, slot, rank, m, s)
                                              ELSE b.heap[m]["TakingLimit"][s]
                      /\ c.heap[m]["RestingLimit"][s] =
                           IF m \in b.markets
                           THEN push(b.heap[m]["RestingLimit"][s], resting_nodes(b, slot, m, s))
                           ELSE b.heap[m]["RestingLimit"][s]
    OBVIOUS
  <2>1. CASE m \in b.markets
    <3>1. c.heap[m] = new_heap(b, slot, rank, m)
      BY <1>2, <2>1
    <3>2. c.heap[m]["TakingLimit"][s] = new_taking(b, slot, rank, m, s)
      BY <1>4, <3>1
    <3>3. c.heap[m]["RestingLimit"][s] =
            push(b.heap[m]["RestingLimit"][s], resting_nodes(b, slot, m, s))
      BY <1>4, <3>1
    <3>4. QED
      BY <2>1, <3>2, <3>3
  <2>2. CASE m \notin b.markets
    BY <1>2, <2>2
  <2>3. QED
    BY <2>1, <2>2
<1>7. \A m \in Market, l \in NodeType \ {"TakingLimit", "RestingLimit"} :
        c.heap[m][l] = b.heap[m][l]
  BY <1>2, <1>4
<1>8. \A m \in Market : c.order_sigs[m]["TakingLimit"] = b.order_sigs[m]["TakingLimit"]
  BY <1>3, <1>5
<1>9. QED
  BY <1>1, <1>6, <1>7, <1>8 DEF c

LEMMA UpdateType ==
  ASSUME NEW b \in Book, NEW slot \in Nat, NEW rank \in Visits
  PROVE  update_resting_limit_orders(b, slot, rank) \in Book
<1>1. \A m \in Market, s \in Side :
        /\ resting_nodes(b, slot, m, s) \subseteq Node
        /\ new_taking(b, slot, rank, m, s) \subseteq Node
        /\ push(b.heap[m]["RestingLimit"][s], resting_nodes(b, slot, m, s)) \subseteq Node
  BY DEF resting_nodes, new_taking, push, Book, NodeType
<1>2. \A m \in Market : new_heap(b, slot, rank, m) \in [NodeType -> [Side -> SUBSET Node]]
  BY <1>1 DEF new_heap, Book
<1>3. \A m \in Market : new_order_sigs(b, slot, m) \in [NodeType -> SUBSET Order]
  <2> SUFFICES ASSUME NEW m \in Market
               PROVE  new_order_sigs(b, slot, m) \in [NodeType -> SUBSET Order]
    OBVIOUS
  <2>1. \A n \in resting_nodes(b, slot, m, "bids") \cup resting_nodes(b, slot, m, "asks") :
          n.sig \in Order
    <3>1. resting_nodes(b, slot, m, "bids") \cup resting_nodes(b, slot, m, "asks") \subseteq Node
      BY <1>1 DEF Side
    <3>2. QED
      BY <3>1 DEF Node
  <2> DEFINE bid_sigs == {n.sig : n \in resting_nodes(b, slot, m, "bids")}
             ask_sigs == {n.sig : n \in resting_nodes(b, slot, m, "asks")}
  <2>2. bid_sigs \subseteq Order /\ ask_sigs \subseteq Order
    BY <2>1
  <2>3. new_order_sigs(b, slot, m) =
          [b.order_sigs[m] EXCEPT !["RestingLimit"] = @ \cup bid_sigs \cup ask_sigs]
    BY DEF new_order_sigs
  <2> HIDE DEF bid_sigs, ask_sigs
  <2>4. b.order_sigs[m] \in [NodeType -> SUBSET Order]
    BY DEF Book
  <2>5. b.order_sigs[m]["RestingLimit"] \cup bid_sigs \cup ask_sigs \in SUBSET Order
    BY <2>2, <2>4 DEF NodeType
  <2>6. QED
    BY <2>3, <2>4, <2>5
<1>4. QED
  BY <1>2, <1>3 DEF update_resting_limit_orders, Book

(* The sweep adds to the index of each resting list the orders it moves      *)
(* there and takes nothing out of any index.                                 *)
LEMMA UpdateIndex ==
  ASSUME NEW b \in Book, NEW slot \in Nat, NEW rank \in Visits,
         NEW m \in Market, NEW l \in NodeType
  PROVE  LET c == update_resting_limit_orders(b, slot, rank)
         IN /\ b.order_sigs[m][l] \subseteq c.order_sigs[m][l]
            /\ \A o \in c.order_sigs[m][l] \ b.order_sigs[m][l] :
                 \E s \in Side : \E n \in resting_nodes(b, slot, m, s) : n.sig = o
            /\ m \in b.markets =>
                 \A s \in Side : \A n \in resting_nodes(b, slot, m, s) :
                   n.sig \in c.order_sigs[m]["RestingLimit"]
<1> DEFINE c == update_resting_limit_orders(b, slot, rank)
           moved(s) == {n.sig : n \in resting_nodes(b, slot, m, s)}
<1>1. c.order_sigs[m] = IF m \in b.markets THEN new_order_sigs(b, slot, m)
                                            ELSE b.order_sigs[m]
  BY DEF update_resting_limit_orders
<1>2. new_order_sigs(b, slot, m) =
        [b.order_sigs[m] EXCEPT !["RestingLimit"] = @ \cup moved("bids") \cup moved("asks")]
  BY DEF new_order_sigs
<1>3. \A s \in Side : \A o : o \in moved(s) <=> \E n \in resting_nodes(b, slot, m, s) : n.sig = o
  OBVIOUS
<1>4. b.order_sigs[m] \in [NodeType -> SUBSET Order]
  BY DEF Book
<1> HIDE DEF c, moved
<1>5. new_order_sigs(b, slot, m)[l] =
        IF l = "RestingLimit" THEN b.order_sigs[m][l] \cup moved("bids") \cup moved("asks")
                              ELSE b.order_sigs[m][l]
  BY <1>2, <1>4
<1>6. new_order_sigs(b, slot, m)["RestingLimit"] =
        b.order_sigs[m]["RestingLimit"] \cup moved("bids") \cup moved("asks")
  BY <1>2, <1>4 DEF NodeType
<1>7. b.order_sigs[m][l] \subseteq c.order_sigs[m][l]
  BY <1>1, <1>5
<1>8. \A o \in c.order_sigs[m][l] \ b.order_sigs[m][l] : o \in moved("bids") \cup moved("asks")
  BY <1>1, <1>5
<1>9. m \in b.markets => moved("bids") \cup moved("asks") \subseteq c.order_sigs[m]["RestingLimit"]
  BY <1>1, <1>6
<1>10. QED
  BY <1>3, <1>7, <1>8, <1>9 DEF c, Side

(* The sweep keeps every order filed once, although it spreads the nodes of  *)
(* taking orders over the markets visited after theirs.                      *)
LEMMA UpdateInv ==
  ASSUME NEW b \in Book, NEW slot \in Nat, NEW rank \in Visits,
         BookInv(b), SeenBy(b, slot)
  PROVE  BookInv(update_resting_limit_orders(b, slot, rank))
<1> DEFINE c == update_resting_limit_orders(b, slot, rank)
           Rests(o) == is_resting_limit_order(OrderOf[o], slot)
<1>1. /\ c.markets = b.markets
      /\ c.orders = b.orders
      /\ \A o \in Order : c.seen[o] = IF o \in b.orders THEN slot ELSE b.seen[o]
      /\ \A m \in Market, s \in Side :
           c.heap[m]["TakingLimit"][s] =
             IF m \in b.markets THEN new_taking(b, slot, rank, m, s)
                                ELSE b.heap[m]["TakingLimit"][s]
      /\ \A m \in Market, s \in Side :
           c.heap[m]["RestingLimit"][s] =
             IF m \in b.markets
             THEN push(b.heap[m]["RestingLimit"][s], resting_nodes(b, slot, m, s))
             ELSE b.heap[m]["RestingLimit"][s]
      /\ \A m \in Market, l \in NodeType \ {"TakingLimit", "RestingLimit"} :
           c.heap[m][l] = b.heap[m][l]
      /\ \A m \in Market :
           c.order_sigs[m]["TakingLimit"] = b.order_sigs[m]["TakingLimit"]
  BY UpdateFields
<1> HIDE DEF c
<1>2. \A o \in b.orders :
        /\ PlaceOf(b, o) = "TakingLimit" =>
             PlaceOf(c, o) = IF Rests(o) THEN "RestingLimit" ELSE "TakingLimit"
        /\ PlaceOf(b, o) # "TakingLimit" => PlaceOf(c, o) = PlaceOf(b, o)
  <2> SUFFICES ASSUME NEW o \in b.orders
               PROVE  /\ PlaceOf(b, o) = "TakingLimit" =>
                           PlaceOf(c, o) = IF Rests(o) THEN "RestingLimit" ELSE "TakingLimit"
                      /\ PlaceOf(b, o) # "TakingLimit" => PlaceOf(c, o) = PlaceOf(b, o)
    OBVIOUS
  <2>1. o \in Order /\ b.seen[o] \in Nat /\ b.seen[o] <= slot /\ OrderOf[o] \in OrderRecord
    BY OrderAssumption DEF Book, SeenBy
  <2>2. c.seen[o] = slot
    BY <2>1, <1>1
  <2>3. QED
    BY <2>1, <2>2, PlaceLater DEF PlaceOf
<1>3. \A m \in Market, l \in NodeType, s \in Side : \A n \in b.heap[m][l][s] :
        /\ n.sig \in b.orders
        /\ m \in b.markets
        /\ s = sub_type(OrderOf[n.sig])
        /\ SameMarketType(OrderOf[n.sig].market, m)
        /\ PlaceOf(b, n.sig) = l
        /\ OrderOf[n.sig].market = m \/ l \in {"TakingLimit", "RestingLimit"}
        /\ n.node_type = l \/ (l = "RestingLimit" /\ n.node_type = "TakingLimit")
  BY DEF BookInv, NodesPlaced
<1>4. ASSUME NEW m \in Market, NEW s \in Side, NEW n \in c.heap[m]["TakingLimit"][s]
      PROVE  \E k \in Market : /\ SameMarketType(k, m)
                               /\ m \in b.markets
                               /\ n \in b.heap[k]["TakingLimit"][s]
                               /\ ~Rests(n.sig)
  <2>1. m \in b.markets
    BY <1>1, <1>3, <1>4 DEF NodeType
  <2>2. n \in new_taking(b, slot, rank, m, s)
    BY <1>1, <1>4, <2>1
  <2>3. PICK k \in b.markets : /\ SameMarketType(k, m)
                               /\ n \in b.heap[k]["TakingLimit"][s] \ resting_nodes(b, slot, k, s)
    BY <2>2 DEF new_taking
  <2>4. k \in Market
    BY DEF Book
  <2>5. QED
    BY <2>1, <2>3, <2>4 DEF resting_nodes
<1>5. ASSUME NEW m \in Market, NEW s \in Side, NEW n \in c.heap[m]["RestingLimit"][s]
      PROVE  \/ n \in b.heap[m]["RestingLimit"][s]
             \/ n \in b.heap[m]["TakingLimit"][s] /\ Rests(n.sig)
  <2>1. CASE m \in b.markets
    <3>1. n \in push(b.heap[m]["RestingLimit"][s], resting_nodes(b, slot, m, s))
      BY <1>1, <1>5, <2>1
    <3>2. QED
      BY <3>1 DEF push, resting_nodes
  <2>2. CASE m \notin b.markets
    BY <1>1, <1>5, <2>2
  <2>3. QED
    BY <2>1, <2>2
<1>6. NodesPlaced(c)
  <2> SUFFICES ASSUME NEW m \in Market, NEW l \in NodeType, NEW s \in Side,
                      NEW n \in c.heap[m][l][s]
               PROVE  /\ n.sig \in c.orders
                      /\ m \in c.markets
                      /\ s = sub_type(OrderOf[n.sig])
                      /\ SameMarketType(OrderOf[n.sig].market, m)
                      /\ PlaceOf(c, n.sig) = l
                      /\ OrderOf[n.sig].market = m \/ l \in {"TakingLimit", "RestingLimit"}
                      /\ n.node_type = l \/ (l = "RestingLimit" /\ n.node_type = "TakingLimit")
    BY DEF NodesPlaced
  <2>1. CASE l = "TakingLimit"
    <3>1. PICK k \in Market : /\ SameMarketType(k, m)
                              /\ m \in b.markets
                              /\ n \in b.heap[k]["TakingLimit"][s]
                              /\ ~Rests(n.sig)
      BY <1>4, <2>1
    <3>2. /\ n.sig \in b.orders
          /\ s = sub_type(OrderOf[n.sig])
          /\ SameMarketType(OrderOf[n.sig].market, k)
          /\ PlaceOf(b, n.sig) = "TakingLimit" /\ n.node_type = "TakingLimit"
      BY <1>3, <3>1 DEF NodeType
    <3>3. PlaceOf(c, n.sig) = "TakingLimit"
      BY <1>2, <3>1, <3>2
    <3>4. QED
      BY <1>1, <2>1, <3>1, <3>2, <3>3 DEF SameMarketType
  <2>2. CASE l = "RestingLimit"
    <3>1. CASE n \in b.heap[m]["RestingLimit"][s]
      BY <1>1, <1>2, <1>3, <2>2, <3>1
    <3>2. CASE n \in b.heap[m]["TakingLimit"][s] /\ Rests(n.sig)
      <4>1. /\ n.sig \in b.orders
            /\ m \in b.markets
            /\ s = sub_type(OrderOf[n.sig])
            /\ SameMarketType(OrderOf[n.sig].market, m)
            /\ PlaceOf(b, n.sig) = "TakingLimit" /\ n.node_type = "TakingLimit"
        BY <1>3, <3>2 DEF NodeType
      <4>2. PlaceOf(c, n.sig) = "RestingLimit"
        BY <1>2, <3>2, <4>1
      <4>3. QED
        BY <1>1, <2>2, <4>1, <4>2
    <3>3. QED
      BY <1>5, <2>2, <3>1, <3>2
  <2>3. CASE l \notin {"TakingLimit", "RestingLimit"}
    <3>1. n \in b.heap[m][l][s]
      BY <1>1, <2>3
    <3>2. QED
      BY <1>1, <1>2, <1>3, <2>3, <3>1
  <2>4. QED
    BY <2>1, <2>2, <2>3
<1>7. OrdersHeld(c)
  <2> SUFFICES ASSUME NEW o \in b.orders
               PROVE  \E n \in c.heap[OrderOf[o].market][PlaceOf(c, o)][sub_type(OrderOf[o])] :
                        n.sig = o
    BY <1>1 DEF OrdersHeld
  <2> DEFINE m == OrderOf[o].market
             s == sub_type(OrderOf[o])
  <2>1. o \in Order /\ m \in Market /\ s \in Side /\ PlaceOf(b, o) \in NodeType
    BY OrderAssumption, PlaceType DEF Book, OrderRecord, PlaceOf
  <2>2. PICK n \in b.heap[m][PlaceOf(b, o)][s] : n.sig = o
    BY DEF BookInv, OrdersHeld
  <2>3. m \in b.markets
    BY <1>3, <2>1, <2>2
  <2> HIDE DEF m, s
  <2>4. CASE PlaceOf(b, o) = "TakingLimit" /\ Rests(o)
    <3>1. n \in resting_nodes(b, slot, m, s)
      BY <2>2, <2>4 DEF resting_nodes
    <3>2. n \in c.heap[m]["RestingLimit"][s]
      BY <1>1, <2>1, <2>3, <3>1 DEF push
    <3>3. PlaceOf(c, o) = "RestingLimit"
      BY <1>2, <2>4
    <3>4. QED
      BY <2>2, <3>2, <3>3 DEF m, s
  <2>5. CASE PlaceOf(b, o) = "TakingLimit" /\ ~Rests(o)
    <3>1. n \in b.heap[m]["TakingLimit"][s] \ resting_nodes(b, slot, m, s)
      BY <2>2, <2>5 DEF resting_nodes
    <3>2. m \in {k \in b.markets : SameMarketType(k, m) /\ rank[k] <= rank[m]}
      <4>1. rank[m] \in 1..Cardinality(Market)
        BY <2>1 DEF Visits
      <4>2. QED
        BY <2>3, <4>1 DEF SameMarketType
    <3>3. n \in new_taking(b, slot, rank, m, s)
      BY <3>1, <3>2 DEF new_taking
    <3>4. n \in c.heap[m]["TakingLimit"][s]
      BY <1>1, <2>1, <2>3, <3>3
    <3>5. PlaceOf(c, o) = "TakingLimit"
      BY <1>2, <2>5
    <3>6. QED
      BY <2>2, <3>4, <3>5 DEF m, s
  <2>6. CASE PlaceOf(b, o) = "RestingLimit"
    <3>1. PlaceOf(c, o) = "RestingLimit"
      BY <1>2, <2>6
    <3>2. \E x \in push(b.heap[m]["RestingLimit"][s], resting_nodes(b, slot, m, s)) : x.sig = o
      BY <2>2, <2>6 DEF push
    <3>3. QED
      BY <1>1, <2>1, <2>3, <3>1, <3>2 DEF m, s
  <2>7. CASE PlaceOf(b, o) \notin {"TakingLimit", "RestingLimit"}
    <3>1. PlaceOf(c, o) = PlaceOf(b, o)
      BY <1>2, <2>7
    <3>2. c.heap[m][PlaceOf(b, o)] = b.heap[m][PlaceOf(b, o)]
      BY <1>1, <2>1, <2>7
    <3>3. QED
      BY <2>2, <3>1, <3>2 DEF m, s
  <2>8. QED
    BY <2>4, <2>5, <2>6, <2>7
<1>8. TakingIndexOwn(c)
  BY <1>1 DEF BookInv, TakingIndexOwn
<1>9. IndexExact(c)
  <2>1. ASSUME NEW m \in Market, NEW l \in NodeType, NEW o \in c.order_sigs[m][l]
        PROVE  o \in b.orders
    <3>1. CASE o \in b.order_sigs[m][l]
      BY <3>1 DEF BookInv, IndexExact
    <3>2. CASE o \notin b.order_sigs[m][l]
      <4>1. PICK s \in Side : \E n \in resting_nodes(b, slot, m, s) : n.sig = o
        BY <2>1, <3>2, UpdateIndex DEF c
      <4>2. PICK n \in b.heap[m]["TakingLimit"][s] : n.sig = o
        BY <4>1 DEF resting_nodes
      <4>3. QED
        BY <1>3, <4>2 DEF NodeType
    <3>3. QED
      BY <3>1, <3>2
  <2>2. ASSUME NEW o \in b.orders
        PROVE  /\ OrderOf[o].market \in b.markets
               /\ o \in c.order_sigs[OrderOf[o].market][PlaceOf(c, o)]
    <3> DEFINE m == OrderOf[o].market
               s == sub_type(OrderOf[o])
    <3>1. m \in Market /\ s \in Side /\ PlaceOf(b, o) \in NodeType
      BY OrderAssumption, PlaceType DEF Book, OrderRecord, PlaceOf
    <3>2. m \in b.markets /\ o \in b.order_sigs[m][PlaceOf(b, o)]
      BY DEF BookInv, IndexExact
    <3>3. PICK n \in b.heap[m][PlaceOf(b, o)][s] : n.sig = o
      BY DEF BookInv, OrdersHeld
    <3> HIDE DEF m, s
    <3>4. CASE PlaceOf(b, o) = "TakingLimit" /\ Rests(o)
      <4>1. n \in resting_nodes(b, slot, m, s)
        BY <3>3, <3>4 DEF resting_nodes
      <4>2. n.sig \in c.order_sigs[m]["RestingLimit"]
        BY <3>1, <3>2, <4>1, UpdateIndex DEF c, NodeType
      <4>3. PlaceOf(c, o) = "RestingLimit"
        BY <1>2, <3>4
      <4>4. QED
        BY <3>2, <3>3, <4>2, <4>3 DEF m
    <3>5. CASE ~(PlaceOf(b, o) = "TakingLimit" /\ Rests(o))
      <4>1. PlaceOf(c, o) = PlaceOf(b, o)
        BY <1>2, <3>5
      <4>2. b.order_sigs[m][PlaceOf(b, o)] \subseteq c.order_sigs[m][PlaceOf(b, o)]
        BY <3>1, UpdateIndex DEF c
      <4>3. QED
        BY <3>2, <4>1, <4>2 DEF m
    <3>6. QED
      BY <3>4, <3>5
  <2>3. QED
    BY <1>1, <2>1, <2>2 DEF IndexExact
<1>10. QED
  BY <1>6, <1>7, <1>8, <1>9 DEF BookInv, c

-----------------------------------------------------------------------------
(* A book as the state machines keep it, at a given slot.                    *)
GoodBook(b, slot) == b \in Book /\ BookInv(b) /\ SeenBy(b, slot)

LEMMA SeenLater ==
  ASSUME NEW b \in Book, NEW s \in Nat, NEW t \in Nat, s <= t, SeenBy(b, s)
  PROVE  SeenBy(b, t)
BY DEF SeenBy, Book

LEMMA GoodLater ==
  ASSUME NEW b, NEW s \in Nat, NEW t \in Nat, s <= t, GoodBook(b, s)
  PROVE  GoodBook(b, t)
BY SeenLater DEF GoodBook

LEMMA GoodEmpty == ASSUME NEW s PROVE GoodBook(EmptyBook, s)
BY EmptyBookInv DEF GoodBook, SeenBy

LEMMA GoodInsert ==
  ASSUME NEW b, NEW t \in Nat, GoodBook(b, t), NEW o \in Order, o \notin b.orders,
         NEW slot \in Nat, slot <= t
  PROVE  GoodBook(insert_order(b, o, slot), t)
<1>1. /\ insert_order(b, o, slot).orders = b.orders \cup {o}
      /\ insert_order(b, o, slot).seen = [b.seen EXCEPT ![o] = slot]
  BY DEF insert_order
<1>2. SeenBy(insert_order(b, o, slot), t)
  BY <1>1 DEF GoodBook, SeenBy, Book
<1>3. QED
  BY <1>2, InsertInv, InsertType DEF GoodBook

LEMMA GoodUpdate ==
  ASSUME NEW b, NEW t \in Nat, GoodBook(b, t), NEW slot \in Nat, slot <= t,
         SeenBy(b, slot), NEW rank \in Visits
  PROVE  GoodBook(update_resting_limit_orders(b, slot, rank), t)
<1>1. /\ update_resting_limit_orders(b, slot, rank).orders = b.orders
      /\ \A o \in Order : update_resting_limit_orders(b, slot, rank).seen[o] =
                            IF o \in b.orders THEN slot ELSE b.seen[o]
  BY DEF update_resting_limit_orders
<1>2. SeenBy(update_resting_limit_orders(b, slot, rank), t)
  BY <1>1 DEF GoodBook, SeenBy, Book
<1>3. QED
  BY <1>2, UpdateInv, UpdateType DEF GoodBook
=============================================================================
