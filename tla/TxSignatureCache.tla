--------------------------- MODULE TxSignatureCache ---------------------------
(* The bounded cache of transaction signatures of event_subscriber.rs.      *)
EXTENDS Naturals, Sequences

new_cache == [entries |-> {}, age |-> <<>>]

contains(cache, x) == x \in cache.entries

\* Mutant: the evicted signature stays in entries.
insert_unevicted(cache, x, capacity) ==
  LET age == Append(cache.age, x)
  IN [entries |-> cache.entries \cup {x},
      age |-> IF Len(age) >= capacity THEN Tail(age) ELSE age]

\* The oldest goes when the queue reaches the capacity, not when it passes it.
insert(cache, x, capacity) ==
  LET entries == cache.entries \cup {x}
      age == Append(cache.age, x)
  IN IF Len(age) >= capacity
     THEN [entries |-> entries \ {Head(age)}, age |-> Tail(age)]
     ELSE [entries |-> entries, age |-> age]
=============================================================================
