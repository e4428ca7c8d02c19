----------------------------- MODULE PolledProofs -----------------------------
(***************************************************************************)
(* Proofs about PolledEventStream, for every bound and every capacity: its  *)
(* types, what its cache holds, and that it implements EventDelivery.       *)
(*                                                                         *)
(* The argument: the batch being processed is always the run of             *)
(* transactions right behind last_seen_tx, whatever failed before, and the  *)
(* cache holds transactions up to last_seen_tx only.  So the next           *)
(* transaction is the successor of the last one and is never skipped.       *)
(***************************************************************************)
EXTENDS PolledEventStream, TLAPS

(* The rest of a batch continues the ledger where last_seen_tx stands.      *)
Batch ==
  /\ \A k \in 1..Len(futs) : futs[k] = last_seen_tx + k
  /\ last_seen_tx + Len(futs) <= Len(ledger)
  /\ pc = "process" <=> futs # <<>>

Fresh == pc = "start" => cache = new_cache

IInv == TypeOK /\ Batch /\ CacheIsRecent /\ Fresh

(* The consecutive numbers that end in last.                                 *)
Run(q, last) == \A k \in 1..Len(q) : q[k] = last - Len(q) + k

-----------------------------------------------------------------------------
(* Sequences over a set are sequences over a larger one.                     *)
LEMMA SeqGrows ==
  ASSUME NEW S, NEW T, S \subseteq T, NEW s \in Seq(S)
  PROVE  s \in Seq(T)
  OBVIOUS

(* The elements of a sequence are in its set.                                *)
LEMMA SeqElement ==
  ASSUME NEW S, NEW s \in Seq(S), NEW i \in 1..Len(s)
  PROVE  s[i] \in S
  OBVIOUS

(* A sequence is empty exactly when its length is 0.                         *)
LEMMA EmptyLen ==
  ASSUME NEW S, NEW s \in Seq(S)
  PROVE  Len(s) \in Nat /\ (s = <<>> <=> Len(s) = 0)
  OBVIOUS

(* The first element and the rest of a sequence.                             *)
LEMMA TailFacts ==
  ASSUME NEW S, NEW q \in Seq(S), q # <<>>
  PROVE  /\ Len(q) \in Nat \ {0}
         /\ Head(q) = q[1]
         /\ Tail(q) \in Seq(S)
         /\ Len(Tail(q)) = Len(q) - 1
         /\ \A k \in 1..Len(Tail(q)) : Tail(q)[k] = q[k + 1]
  OBVIOUS

(* What age.push_back and age.pop_front leave is again a run.                *)
LEMMA RunAppend ==
  ASSUME NEW S, NEW q \in Seq(S), NEW last \in Nat, last + 1 \in S, Run(q, last)
  PROVE  /\ Append(q, last + 1) \in Seq(S)
         /\ Len(Append(q, last + 1)) = Len(q) + 1
         /\ Len(q) \in Nat
         /\ Run(Append(q, last + 1), last + 1)
<1> DEFINE r == Append(q, last + 1)
<1>1. /\ r \in Seq(S) /\ Len(r) = Len(q) + 1 /\ Len(q) \in Nat
      /\ r[Len(q) + 1] = last + 1 /\ \A k \in 1..Len(q) : r[k] = q[k]
  OBVIOUS
<1> HIDE DEF r
<1>2. ASSUME NEW k \in 1..Len(r) PROVE r[k] = last + 1 - Len(r) + k
  BY <1>1, <1>2 DEF Run
<1> QED
  BY <1>1, <1>2 DEF Run, r

LEMMA RunTail ==
  ASSUME NEW S, NEW q \in Seq(S), q # <<>>, NEW last \in Nat, Run(q, last)
  PROVE  /\ Head(q) = last - Len(q) + 1
         /\ Run(Tail(q), last)
<1> DEFINE t == Tail(q)
<1>1. /\ Len(q) \in Nat \ {0} /\ Head(q) = q[1] /\ Len(t) = Len(q) - 1
      /\ \A k \in 1..Len(t) : t[k] = q[k + 1]
  BY TailFacts
<1> HIDE DEF t
<1>2. Head(q) = last - Len(q) + 1
  BY <1>1 DEF Run
<1>3. ASSUME NEW k \in 1..Len(t) PROVE t[k] = last - Len(t) + k
  <2>1. k + 1 \in 1..Len(q) /\ k \in Int
    BY <1>1
  <2>2. q[k + 1] = last - Len(q) + (k + 1)
    BY <2>1 DEF Run
  <2> QED
    BY <1>1, <2>1, <2>2
<1> QED
  BY <1>2, <1>3 DEF Run, t

(* A cache of the last transactions, after the next one is inserted.         *)
LEMMA InsertRecent ==
  ASSUME NEW c, NEW last \in Nat, NEW top \in Nat, last < top,
         c.age \in Seq(1..top), Run(c.age, last),
         Len(c.age) <= CacheCapacity - 1,
         c.entries = (last - Len(c.age) + 1)..last,
         NEW d, d = insert(c, last + 1, CacheCapacity)
  PROVE  /\ d.age \in Seq(1..top)
         /\ Run(d.age, last + 1)
         /\ Len(d.age) <= CacheCapacity - 1
         /\ d.entries = (last + 1 - Len(d.age) + 1)..(last + 1)
<1> DEFINE age == Append(c.age, last + 1)
<1>0. CacheCapacity \in Nat \ {0}
  BY PolledAssumption
<1>1. /\ age \in Seq(1..top) /\ Len(age) = Len(c.age) + 1 /\ Len(c.age) \in Nat
      /\ Run(age, last + 1)
  BY RunAppend
<1>2. c.entries \cup {last + 1} = (last + 1 - Len(age) + 1)..(last + 1)
  <2> DEFINE n == Len(c.age)
             e == c.entries
  <2>1. e = (last - n + 1)..last /\ n \in Nat /\ Len(age) = n + 1
    BY <1>1
  <2> HIDE DEF n, e, age
  <2>2. e \cup {last + 1} = (last - n + 1)..(last + 1)
    BY <2>1
  <2>3. last + 1 - Len(age) + 1 = last - n + 1
    BY <2>1
  <2> QED
    BY <2>2, <2>3 DEF e
<1>3. CASE Len(age) >= CacheCapacity
  <2>1. d.entries = (c.entries \cup {last + 1}) \ {Head(age)} /\ d.age = Tail(age)
    BY <1>3 DEF insert
  <2> HIDE DEF age
  <2>2. age # <<>> /\ last + 1 \in Nat
    <3>1. Len(age) # 0
      BY <1>1
    <3> QED
      BY <3>1
  <2>3. /\ Tail(age) \in Seq(1..top) /\ Len(Tail(age)) = Len(age) - 1
        /\ Len(age) \in Nat \ {0}
    BY <1>1, <2>2, TailFacts
  <2>4. Head(age) = last + 1 - Len(age) + 1 /\ Run(Tail(age), last + 1)
    BY <1>1, <2>2, RunTail
  <2> DEFINE n == Len(age)
  <2>5. n \in Nat \ {0} /\ Len(Tail(age)) = n - 1
    BY <2>3
  <2>6. d.entries = ((last + 1 - n + 1)..(last + 1)) \ {last + 1 - n + 1}
    BY <1>2, <2>1, <2>4
  <2>7. ((last + 1 - n + 1)..(last + 1)) \ {last + 1 - n + 1} = (last + 1 - (n - 1) + 1)..(last + 1)
    <3> HIDE DEF n
    <3> QED
      BY <2>5
  <2>8. Len(Tail(age)) <= CacheCapacity - 1
    <3>1. Len(c.age) \in Nat /\ n = Len(c.age) + 1
      BY <1>1
    <3> HIDE DEF n
    <3> QED
      BY <3>1, <2>5, <1>0
  <2> QED
    BY <2>1, <2>3, <2>4, <2>5, <2>6, <2>7, <2>8
<1>4. CASE ~(Len(age) >= CacheCapacity)
  <2>1. d.entries = c.entries \cup {last + 1} /\ d.age = age
    BY <1>4 DEF insert
  <2> HIDE DEF age
  <2>2. Len(age) <= CacheCapacity - 1
    BY <1>0, <1>1, <1>4
  <2> QED
    BY <2>1, <2>2, <1>1, <1>2
<1> QED
  BY <1>3, <1>4

-----------------------------------------------------------------------------
(* The initial states satisfy the inductive invariant.                       *)
LEMMA InitIInv == Init => IInv
<1> SUFFICES ASSUME Init PROVE IInv
  OBVIOUS
<1>1. TypeOK /\ Batch /\ Fresh
  BY PolledAssumption DEF Init, TypeOK, Batch, Fresh, new_cache
<1>2. CacheIsRecent
  BY PolledAssumption DEF Init, CacheIsRecent, new_cache
<1> QED
  BY <1>1, <1>2 DEF IInv

(* The batch Poll computes is the run of transactions behind last_seen_tx.   *)
LEMMA PolledBatch ==
  ASSUME NEW last \in Nat, NEW tip \in Nat, last < tip
  PROVE  LET f == oldest_first(get_tx_signatures(last, tip))
         IN /\ f \in Seq((last + 1)..tip)
            /\ Len(f) = tip - last
            /\ f # <<>>
            /\ \A k \in 1..Len(f) : f[k] = last + k
<1> DEFINE g == get_tx_signatures(last, tip)
           f == oldest_first(g)
<1>1. g = [k \in 1..(tip - last) |-> tip + 1 - k] /\ tip - last \in Nat
  BY DEF get_tx_signatures
<1>2. Len(g) = tip - last
  BY <1>1
<1>3. f = [k \in 1..(tip - last) |-> g[tip - last + 1 - k]]
  BY <1>2 DEF oldest_first
<1>4. \A k \in 1..(tip - last) : g[tip - last + 1 - k] = last + k
  BY <1>1
<1>5. f = [k \in 1..(tip - last) |-> last + k]
  BY <1>3, <1>4
<1> HIDE DEF f
<1>6. Len(f) = tip - last /\ \A k \in 1..Len(f) : f[k] = last + k
  BY <1>1, <1>5
<1>7. f \in Seq((last + 1)..tip) /\ f # <<>>
  <2>1. \A k \in 1..(tip - last) : last + k \in (last + 1)..tip
    BY <1>1
  <2>2. f \in [1..(tip - last) -> (last + 1)..tip]
    BY <1>5, <2>1
  <2> QED
    BY <1>1, <1>6, <2>2
<1> QED
  BY <1>6, <1>7 DEF f

(* What ProcessTx finds: the successor of last_seen_tx, not in the cache.    *)
LEMMA NextTx ==
  ASSUME IInv, pc = "process"
  PROVE  /\ Head(futs) = last_seen_tx + 1
         /\ last_seen_tx \in Nat
         /\ last_seen_tx + 1 \in 1..Len(ledger)
         /\ ~contains(cache, Head(futs))
         /\ ledger[last_seen_tx + 1] \in 0..MaxEventsPerTx
         /\ room_for(ledger[last_seen_tx + 1]) \in 0..ledger[last_seen_tx + 1]
         /\ queued + room_for(ledger[last_seen_tx + 1]) \in 0..ChannelCapacity
<1>1. /\ futs # <<>> /\ futs \in Seq(1..Len(ledger)) /\ ledger \in Seq(0..MaxEventsPerTx)
      /\ \A k \in 1..Len(futs) : futs[k] = last_seen_tx + k
      /\ last_seen_tx + Len(futs) <= Len(ledger)
      /\ last_seen_tx \in 0..Len(ledger)
      /\ queued \in 0..ChannelCapacity
      /\ cache.age \in Seq(1..Len(ledger))
      /\ cache.entries = (last_seen_tx - Len(cache.age) + 1)..last_seen_tx
  BY DEF IInv, Batch, TypeOK, CacheIsRecent
<1>2. /\ Len(futs) \in Nat \ {0} /\ Head(futs) = futs[1] /\ Len(ledger) \in Nat
      /\ Len(cache.age) \in Nat
  BY <1>1, TailFacts
<1>3. /\ Head(futs) = last_seen_tx + 1
      /\ last_seen_tx \in Nat
      /\ last_seen_tx + 1 \in 1..Len(ledger)
  BY <1>1, <1>2
<1>4. ledger[last_seen_tx + 1] \in 0..MaxEventsPerTx
  BY <1>1, <1>3, SeqElement
<1>5. ~contains(cache, Head(futs))
  <2>1. \A m \in Nat : last_seen_tx + 1 \notin (last_seen_tx - m + 1)..last_seen_tx
    BY <1>3
  <2>2. last_seen_tx + 1 \notin cache.entries
    BY <2>1, <1>1, <1>2
  <2> QED
    BY <2>2, <1>3 DEF contains
<1>6. room_for(ledger[last_seen_tx + 1]) \in 0..ledger[last_seen_tx + 1]
      /\ queued + room_for(ledger[last_seen_tx + 1]) \in 0..ChannelCapacity
  <2>1. queued \in 0..ChannelCapacity /\ ChannelCapacity \in Nat /\ MaxEventsPerTx \in Nat
    BY <1>1, PolledAssumption
  <2> DEFINE n == ledger[last_seen_tx + 1]
  <2>2. n \in Nat
    BY <1>4, <2>1
  <2> HIDE DEF n
  <2>3. room_for(n) \in 0..n /\ queued + room_for(n) \in 0..ChannelCapacity
    BY <2>1, <2>2 DEF room_for
  <2> QED
    BY <2>3 DEF n
<1> QED
  BY <1>3, <1>4, <1>5, <1>6

(* Every step preserves the inductive invariant.                             *)
LEMMA NextIInv == IInv /\ [Next]_vars => IInv'
<1> SUFFICES ASSUME IInv, [Next]_vars PROVE IInv'
  OBVIOUS
<1>0. TypeOK /\ Batch /\ CacheIsRecent /\ Fresh
  BY DEF IInv
<1>1. CASE Land
  <2>1. PICK n \in 0..MaxEventsPerTx : ledger' = Append(ledger, n)
    BY <1>1 DEF Land
  <2>2. /\ ledger' \in Seq(0..MaxEventsPerTx)
        /\ Len(ledger') = Len(ledger) + 1 /\ Len(ledger) \in Nat
    BY <1>0, <2>1 DEF TypeOK
  <2>3. 1..Len(ledger) \subseteq 1..Len(ledger') /\ 0..Len(ledger) \subseteq 0..Len(ledger')
    BY <2>2
  <2>4. (1..Len(ledger)) \X (1..MaxEventsPerTx) \subseteq (1..Len(ledger')) \X (1..MaxEventsPerTx)
    BY <2>3
  <2>5. /\ futs \in Seq(1..Len(ledger'))
        /\ cache.age \in Seq(1..Len(ledger'))
        /\ sent \in Seq((1..Len(ledger')) \X (1..MaxEventsPerTx))
    BY <1>0, <2>3, <2>4, SeqGrows DEF TypeOK
  <2>6. /\ last_seen_tx \in 0..Len(ledger')
        /\ cache.entries \subseteq 1..Len(ledger')
    BY <1>0, <2>3 DEF TypeOK
  <2>7. TypeOK'
    BY <1>0, <1>1, <2>2, <2>5, <2>6 DEF Land, TypeOK
  <2>8. Len(futs) \in Nat /\ last_seen_tx \in Nat
    BY <1>0, <2>2 DEF TypeOK
  <2>9. Batch'
    BY <1>0, <1>1, <2>2, <2>8 DEF Land, Batch
  <2> QED
    BY <1>0, <1>1, <2>7, <2>9 DEF IInv, Land, CacheIsRecent, Fresh
<1>2. CASE FetchInitial
  <2>1. futs = <<>> /\ cache = new_cache
    BY <1>0, <1>2 DEF FetchInitial, Batch, Fresh
  <2>2. PICK tip \in 0..Len(ledger) : last_seen_tx' = tip /\ pc' = "poll"
    BY <1>2 DEF FetchInitial
  <2>3. Len(ledger) \in Nat /\ tip \in Nat
    BY <1>0 DEF TypeOK
  <2>4. TypeOK'
    BY <1>0, <1>2, <2>2 DEF FetchInitial, TypeOK
  <2>5. Batch' /\ Fresh'
    BY <1>2, <2>1, <2>2, <2>3 DEF FetchInitial, Batch, Fresh
  <2>6. CacheIsRecent'
    BY <1>2, <2>1, <2>2, <2>3, PolledAssumption DEF FetchInitial, CacheIsRecent, new_cache
  <2> QED
    BY <2>4, <2>5, <2>6 DEF IInv
<1>3. CASE FetchInitialFails
  BY <1>0, <1>3 DEF FetchInitialFails, IInv, TypeOK, Batch, CacheIsRecent, Fresh
<1>4. CASE Poll
  <2>1. PICK tip \in (last_seen_tx + 1)..Len(ledger) :
          futs' = oldest_first(get_tx_signatures(last_seen_tx, tip))
    BY <1>4 DEF Poll
  <2>2. last_seen_tx \in Nat /\ Len(ledger) \in Nat
    BY <1>0 DEF TypeOK
  <2>3. tip \in Nat /\ last_seen_tx < tip /\ tip <= Len(ledger)
    BY <2>1, <2>2
  <2>4. /\ futs' \in Seq((last_seen_tx + 1)..tip)
        /\ Len(futs') = tip - last_seen_tx /\ futs' # <<>>
        /\ \A k \in 1..Len(futs') : futs'[k] = last_seen_tx + k
    BY <2>1, <2>2, <2>3, PolledBatch
  <2>5. (last_seen_tx + 1)..tip \subseteq 1..Len(ledger)
    BY <2>2, <2>3
  <2>6. futs' \in Seq(1..Len(ledger))
    BY <2>4, <2>5, SeqGrows
  <2>7. TypeOK'
    BY <1>0, <1>4, <2>6 DEF Poll, TypeOK
  <2>8. last_seen_tx + Len(futs') <= Len(ledger)
    BY <2>2, <2>3, <2>4
  <2>9. Batch' /\ Fresh'
    BY <1>4, <2>4, <2>8 DEF Poll, Batch, Fresh
  <2> QED
    BY <1>0, <1>4, <2>7, <2>9 DEF Poll, IInv, CacheIsRecent
<1>5. CASE GetTxFails
  <2>1. TypeOK'
    BY <1>0, <1>5 DEF GetTxFails, TypeOK
  <2>2. last_seen_tx \in 0..Len(ledger) /\ Len(ledger) \in Nat
    BY <1>0 DEF TypeOK
  <2>3. Batch' /\ Fresh'
    BY <1>5, <2>2 DEF GetTxFails, Batch, Fresh
  <2> QED
    BY <1>0, <1>5, <2>1, <2>3 DEF GetTxFails, IInv, CacheIsRecent
<1>6. CASE ProcessTx
  <2> DEFINE tx == last_seen_tx + 1
             n == ledger[tx]
             k == room_for(n)
  <2>1. pc = "process"
    BY <1>6 DEF ProcessTx
  <2>2. /\ Head(futs) = tx /\ last_seen_tx \in Nat /\ tx \in 1..Len(ledger)
        /\ ~contains(cache, Head(futs)) /\ n \in 0..MaxEventsPerTx
        /\ k \in 0..n /\ queued + k \in 0..ChannelCapacity
    BY <2>1, NextTx
  <2>3. /\ last_seen_tx' = tx
        /\ cache' = insert(cache, tx, CacheCapacity)
        /\ sent' = sent \o Abs!EventsOf(tx, k)
        /\ queued' = queued + k
        /\ futs' = IF k < n THEN <<>> ELSE Tail(futs)
        /\ pc' = IF k < n THEN "dead" ELSE IF Len(futs) = 1 THEN "poll" ELSE "process"
        /\ ledger' = ledger
    BY <1>6, <2>2 DEF ProcessTx
  <2>4. /\ cache'.age \in Seq(1..Len(ledger))
        /\ Run(cache'.age, tx)
        /\ Len(cache'.age) <= CacheCapacity - 1
        /\ cache'.entries = (tx - Len(cache'.age) + 1)..tx
    <3>1. /\ cache.age \in Seq(1..Len(ledger)) /\ Run(cache.age, last_seen_tx)
          /\ Len(cache.age) <= CacheCapacity - 1
          /\ cache.entries = (last_seen_tx - Len(cache.age) + 1)..last_seen_tx
      BY <1>0 DEF TypeOK, CacheIsRecent, Run
    <3>2. Len(ledger) \in Nat /\ last_seen_tx < Len(ledger)
      BY <1>0, <2>2 DEF TypeOK
    <3>3. cache' = insert(cache, last_seen_tx + 1, CacheCapacity) /\ last_seen_tx \in Nat
      BY <2>2, <2>3
    <3> HIDE DEF n, k
    <3>4. tx = last_seen_tx + 1 /\ last_seen_tx \in Nat
      BY <3>3
    <3> DEFINE d == insert(cache, last_seen_tx + 1, CacheCapacity)
    <3>5. /\ d.age \in Seq(1..Len(ledger))
          /\ Run(d.age, last_seen_tx + 1)
          /\ Len(d.age) <= CacheCapacity - 1
          /\ d.entries = (last_seen_tx + 1 - Len(d.age) + 1)..(last_seen_tx + 1)
      BY <3>1, <3>2, <3>4, InsertRecent
    <3>6. cache' = d
      BY <3>3
    <3> HIDE DEF d, tx
    <3>7. d.entries = (tx - Len(d.age) + 1)..tx
      BY <3>4, <3>5
    <3> QED
      BY <3>4, <3>5, <3>6, <3>7
  <2>5. CacheIsRecent'
    BY <2>3, <2>4 DEF CacheIsRecent, Run
  <2>6. cache'.entries \subseteq 1..Len(ledger)
    <3> DEFINE m == Len(cache'.age)
    <3>1. m \in Nat /\ tx \in Nat /\ Len(ledger) \in Nat /\ tx <= Len(ledger)
      BY <1>0, <2>2, <2>4 DEF TypeOK
    <3>2. CASE m = 0
      BY <3>1, <3>2, <2>4
    <3>3. CASE m # 0
      <4>1. cache'.age[1] \in 1..Len(ledger) /\ cache'.age[1] = tx - m + 1
        BY <3>1, <3>3, <2>4 DEF Run
      <4> HIDE DEF m, tx
      <4>2. tx - m + 1 >= 1
        BY <4>1, <3>1
      <4>3. (tx - m + 1)..tx \subseteq 1..Len(ledger)
        BY <4>2, <3>1
      <4> QED
        BY <4>3, <2>4 DEF m, tx
    <3> QED
      BY <3>2, <3>3
  <2>7. sent' \in Seq((1..Len(ledger)) \X (1..MaxEventsPerTx))
    <3>1. k \in Nat /\ k <= MaxEventsPerTx
      BY <2>2, PolledAssumption
    <3> HIDE DEF k
    <3>2. ASSUME NEW i \in 1..k PROVE <<tx, i>> \in (1..Len(ledger)) \X (1..MaxEventsPerTx)
      BY <2>2, <3>1, PolledAssumption
    <3>3. Abs!EventsOf(tx, k) \in Seq((1..Len(ledger)) \X (1..MaxEventsPerTx))
      BY <3>1, <3>2 DEF Abs!EventsOf
    <3> QED
      BY <1>0, <2>3, <3>3 DEF TypeOK
  <2>8. /\ futs \in Seq(1..Len(ledger)) /\ futs # <<>>
        /\ last_seen_tx + Len(futs) <= Len(ledger)
        /\ \A j \in 1..Len(futs) : futs[j] = last_seen_tx + j
    BY <1>0, <2>1 DEF TypeOK, Batch
  <2>9. /\ Len(futs) \in Nat \ {0} /\ Tail(futs) \in Seq(1..Len(ledger))
        /\ Len(Tail(futs)) = Len(futs) - 1
        /\ \A j \in 1..Len(Tail(futs)) : Tail(futs)[j] = futs[j + 1]
    BY <2>8, TailFacts
  <2>10. TypeOK'
    <3>1. futs' \in Seq(1..Len(ledger)) /\ pc' \in {"start", "poll", "process", "dead"}
      <4>1. <<>> \in Seq(1..Len(ledger))
        OBVIOUS
      <4> HIDE DEF tx, n, k
      <4> QED
        BY <2>3, <2>9, <4>1
    <3>2. last_seen_tx' \in 0..Len(ledger) /\ queued' \in 0..ChannelCapacity
      BY <2>2, <2>3
    <3> HIDE DEF tx, k
    <3> QED
      BY <1>0, <2>3, <2>4, <2>6, <2>7, <3>1, <3>2 DEF TypeOK
  <2>11. Batch'
    <3>1. CASE k < n
      <4>1. futs' = <<>> /\ pc' = "dead"
        BY <2>3, <3>1
      <4> QED
        BY <4>1, <2>2, <2>3, <1>0 DEF Batch, TypeOK
    <3>2. CASE ~(k < n)
      <4> DEFINE t == Tail(futs)
      <4>1. futs' = t /\ pc' = IF Len(futs) = 1 THEN "poll" ELSE "process"
        BY <2>3, <3>2
      <4>2. ASSUME NEW j \in 1..Len(t) PROVE t[j] = tx + j
        <5>1. j \in Nat /\ j + 1 \in 1..Len(futs)
          BY <2>9
        <5>2. t[j] = last_seen_tx + (j + 1)
          BY <5>1, <2>8, <2>9
        <5> QED
          BY <5>1, <5>2, <2>2
      <4>3. Len(t) \in Nat /\ Len(t) = Len(futs) - 1 /\ (t = <<>> <=> Len(t) = 0)
        BY <2>9, EmptyLen
      <4> HIDE DEF t
      <4>4. tx + Len(t) <= Len(ledger)
        BY <4>3, <2>2, <2>8, <2>9, <1>0 DEF TypeOK
      <4>5. pc' = "process" <=> t # <<>>
        BY <4>1, <4>3, <2>9
      <4> QED
        BY <4>1, <4>2, <4>4, <4>5, <2>3 DEF Batch
    <3> QED
      BY <3>1, <3>2
  <2>12. Fresh'
    BY <2>3 DEF Fresh
  <2> QED
    BY <2>5, <2>10, <2>11, <2>12 DEF IInv
<1>7. CASE Receive
  <2>1. queued' \in 0..ChannelCapacity
    BY <1>0, <1>7, PolledAssumption DEF Receive, TypeOK
  <2> QED
    BY <1>0, <1>7, <2>1 DEF Receive, IInv, TypeOK, Batch, CacheIsRecent, Fresh
<1>8. CASE Unsubscribe
  <2>1. TypeOK'
    BY <1>0, <1>8 DEF Unsubscribe, TypeOK
  <2>2. last_seen_tx \in 0..Len(ledger) /\ Len(ledger) \in Nat
    BY <1>0 DEF TypeOK
  <2>3. Batch' /\ Fresh'
    BY <1>8, <2>2 DEF Unsubscribe, Batch, Fresh
  <2> QED
    BY <1>0, <1>8, <2>1, <2>3 DEF Unsubscribe, IInv, CacheIsRecent
<1>9. CASE UNCHANGED vars
  BY <1>0, <1>9 DEF vars, IInv, TypeOK, Batch, CacheIsRecent, Fresh
<1> QED
  BY <1>1, <1>2, <1>3, <1>4, <1>5, <1>6, <1>7, <1>8, <1>9 DEF Next

(* The invariant behind every theorem of this module.                        *)
LEMMA Invariance == Spec => []IInv
  BY InitIInv, NextIInv, PTL DEF Spec

(* Type correctness of the polled stream; among it, the channel never holds  *)
(* more events than its capacity and every event sent is of a landed         *)
(* transaction.                                                              *)
THEOREM TypeCorrect == Spec => []TypeOK
<1>1. IInv => TypeOK
  BY DEF IInv
<1> QED
  BY <1>1, Invariance, PTL

(* The cache of stream_fn is exactly the last transactions the task took, at *)
(* most one below its capacity of them.                                      *)
THEOREM CacheRecent == Spec => []CacheIsRecent
<1>1. IInv => CacheIsRecent
  BY DEF IInv
<1> QED
  BY <1>1, Invariance, PTL

-----------------------------------------------------------------------------
(* Every step of the task is a step of the abstract stream, or none.         *)
LEMMA StepDelivers == IInv /\ [Next]_vars => [Abs!Next]_(Abs!vars)
<1> SUFFICES ASSUME IInv, [Next]_vars PROVE [Abs!Next]_(Abs!vars)
  OBVIOUS
<1>1. CASE Land
  BY <1>1 DEF Land, Abs!Next, Abs!Land
<1>2. CASE FetchInitial
  BY <1>2 DEF FetchInitial, Abs!Next, Abs!Start
<1>3. CASE FetchInitialFails
  BY <1>3 DEF FetchInitialFails, Abs!Next, Abs!End
<1>4. CASE Poll
  BY <1>4 DEF Poll, Abs!vars
<1>5. CASE GetTxFails
  BY <1>5 DEF GetTxFails, Abs!vars
<1>6. CASE ProcessTx
  <2> DEFINE tx == last_seen_tx + 1
             n == ledger[tx]
             k == room_for(n)
  <2>1. pc = "process"
    BY <1>6 DEF ProcessTx
  <2>2. /\ Head(futs) = tx /\ last_seen_tx \in Nat /\ tx \in 1..Len(ledger)
        /\ ~contains(cache, Head(futs)) /\ k \in 0..n /\ n \in 0..MaxEventsPerTx
    BY <2>1, NextTx
  <2>3. /\ last_seen_tx' = tx
        /\ sent' = sent \o Abs!EventsOf(tx, k)
        /\ pc' = IF k < n THEN "dead" ELSE IF Len(futs) = 1 THEN "poll" ELSE "process"
        /\ ledger' = ledger
    BY <1>6, <2>2 DEF ProcessTx
  <2>4. last_seen_tx < Len(ledger)
    BY <2>2 DEF IInv, TypeOK
  <2>5. CASE k < n
    BY <2>1, <2>2, <2>3, <2>4, <2>5 DEF Abs!Next, Abs!End
  <2>6. CASE ~(k < n)
    <3>1. k = n
      BY <2>2, <2>6, PolledAssumption
    <3> QED
      BY <2>1, <2>2, <2>3, <2>4, <2>6, <3>1 DEF Abs!Next, Abs!Deliver
  <2> QED
    BY <2>5, <2>6
<1>7. CASE Receive
  BY <1>7 DEF Receive, Abs!vars
<1>8. CASE Unsubscribe
  BY <1>8 DEF Unsubscribe, Abs!Next, Abs!End
<1>9. CASE UNCHANGED vars
  BY <1>9 DEF vars, Abs!vars
<1> QED
  BY <1>1, <1>2, <1>3, <1>4, <1>5, <1>6, <1>7, <1>8, <1>9 DEF Next

(* The polled stream implements EventDelivery: through failed polls, failed  *)
(* get_tx calls and batches queried again, every event of every transaction  *)
(* after its start is sent once and in ledger order, until the task ends.    *)
THEOREM PolledDelivers == Spec => Delivers
<1>1. Init => Abs!Init
  BY DEF Init, Abs!Init
<1> QED
  BY <1>1, StepDelivers, Invariance, PTL DEF Spec, Delivers, Abs!Spec
===============================================================================
