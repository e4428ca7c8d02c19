----------------------------- MODULE LogProofs -----------------------------
(***************************************************************************)
(* Proofs about LogEventStream, for every ledger, retry policy and capacity *)
(* of cache and channel: its types, that events are sent in ledger order    *)
(* and none twice, that a cached transaction has had its events sent, and   *)
(* that the stream implements LogDelivery, which leaves none out either.    *)
(*                                                                         *)
(* The argument: as long as the task lives, some position D of the ledger   *)
(* divides what it has processed from what it has not (DoneUpTo).  A        *)
(* notification behind D is a repetition; the node repeats only recent      *)
(* ones, and the cache has forgotten none so recent, for CacheCapacity - 1  *)
(* younger ones had to come first, each at a later position.  A             *)
(* notification beyond D is the next one, and all behind D has been sent:   *)
(* so it is the one that LogDelivery says is due.                           *)
(***************************************************************************)
EXTENDS LogEventStream, TLAPS, SequenceTheorems

(* The cache is its age queue, which grows by one position or more a place.  *)
AgeOrdered ==
  /\ Len(cache.age) < CacheCapacity
  /\ \A tx : tx \in cache.entries <=> \E i \in DOMAIN cache.age : cache.age[i] = tx
  /\ \A i, j \in DOMAIN cache.age : i <= j => cache.age[i] + (j - i) <= cache.age[j]

(* Nothing beyond D has been processed.                                      *)
NothingBeyond(D) ==
  /\ D \in 0..notified
  /\ \A i \in DOMAIN sent : sent[i][1] <= D
  /\ \A tx \in cache.entries : tx <= D

(* What was processed has failed, is cached, or lies too far back.           *)
Remembered(D) ==
  \A tx \in heard :
    tx <= D => \/ ledger[tx].err
               \/ tx \in cache.entries
               \/ tx + CacheCapacity <= D + 1

(* No waiting notification lies RepeatWindow or more behind D, or behind     *)
(* another that waits before it.                                             *)
Recent(D) ==
  \A i \in DOMAIN log_stream :
    /\ log_stream[i] + RepeatWindow > D
    /\ \A j \in DOMAIN log_stream : j < i => log_stream[i] + RepeatWindow > log_stream[j]

(* All that was heard of beyond D waits, and in order at its first time.     *)
NoneLost(D) ==
  \A tx \in heard : tx > D => \E j \in DOMAIN log_stream : log_stream[j] = tx

FirstTimesInOrder(D) ==
  \A i \in DOMAIN log_stream, tx \in heard :
    D < tx /\ tx < log_stream[i] => \E j \in DOMAIN log_stream : j < i /\ log_stream[j] = tx

(* What was processed has had its events sent.                               *)
AllSent(D) ==
  \A tx \in heard :
    tx <= D => \A m \in 1..ledger[tx].events : \E i \in 1..Len(sent) : sent[i] = <<tx, m>>

DoneUpTo(D) ==
  /\ NothingBeyond(D)
  /\ Remembered(D)
  /\ AllSent(D)
  /\ Recent(D)
  /\ NoneLost(D)
  /\ FirstTimesInOrder(D)

IInv ==
  /\ TypeOK
  /\ AgeOrdered
  /\ SentInOrder
  /\ CachedMeansSent
  /\ pc \notin Ended => \E D \in Nat : DoneUpTo(D)

-----------------------------------------------------------------------------
LEMMA Numbers ==
  /\ MaxEventsPerTx \in Nat /\ RepeatWindow \in Nat /\ MaxAttempts \in Nat
  /\ CacheCapacity \in Nat \ {0} /\ ChannelCapacity \in Nat \ {0}
  /\ RepeatWindow < CacheCapacity
  BY LogAssumption, WindowAssumption

LEMMA FcnIsSeq ==
  ASSUME NEW S, NEW n \in Nat, NEW f \in [1..n -> S]
  PROVE  f \in Seq(S) /\ Len(f) = n /\ DOMAIN f = 1..n
  OBVIOUS

LEMMA TransactionType ==
  ASSUME NEW t \in Transaction
  PROVE  t.events \in 0..MaxEventsPerTx /\ (t.err => t.events = 0)
<1>1. CASE t \in [err: {FALSE}, events: 0..MaxEventsPerTx]
  BY <1>1
<1>2. CASE t = [err |-> TRUE, events |-> 0]
  <2>1. 0 \in 0..MaxEventsPerTx
    BY Numbers
  <2> QED
    BY <1>2, <2>1
<1> QED
  BY <1>1, <1>2 DEF Transaction

(* What the ledger says of a transaction that was heard of.                  *)
LEMMA HeardTx ==
  ASSUME TypeOK, NEW tx \in heard
  PROVE  /\ tx \in Nat \ {0} /\ tx <= notified /\ notified \in Nat
         /\ tx \in 1..Len(ledger) /\ Len(ledger) \in Nat
         /\ ledger[tx] \in Transaction
         /\ ledger[tx].events \in 0..MaxEventsPerTx
         /\ ledger[tx].err => ledger[tx].events = 0
<1>1. Len(ledger) \in Nat /\ notified \in 0..Len(ledger) /\ tx \in 1..notified
  BY LenProperties DEF TypeOK
<1>2. tx \in 1..Len(ledger)
  BY <1>1
<1>3. ledger[tx] \in Transaction
  BY <1>2, ElementOfSeq DEF TypeOK
<1>4. ledger[tx].events \in 0..MaxEventsPerTx /\ (ledger[tx].err => ledger[tx].events = 0)
  BY <1>3, TransactionType
<1> QED
  BY <1>1, <1>2, <1>3, <1>4

(* insert() of a transaction younger than all in the cache; what it evicts   *)
(* is by then at least CacheCapacity - 1 positions older.                    *)
LEMMA InsertYoungest ==
  ASSUME TypeOK, AgeOrdered, NEW tx \in heard, \A e \in cache.entries : e < tx
  PROVE  LET c == insert(cache, tx, CacheCapacity)
         IN /\ c.entries \subseteq cache.entries \cup {tx}
            /\ c.age \in Seq(heard)
            /\ Len(c.age) < CacheCapacity
            /\ \A x : x \in c.entries <=> \E i \in DOMAIN c.age : c.age[i] = x
            /\ \A i, j \in DOMAIN c.age : i <= j => c.age[i] + (j - i) <= c.age[j]
            /\ \A x \in cache.entries \cup {tx} :
                 x \in c.entries \/ x + CacheCapacity <= tx + 1
<1> DEFINE n == Len(cache.age)
           a == Append(cache.age, tx)
           entries == cache.entries \cup {tx}
           c == insert(cache, tx, CacheCapacity)
<1>0. CacheCapacity \in Nat \ {0} /\ tx \in Nat /\ \A e \in heard : e \in Nat
  BY Numbers, HeardTx
<1>1. cache.age \in Seq(heard) /\ n \in Nat /\ DOMAIN cache.age = 1..n /\ n < CacheCapacity
  BY LenProperties DEF TypeOK, AgeOrdered
<1>2. a \in Seq(heard) /\ Len(a) = n + 1 /\ DOMAIN a = 1..(n + 1)
      /\ (\A i \in 1..n : a[i] = cache.age[i]) /\ a[n + 1] = tx /\ a # <<>>
  BY <1>1, AppendProperties, LenProperties
<1> HIDE DEF a, n, c
<1>3. \A i \in 1..(n + 1) : a[i] \in Nat
  BY <1>0, <1>2, ElementOfSeq
<1>4. \A x : x \in entries <=> \E i \in 1..(n + 1) : a[i] = x
  <2>1. \A x : x \in cache.entries <=> \E i \in 1..n : cache.age[i] = x
    BY <1>1 DEF AgeOrdered
  <2> QED
    BY <1>1, <1>2, <2>1
<1>5. \A i, j \in 1..(n + 1) : i <= j => a[i] + (j - i) <= a[j]
  <2> SUFFICES ASSUME NEW i \in 1..(n + 1), NEW j \in 1..(n + 1), i <= j
               PROVE  a[i] + (j - i) <= a[j]
    OBVIOUS
  <2>1. CASE j \in 1..n
    <3>1. i \in 1..n
      BY <1>1, <2>1
    <3> QED
      BY <1>1, <1>2, <2>1, <3>1 DEF AgeOrdered
  <2>2. CASE j = n + 1 /\ i = n + 1
    BY <1>1, <1>3, <2>2
  <2>3. CASE j = n + 1 /\ i \in 1..n
    <3>1. n \in 1..n /\ i <= n
      BY <1>1, <2>3
    <3>2. cache.age[i] + (n - i) <= cache.age[n]
      BY <1>1, <2>3, <3>1 DEF AgeOrdered
    <3>3. cache.age[n] < tx
      <4>1. cache.age[n] \in cache.entries
        BY <1>1, <3>1 DEF AgeOrdered
      <4> QED
        BY <4>1
    <3>4. cache.age[i] \in Nat /\ cache.age[n] \in Nat
      BY <1>2, <1>3, <2>3, <3>1
    <3> QED
      BY <1>0, <1>1, <1>2, <2>3, <3>1, <3>2, <3>3, <3>4
  <2> QED
    BY <1>1, <2>1, <2>2, <2>3
<1>6. CASE Len(a) >= CacheCapacity
  <2>1. n + 1 = CacheCapacity
    BY <1>0, <1>1, <1>2, <1>6
  <2>2. c = [entries |-> entries \ {Head(a)}, age |-> Tail(a)]
    BY <1>6 DEF c, a, insert
  <2>3. Head(a) = a[1] /\ Tail(a) \in Seq(heard) /\ Len(Tail(a)) = n /\ DOMAIN Tail(a) = 1..n
        /\ \A i \in 1..n : Tail(a)[i] = a[i + 1]
    <3>1. Head(a) = a[1] /\ Tail(a) \in Seq(heard) /\ Len(Tail(a)) = Len(a) - 1
          /\ \A i \in 1..Len(Tail(a)) : Tail(a)[i] = a[i + 1]
      BY <1>2, HeadTailProperties
    <3>2. Len(Tail(a)) = n
      BY <1>1, <1>2, <3>1
    <3>3. DOMAIN Tail(a) = 1..n
      BY <3>1, <3>2, LenProperties
    <3> QED
      BY <3>1, <3>2, <3>3
  <2>4. \A i \in 2..(n + 1) : a[i] # a[1]
    <3> SUFFICES ASSUME NEW i \in 2..(n + 1) PROVE a[i] # a[1]
      OBVIOUS
    <3>1. i \in 1..(n + 1) /\ 1 \in 1..(n + 1) /\ 1 <= i /\ i - 1 >= 1 /\ i - 1 \in Nat
      BY <1>1
    <3>2. a[1] + (i - 1) <= a[i]
      BY <1>5, <3>1
    <3>3. a[1] \in Nat /\ a[i] \in Nat
      BY <1>3, <3>1
    <3> QED
      BY <3>1, <3>2, <3>3
  <2>5. \A x : x \in c.entries <=> \E i \in DOMAIN c.age : c.age[i] = x
    <3> SUFFICES ASSUME NEW x
                 PROVE  x \in entries \ {a[1]} <=> \E i \in 1..n : Tail(a)[i] = x
      BY <2>2, <2>3
    <3>1. ASSUME x \in entries, x # a[1] PROVE \E i \in 1..n : Tail(a)[i] = x
      <4>1. PICK i \in 1..(n + 1) : a[i] = x
        BY <1>4, <3>1
      <4>2. i - 1 \in 1..n /\ (i - 1) + 1 = i
        BY <1>1, <3>1, <4>1
      <4> QED
        BY <2>3, <4>1, <4>2
    <3>2. ASSUME NEW i \in 1..n, Tail(a)[i] = x PROVE x \in entries /\ x # a[1]
      <4>1. i + 1 \in 2..(n + 1) /\ i + 1 \in 1..(n + 1)
        BY <1>1
      <4> QED
        BY <1>4, <2>3, <2>4, <3>2, <4>1
    <3> QED
      BY <3>1, <3>2
  <2>6. \A i, j \in 1..n : i <= j => Tail(a)[i] + (j - i) <= Tail(a)[j]
    <3> SUFFICES ASSUME NEW i \in 1..n, NEW j \in 1..n, i <= j
                 PROVE  Tail(a)[i] + (j - i) <= Tail(a)[j]
      OBVIOUS
    <3>1. i + 1 \in 1..(n + 1) /\ j + 1 \in 1..(n + 1) /\ i + 1 <= j + 1 /\ (j + 1) - (i + 1) = j - i
      BY <1>1
    <3>2. a[i + 1] + ((j + 1) - (i + 1)) <= a[j + 1]
      BY <1>5, <3>1
    <3> QED
      BY <2>3, <3>1, <3>2
  <2>7. a[1] + CacheCapacity <= tx + 1
    <3>1. 1 \in 1..(n + 1) /\ n + 1 \in 1..(n + 1) /\ 1 <= n + 1 /\ (n + 1) - 1 = n
      BY <1>1
    <3>2. a[1] + n <= tx
      BY <1>2, <1>5, <3>1
    <3>3. a[1] \in Nat
      BY <1>3, <3>1
    <3> QED
      BY <1>0, <1>1, <2>1, <3>2, <3>3
  <2>8. n < CacheCapacity
    BY <1>1
  <2>9. c.entries = entries \ {a[1]} /\ c.age = Tail(a)
    BY <2>2, <2>3
  <2>10. \A x \in entries : x \in c.entries \/ x + CacheCapacity <= tx + 1
    BY <2>7, <2>9
  <2>11. \A i, j \in DOMAIN c.age : i <= j => c.age[i] + (j - i) <= c.age[j]
    BY <2>3, <2>6, <2>9
  <2>12. c.age \in Seq(heard) /\ Len(c.age) < CacheCapacity /\ c.entries \subseteq entries
    BY <2>3, <2>8, <2>9
  <2> QED
    BY <2>5, <2>10, <2>11, <2>12 DEF c
<1>7. CASE ~(Len(a) >= CacheCapacity)
  <2>1. c = [entries |-> entries, age |-> a]
    BY <1>7 DEF c, a, insert
  <2>2. n + 1 < CacheCapacity
    BY <1>0, <1>1, <1>2, <1>7
  <2>3. c.entries = entries /\ c.age = a
    BY <2>1
  <2>4. \A i, j \in DOMAIN c.age : i <= j => c.age[i] + (j - i) <= c.age[j]
    BY <1>2, <1>5, <2>3
  <2>5. c.age \in Seq(heard) /\ Len(c.age) < CacheCapacity
    BY <1>2, <2>2, <2>3
  <2>6. \A x : x \in c.entries <=> \E i \in DOMAIN c.age : c.age[i] = x
    BY <1>2, <1>4, <2>3
  <2> QED
    BY <2>3, <2>4, <2>5, <2>6 DEF c
<1> QED
  BY <1>6, <1>7

LEMMA SeqOfMore ==
  ASSUME NEW S, NEW T, S \subseteq T, NEW s \in Seq(S)
  PROVE  s \in Seq(T)
<1>1. Len(s) \in Nat /\ DOMAIN s = 1..Len(s) /\ \A i \in 1..Len(s) : s[i] \in S
  BY LenProperties, ElementOfSeq
<1>2. s \in [1..Len(s) -> T]
  <2>1. s = [i \in 1..Len(s) |-> s[i]]
    BY <1>1
  <2> QED
    BY <1>1, <2>1
<1> QED
  BY <1>1, <1>2, FcnIsSeq

(* What sending k events of a transaction makes of the history.              *)
LEMMA SendMore ==
  ASSUME TypeOK, SentInOrder, NEW tx \in heard, NEW k \in 0..MaxEventsPerTx,
         \A i \in DOMAIN sent : sent[i][1] < tx,
         sent' = sent \o EventsOf(tx, k), heard' = heard
  PROVE  /\ sent' \in Seq(heard' \X (1..MaxEventsPerTx))
         /\ SentInOrder'
         /\ \A e : (\E i \in 1..Len(sent') : sent'[i] = e)
                     <=> \/ \E i \in 1..Len(sent) : sent[i] = e
                         \/ \E m \in 1..k : e = <<tx, m>>
         /\ \A i \in DOMAIN sent' : sent'[i][1] <= tx
<1> DEFINE E == heard \X (1..MaxEventsPerTx)
           s == sent'
           t == EventsOf(tx, k)
           n == Len(sent)
<1>0. tx \in Nat /\ (\A x \in heard : x \in Nat) /\ MaxEventsPerTx \in Nat /\ k \in Nat
  BY Numbers, HeardTx
<1>1. sent \in Seq(E) /\ n \in Nat /\ DOMAIN sent = 1..n
  BY LenProperties DEF TypeOK
<1>2. t \in Seq(E) /\ Len(t) = k /\ \A m \in 1..k : t[m] = <<tx, m>>
  <2>1. t \in [1..k -> E]
    <3>1. \A m \in 1..k : m \in 1..MaxEventsPerTx
      BY <1>0
    <3> QED
      BY <3>1 DEF EventsOf
  <2> QED
    BY <1>0, <2>1, FcnIsSeq DEF EventsOf
<1>3. s \in Seq(E) /\ Len(s) = n + k /\ DOMAIN s = 1..(n + k)
  <2>1. s \in Seq(E) /\ Len(s) = n + Len(t)
    BY <1>1, <1>2, ConcatProperties
  <2> QED
    BY <1>2, <2>1, LenProperties
<1>4. \A i \in 1..n : s[i] = sent[i] /\ i \in 1..(n + k)
  <2>1. \A i \in 1..(n + k) : s[i] = IF i <= n THEN sent[i] ELSE t[i - n]
    BY <1>1, <1>2, ConcatProperties
  <2> QED
    BY <1>0, <1>1, <2>1
<1>5. \A i \in (n + 1)..(n + k) : s[i] = <<tx, i - n>> /\ i \in 1..(n + k) /\ i - n \in 1..k
  <2>1. \A i \in 1..(n + k) : s[i] = IF i <= n THEN sent[i] ELSE t[i - n]
    BY <1>1, <1>2, ConcatProperties
  <2> SUFFICES ASSUME NEW i \in (n + 1)..(n + k)
               PROVE  s[i] = <<tx, i - n>> /\ i \in 1..(n + k) /\ i - n \in 1..k
    OBVIOUS
  <2>2. i \in 1..(n + k) /\ i - n \in 1..k /\ ~(i <= n)
    BY <1>0, <1>1
  <2>3. t[i - n] = <<tx, i - n>>
    BY <1>2, <2>2
  <2> QED
    BY <2>1, <2>2, <2>3
<1>6. \A i \in 1..n : sent[i] \in E /\ sent[i][1] < tx /\ sent[i][1] \in Nat
  <2> SUFFICES ASSUME NEW i \in 1..n
               PROVE  sent[i] \in E /\ sent[i][1] < tx /\ sent[i][1] \in Nat
    OBVIOUS
  <2>1. sent[i] \in E
    BY <1>1, ElementOfSeq
  <2>2. sent[i][1] \in heard
    BY <2>1
  <2> QED
    BY <1>0, <1>1, <2>1, <2>2
<1> HIDE DEF s, t, n
<1>7. \A i \in 1..(n + k) : i \in 1..n \/ i \in (n + 1)..(n + k)
  BY <1>0, <1>1
<1>8. \A i, j \in 1..(n + k) : i < j =>
        s[i][1] < s[j][1] \/ (s[i][1] = s[j][1] /\ s[i][2] < s[j][2])
  <2> SUFFICES ASSUME NEW i \in 1..(n + k), NEW j \in 1..(n + k), i < j
               PROVE  s[i][1] < s[j][1] \/ (s[i][1] = s[j][1] /\ s[i][2] < s[j][2])
    OBVIOUS
  <2>1. CASE j \in 1..n
    <3>1. i \in 1..n
      BY <1>0, <1>1, <2>1
    <3>2. s[i] = sent[i] /\ s[j] = sent[j]
      BY <1>4, <2>1, <3>1
    <3> QED
      BY <2>1, <3>1, <3>2 DEF SentInOrder, n
  <2>2. CASE i \in 1..n /\ j \in (n + 1)..(n + k)
    <3>1. s[i] = sent[i] /\ s[j] = <<tx, j - n>> /\ sent[i][1] < tx
      BY <1>4, <1>5, <1>6, <2>2
    <3> QED
      BY <3>1
  <2>3. CASE i \in (n + 1)..(n + k) /\ j \in (n + 1)..(n + k)
    <3>1. s[i] = <<tx, i - n>> /\ s[j] = <<tx, j - n>>
      BY <1>5, <2>3
    <3>2. i - n < j - n
      BY <1>0, <1>1, <2>3
    <3> QED
      BY <3>1, <3>2
  <2> QED
    BY <1>7, <2>1, <2>2, <2>3
<1>9. ASSUME NEW e
      PROVE  (\E i \in 1..(n + k) : s[i] = e)
               <=> (\E i \in 1..n : sent[i] = e) \/ (\E m \in 1..k : e = <<tx, m>>)
  <2>1. ASSUME NEW i \in 1..(n + k), s[i] = e
        PROVE  (\E j \in 1..n : sent[j] = e) \/ (\E m \in 1..k : e = <<tx, m>>)
    BY <1>4, <1>5, <1>7, <2>1
  <2>2. ASSUME NEW i \in 1..n, sent[i] = e PROVE \E j \in 1..(n + k) : s[j] = e
    BY <1>4, <2>2
  <2>3. ASSUME NEW m \in 1..k, e = <<tx, m>> PROVE \E j \in 1..(n + k) : s[j] = e
    <3>1. n + m \in (n + 1)..(n + k) /\ (n + m) - n = m
      BY <1>0, <1>1
    <3>2. s[n + m] = e /\ n + m \in 1..(n + k)
      BY <1>5, <2>3, <3>1
    <3> QED
      BY <3>2
  <2> QED
    BY <2>1, <2>2, <2>3
<1>10. \A i \in 1..(n + k) : s[i][1] <= tx
  <2> SUFFICES ASSUME NEW i \in 1..(n + k) PROVE s[i][1] <= tx
    OBVIOUS
  <2>1. CASE i \in 1..n
    <3>1. s[i] = sent[i] /\ sent[i][1] < tx /\ sent[i][1] \in Nat
      BY <1>4, <1>6, <2>1
    <3> QED
      BY <1>0, <3>1
  <2>2. CASE i \in (n + 1)..(n + k)
    BY <1>0, <1>5, <2>2
  <2> QED
    BY <1>7, <2>1, <2>2
<1>11. SentInOrder'
  BY <1>3, <1>8 DEF SentInOrder, s
<1>12. \A e : (\E i \in 1..Len(sent') : sent'[i] = e)
                <=> \/ \E i \in 1..Len(sent) : sent[i] = e
                    \/ \E m \in 1..k : e = <<tx, m>>
  BY <1>3, <1>9 DEF s, n
<1>13. \A i \in DOMAIN sent' : sent'[i][1] <= tx
  BY <1>3, <1>10 DEF s
<1>14. sent' \in Seq(heard' \X (1..MaxEventsPerTx))
  BY <1>3 DEF s
<1> QED
  BY <1>11, <1>12, <1>13, <1>14

LEMMA SendNothing ==
  ASSUME NEW tx, TypeOK
  PROVE  sent \o EventsOf(tx, 0) = sent
<1>1. EventsOf(tx, 0) = << >>
  <2>1. 1..0 = {}
    OBVIOUS
  <2> QED
    BY <2>1, EmptySeq DEF EventsOf
<1> QED
  BY <1>1, ConcatEmptySeq DEF TypeOK

(* Taking the first notification off moves D to it if it lies beyond: there  *)
(* is none heard of in between.                                              *)
LEMMA TailKeeps ==
  ASSUME TypeOK, NEW D \in Nat, DoneUpTo(D), log_stream # <<>>,
         NEW E \in Nat, E = IF Head(log_stream) > D THEN Head(log_stream) ELSE D,
         log_stream' = Tail(log_stream), heard' = heard
  PROVE  /\ Recent(E)' /\ NoneLost(E)' /\ FirstTimesInOrder(E)'
         /\ log_stream' \in Seq(heard')
         /\ \A x \in heard : x <= E => x <= D \/ x = Head(log_stream)
<1> DEFINE tx == Head(log_stream)
           n == Len(log_stream)
<1>1. log_stream \in Seq(heard) /\ n \in Nat \ {0} /\ DOMAIN log_stream = 1..n
      /\ tx = log_stream[1] /\ tx \in heard /\ 1 \in 1..n
  <2>1. log_stream \in Seq(heard) /\ n \in Nat /\ DOMAIN log_stream = 1..n
    BY LenProperties DEF TypeOK
  <2>2. tx = log_stream[1] /\ n # 0
    BY <2>1, HeadTailProperties, EmptySeq
  <2>3. 1 \in 1..n
    BY <2>1, <2>2
  <2> QED
    BY <2>1, <2>2, <2>3, ElementOfSeq
<1>2. log_stream' \in Seq(heard) /\ DOMAIN log_stream' = 1..(n - 1)
      /\ \A i \in 1..(n - 1) : log_stream'[i] = log_stream[i + 1]
  <2>1. Tail(log_stream) \in Seq(heard) /\ Len(Tail(log_stream)) = n - 1
        /\ \A i \in 1..Len(Tail(log_stream)) : Tail(log_stream)[i] = log_stream[i + 1]
    BY <1>1, HeadTailProperties
  <2> QED
    BY <2>1, LenProperties
<1>3. tx \in Nat /\ (\A x \in heard : x \in Nat) /\ (\A i \in 1..n : log_stream[i] \in heard)
  BY <1>1, HeardTx, ElementOfSeq
<1>4. tx <= E /\ D <= E /\ (E = tx \/ E = D)
  BY <1>3
<1> HIDE DEF tx, n
<1>5. \A i \in 1..(n - 1) : i + 1 \in 1..n /\ i \in Nat /\ 1 < i + 1
  BY <1>1
<1>6. Recent(E)'
  <2>1. \A i \in 1..(n - 1) : log_stream[i + 1] + RepeatWindow > E
    <3> SUFFICES ASSUME NEW i \in 1..(n - 1) PROVE log_stream[i + 1] + RepeatWindow > E
      OBVIOUS
    <3>1. i + 1 \in 1..n /\ 1 < i + 1
      BY <1>5
    <3>2. log_stream[i + 1] + RepeatWindow > D /\ log_stream[i + 1] + RepeatWindow > log_stream[1]
      BY <1>1, <3>1 DEF DoneUpTo, Recent
    <3> QED
      BY <1>1, <1>4, <3>2
  <2>2. \A i \in 1..(n - 1), j \in 1..(n - 1) : j < i => log_stream[i + 1] + RepeatWindow > log_stream[j + 1]
    <3> SUFFICES ASSUME NEW i \in 1..(n - 1), NEW j \in 1..(n - 1), j < i
                 PROVE  log_stream[i + 1] + RepeatWindow > log_stream[j + 1]
      OBVIOUS
    <3>1. i + 1 \in 1..n /\ j + 1 \in 1..n /\ j + 1 < i + 1
      BY <1>5
    <3> QED
      BY <1>1, <3>1 DEF DoneUpTo, Recent
  <2> QED
    BY <1>2, <2>1, <2>2 DEF Recent
<1>7. ASSUME NEW x \in heard, x > E, NEW b \in Nat,
             \E j \in 1..n : j <= b /\ log_stream[j] = x
      PROVE  \E j \in 1..(n - 1) : j < b /\ log_stream[j + 1] = x
  <2>1. PICK j \in 1..n : j <= b /\ log_stream[j] = x
    BY <1>7
  <2>2. j # 1
    BY <1>1, <1>3, <1>4, <1>7, <2>1
  <2>3. j - 1 \in 1..(n - 1) /\ j - 1 < b /\ (j - 1) + 1 = j
    BY <1>1, <2>1, <2>2
  <2> QED
    BY <2>1, <2>3
<1>8. NoneLost(E)'
  <2> SUFFICES ASSUME NEW x \in heard, x > E
               PROVE  \E j \in 1..(n - 1) : log_stream[j + 1] = x
    BY <1>2 DEF NoneLost
  <2>1. \E j \in 1..n : log_stream[j] = x
    <3>1. x > D
      BY <1>3, <1>4
    <3> QED
      BY <1>1, <3>1 DEF DoneUpTo, NoneLost
  <2>2. \E j \in 1..n : j <= n /\ log_stream[j] = x
    BY <1>1, <2>1
  <2>3. n \in Nat
    BY <1>1
  <2>4. \E j \in 1..(n - 1) : j < n /\ log_stream[j + 1] = x
    BY <1>7, <2>2, <2>3
  <2> QED
    BY <2>4
<1>9. FirstTimesInOrder(E)'
  <2> SUFFICES ASSUME NEW i \in 1..(n - 1), NEW x \in heard, E < x, x < log_stream[i + 1]
               PROVE  \E j \in 1..(n - 1) : j < i /\ log_stream[j + 1] = x
    <3> SUFFICES ASSUME NEW i \in DOMAIN log_stream', NEW x \in heard, E < x, x < log_stream'[i]
                 PROVE  \E j \in DOMAIN log_stream' : j < i /\ log_stream'[j] = x
      BY DEF FirstTimesInOrder
    <3>1. i \in 1..(n - 1) /\ x < log_stream[i + 1]
      BY <1>2
    <3>2. PICK j \in 1..(n - 1) : j < i /\ log_stream[j + 1] = x
      BY <3>1
    <3> QED
      BY <1>2, <3>2
  <2>1. i + 1 \in 1..n /\ i \in Nat
    BY <1>5
  <2>2. D < x
    BY <1>3, <1>4
  <2>3. \E j \in 1..n : j < i + 1 /\ log_stream[j] = x
    BY <1>1, <2>1, <2>2 DEF DoneUpTo, FirstTimesInOrder
  <2>4. \E j \in 1..n : j <= i /\ log_stream[j] = x
    BY <1>1, <2>1, <2>3
  <2>5. x > E
    BY <1>3
  <2> QED
    BY <1>7, <2>1, <2>4, <2>5
<1>10. \A x \in heard : x <= E => x <= D \/ x = tx
  <2> SUFFICES ASSUME NEW x \in heard, x <= E, ~(x <= D), x # tx PROVE FALSE
    OBVIOUS
  <2>1. D < x /\ x < log_stream[1]
    BY <1>1, <1>3, <1>4
  <2>2. \E j \in 1..n : j < 1 /\ log_stream[j] = x
    BY <1>1, <2>1 DEF DoneUpTo, FirstTimesInOrder
  <2> QED
    BY <1>1, <2>2
<1> QED
  BY <1>2, <1>6, <1>8, <1>9, <1>10 DEF tx

-----------------------------------------------------------------------------
(* The steps that neither notify nor process: the ledger may grow, the node  *)
(* skip what landed unheard, the task change its state or end.               *)
LEMMA OtherSteps ==
  ASSUME IInv, TypeOK', UNCHANGED <<heard, cache, sent>>,
         \A x \in heard : ledger'[x] = ledger[x],
         notified <= notified',
         pc' \notin Ended => pc \notin Ended /\ log_stream' = log_stream,
         pc = "panicked" => pc' = "panicked"
  PROVE  IInv'
<1>1. AgeOrdered' /\ SentInOrder'
  BY DEF IInv, AgeOrdered, SentInOrder
<1>2. CachedMeansSent'
  <2> SUFFICES ASSUME pc' # "panicked", NEW x \in cache.entries
               PROVE  {k \in 1..MaxEventsPerTx : \E i \in 1..Len(sent) : sent[i] = <<x, k>>}
                        = 1..ledger'[x].events
    BY DEF CachedMeansSent
  <2>1. x \in heard
    BY DEF IInv, TypeOK
  <2> QED
    BY <2>1 DEF IInv, CachedMeansSent
<1>3. ASSUME pc' \notin Ended PROVE \E D \in Nat : DoneUpTo(D)'
  <2>1. PICK D \in Nat : DoneUpTo(D)
    BY <1>3 DEF IInv
  <2>2. notified \in Nat /\ notified' \in Nat
    BY LenProperties DEF IInv, TypeOK
  <2>3. NothingBeyond(D)'
    BY <2>1, <2>2 DEF DoneUpTo, NothingBeyond
  <2>4. Remembered(D)'
    BY <2>1 DEF DoneUpTo, Remembered
  <2>5. Recent(D)' /\ NoneLost(D)' /\ FirstTimesInOrder(D)'
    BY <1>3, <2>1 DEF DoneUpTo, Recent, NoneLost, FirstTimesInOrder
  <2>6. AllSent(D)'
    BY <2>1 DEF DoneUpTo, AllSent
  <2> QED
    BY <2>3, <2>4, <2>5, <2>6 DEF DoneUpTo
<1> QED
  BY <1>1, <1>2, <1>3 DEF IInv

LEMMA NotifyStep ==
  ASSUME IInv, Notify
  PROVE  IInv'
<1> DEFINE n == Len(log_stream)
<1>1. PICK tx \in heard \cup {notified + 1} :
        /\ tx <= Len(ledger) /\ tx + RepeatWindow > notified
        /\ log_stream' = Append(log_stream, tx)
        /\ heard' = heard \cup {tx}
        /\ notified' = IF tx > notified THEN tx ELSE notified
  BY DEF Notify
<1>2. UNCHANGED <<ledger, open, pc, self_provider, retry_policy, attempts, cache, queued, sent>>
      /\ pc = "streaming"
  BY DEF Notify, retry_vars, event_vars
<1>3. TypeOK /\ log_stream \in Seq(heard) /\ n \in Nat /\ DOMAIN log_stream = 1..n
      /\ Len(ledger) \in Nat /\ notified \in Nat /\ notified <= Len(ledger)
      /\ (\A x \in heard : x \in Nat /\ x >= 1 /\ x <= notified)
      /\ (\A i \in 1..n : log_stream[i] \in heard)
  <2>1. TypeOK /\ log_stream \in Seq(heard) /\ n \in Nat /\ DOMAIN log_stream = 1..n
        /\ Len(ledger) \in Nat /\ notified \in 0..Len(ledger) /\ heard \subseteq 1..notified
    BY LenProperties DEF IInv, TypeOK
  <2> QED
    BY <2>1, ElementOfSeq
<1>4. tx \in Nat /\ tx >= 1 /\ tx <= notified + 1 /\ notified' \in Nat /\ notified <= notified'
      /\ tx <= notified' /\ notified' <= Len(ledger) /\ RepeatWindow \in Nat
      /\ (tx \notin heard => tx = notified + 1)
  BY <1>1, <1>3, Numbers
<1>5. log_stream' \in Seq(heard') /\ DOMAIN log_stream' = 1..(n + 1)
      /\ (\A i \in 1..n : log_stream'[i] = log_stream[i]) /\ log_stream'[n + 1] = tx
  <2>1. log_stream \in Seq(heard')
    BY <1>1, <1>3, SeqOfMore
  <2>2. log_stream' \in Seq(heard') /\ Len(log_stream') = n + 1
        /\ (\A i \in 1..n : log_stream'[i] = log_stream[i]) /\ log_stream'[n + 1] = tx
    BY <1>1, <2>1, AppendProperties
  <2> QED
    BY <2>2, LenProperties
<1> HIDE DEF n
<1>6. TypeOK'
  <2>1. heard' \subseteq 1..notified'
    BY <1>1, <1>3, <1>4
  <2>2. notified' \in 0..Len(ledger')
    BY <1>2, <1>3, <1>4
  <2>3. heard \subseteq heard' /\ cache'.age \in Seq(heard') /\ cache'.entries \subseteq heard'
    BY <1>1, <1>2, <1>3, SeqOfMore DEF TypeOK
  <2>4. sent' \in Seq(heard' \X (1..MaxEventsPerTx))
    <3>1. heard \X (1..MaxEventsPerTx) \subseteq heard' \X (1..MaxEventsPerTx)
      BY <2>3
    <3> QED
      BY <1>2, <1>3, <3>1, SeqOfMore DEF TypeOK
  <2> QED
    BY <1>2, <1>3, <1>5, <2>1, <2>2, <2>3, <2>4 DEF TypeOK
<1>7. AgeOrdered' /\ SentInOrder' /\ CachedMeansSent'
  BY <1>2 DEF IInv, AgeOrdered, SentInOrder, CachedMeansSent
<1>8. PICK D \in Nat : DoneUpTo(D)
  BY <1>2 DEF IInv, Ended
<1>9. D <= notified
  BY <1>3, <1>8 DEF DoneUpTo, NothingBeyond
<1>10. NothingBeyond(D)'
  BY <1>2, <1>3, <1>4, <1>8, <1>9 DEF DoneUpTo, NothingBeyond
<1>11. Remembered(D)'
  <2> SUFFICES ASSUME NEW x \in heard', x <= D
               PROVE  ledger[x].err \/ x \in cache.entries \/ x + CacheCapacity <= D + 1
    BY <1>2 DEF Remembered
  <2>1. x \in heard
    BY <1>1, <1>3, <1>4, <1>9
  <2> QED
    BY <1>8, <2>1 DEF DoneUpTo, Remembered
<1>12. \A i \in 1..(n + 1) : i \in 1..n \/ i = n + 1
  BY <1>3
<1>13. Recent(D)'
  <2> SUFFICES ASSUME NEW i \in 1..(n + 1)
               PROVE  /\ log_stream'[i] + RepeatWindow > D
                      /\ \A j \in 1..(n + 1) : j < i => log_stream'[i] + RepeatWindow > log_stream'[j]
    BY <1>5 DEF Recent
  <2>1. \A j \in 1..(n + 1) : j < i => j \in 1..n
    BY <1>3
  <2>2. CASE i \in 1..n
    <3>1. /\ log_stream[i] + RepeatWindow > D
          /\ \A j \in 1..n : j < i => log_stream[i] + RepeatWindow > log_stream[j]
      BY <1>3, <1>8, <2>2 DEF DoneUpTo, Recent
    <3> QED
      BY <1>5, <2>1, <2>2, <3>1
  <2>3. CASE i = n + 1
    <3>1. tx + RepeatWindow > D
      BY <1>1, <1>3, <1>4, <1>9
    <3>2. ASSUME NEW j \in 1..n PROVE tx + RepeatWindow > log_stream[j]
      <4>1. log_stream[j] \in Nat /\ log_stream[j] <= notified
        BY <1>3
      <4> QED
        BY <1>1, <1>3, <1>4, <4>1
    <3> QED
      BY <1>5, <2>1, <2>3, <3>1, <3>2
  <2> QED
    BY <1>12, <2>2, <2>3
<1>14. \A x \in heard : x > D => \E j \in 1..n : log_stream[j] = x
  BY <1>3, <1>8 DEF DoneUpTo, NoneLost
<1>15. n + 1 \in 1..(n + 1) /\ \A j \in 1..n : j \in 1..(n + 1) /\ j < n + 1
  BY <1>3
<1>16. NoneLost(D)'
  <2> SUFFICES ASSUME NEW x \in heard', x > D
               PROVE  \E j \in 1..(n + 1) : log_stream'[j] = x
    BY <1>5 DEF NoneLost
  <2>1. CASE x = tx
    BY <1>5, <1>15, <2>1
  <2>2. CASE x \in heard
    BY <1>5, <1>14, <1>15, <2>2
  <2> QED
    BY <1>1, <2>1, <2>2
<1>17. FirstTimesInOrder(D)'
  <2> SUFFICES ASSUME NEW i \in 1..(n + 1), NEW x \in heard', D < x, x < log_stream'[i]
               PROVE  \E j \in 1..(n + 1) : j < i /\ log_stream'[j] = x
    BY <1>5 DEF FirstTimesInOrder
  <2>1. x \in heard
    <3>1. CASE i \in 1..n
      <4>1. log_stream[i] <= notified /\ log_stream'[i] = log_stream[i] /\ log_stream[i] \in Nat
        BY <1>3, <1>5, <3>1
      <4> QED
        BY <1>1, <1>3, <1>4, <4>1
    <3>2. CASE i = n + 1
      BY <1>1, <1>3, <1>4, <1>5, <3>2
    <3> QED
      BY <1>12, <3>1, <3>2
  <2>2. CASE i \in 1..n
    <3>1. \E j \in 1..n : j < i /\ log_stream[j] = x
      BY <1>3, <1>5, <1>8, <2>1, <2>2 DEF DoneUpTo, FirstTimesInOrder
    <3> QED
      BY <1>5, <1>15, <3>1
  <2>3. CASE i = n + 1
    <3>1. x > D
      BY <1>3, <2>1
    <3>2. PICK j \in 1..n : log_stream[j] = x
      BY <1>14, <2>1, <3>1
    <3> QED
      BY <1>5, <1>15, <2>3, <3>2
  <2> QED
    BY <1>12, <2>2, <2>3
<1>18. AllSent(D)'
  <2> SUFFICES ASSUME NEW x \in heard', x <= D
               PROVE  \A m \in 1..ledger[x].events : \E i \in 1..Len(sent) : sent[i] = <<x, m>>
    BY <1>2 DEF AllSent
  <2>1. x \in heard
    BY <1>1, <1>3, <1>4, <1>9
  <2> QED
    BY <1>8, <2>1 DEF DoneUpTo, AllSent
<1>19. DoneUpTo(D)'
  BY <1>10, <1>11, <1>13, <1>16, <1>17, <1>18 DEF DoneUpTo
<1> QED
  BY <1>6, <1>7, <1>19 DEF IInv

(* A repetition is skipped, and nothing else: what lies at or behind D has   *)
(* failed or is in the cache still.                                          *)
LEMMA RepetitionSkipped ==
  ASSUME TypeOK, NEW D \in Nat, DoneUpTo(D), log_stream # <<>>
  PROVE  LET tx == Head(log_stream)
         IN /\ tx \in heard
            /\ tx <= D => ledger[tx].err \/ contains(cache, tx)
            /\ contains(cache, tx) => tx <= D
<1> DEFINE tx == Head(log_stream)
<1>1. tx \in heard /\ tx = log_stream[1] /\ 1 \in DOMAIN log_stream
  <2>1. log_stream \in Seq(heard) /\ DOMAIN log_stream = 1..Len(log_stream)
        /\ tx = log_stream[1] /\ Len(log_stream) \in Nat \ {0}
    BY HeadTailProperties, LenProperties, EmptySeq DEF TypeOK
  <2>2. 1 \in 1..Len(log_stream)
    BY <2>1
  <2> QED
    BY <2>1, <2>2, ElementOfSeq
<1>2. tx \in Nat /\ RepeatWindow \in Nat /\ CacheCapacity \in Nat /\ RepeatWindow < CacheCapacity
  BY <1>1, HeardTx, Numbers
<1>3. ASSUME tx <= D, ~ledger[tx].err, tx \notin cache.entries PROVE FALSE
  <2>1. tx + CacheCapacity <= D + 1
    BY <1>1, <1>3 DEF DoneUpTo, Remembered
  <2>2. tx + RepeatWindow > D
    BY <1>1 DEF DoneUpTo, Recent
  <2> QED
    BY <1>2, <2>1, <2>2
<1>4. tx \in cache.entries => tx <= D
  BY DEF DoneUpTo, NothingBeyond
<1> QED
  BY <1>1, <1>3, <1>4 DEF contains

LEMMA ProcessLogStep ==
  ASSUME IInv, ProcessLog
  PROVE  IInv'
<1> DEFINE tx == Head(log_stream)
           skip == ledger[tx].err \/ contains(cache, tx)
           n == IF skip THEN 0 ELSE ledger[tx].events
           k == room_for(n)
<1>1. /\ pc = "streaming" /\ log_stream # <<>>
      /\ cache' = IF skip THEN cache ELSE insert(cache, tx, CacheCapacity)
      /\ sent' = sent \o EventsOf(tx, k)
      /\ queued' = queued + k
      /\ log_stream' = IF k < n THEN <<>> ELSE Tail(log_stream)
      /\ pc' = IF k < n THEN "panicked" ELSE "streaming"
      /\ UNCHANGED <<ledger, notified, heard, open, self_provider, retry_policy, attempts>>
  BY DEF ProcessLog, process_log, retry_vars
<1>2. TypeOK /\ AgeOrdered /\ SentInOrder /\ CachedMeansSent
  BY DEF IInv
<1>3. PICK D \in Nat : DoneUpTo(D)
  BY <1>1 DEF IInv, Ended
<1>4. tx \in heard /\ (tx <= D => skip) /\ (contains(cache, tx) => tx <= D)
  BY <1>1, <1>2, <1>3, RepetitionSkipped
<1>5. tx \in Nat /\ tx <= notified /\ notified \in Nat /\ ledger[tx].events \in 0..MaxEventsPerTx
      /\ (\A x \in heard : x \in Nat)
  BY <1>2, <1>4, HeardTx
<1>6. n \in 0..MaxEventsPerTx /\ MaxEventsPerTx \in Nat
  BY <1>5, Numbers
<1>7. queued \in 0..ChannelCapacity /\ ChannelCapacity \in Nat
  BY <1>2, Numbers DEF TypeOK
<1>8. k \in 0..MaxEventsPerTx /\ k <= n /\ queued + k \in 0..ChannelCapacity
  <2> HIDE DEF n
  <2> QED
    BY <1>6, <1>7 DEF room_for
<1>9. ~(k < n) => k = n
  BY <1>6, <1>8
<1>10. PICK E \in Nat : E = IF tx > D THEN tx ELSE D
  BY <1>5
<1>11. E \in 0..notified /\ D <= E /\ tx <= E /\ (tx > D => E = tx) /\ D \in 0..notified
  BY <1>3, <1>5, <1>10 DEF DoneUpTo, NothingBeyond
<1>12. ~(k < n) => /\ Recent(E)' /\ NoneLost(E)' /\ FirstTimesInOrder(E)'
                   /\ log_stream' \in Seq(heard')
                   /\ \A x \in heard : x <= E => x <= D \/ x = tx
  BY <1>1, <1>2, <1>3, <1>10, TailKeeps
<1>13. log_stream' \in Seq(heard')
  BY <1>1, <1>12, EmptySeq
<1>14. pc' \in {"run", "streaming", "check"} \cup Ended
  BY <1>1 DEF Ended
<1>15. CASE skip
  <2>1. k = 0 /\ n = 0
    BY <1>6, <1>8, <1>15
  <2>2. sent' = sent /\ cache' = cache /\ pc' = "streaming" /\ queued' \in 0..ChannelCapacity
    BY <1>1, <1>2, <1>8, <1>15, <2>1, SendNothing
  <2>3. TypeOK'
    BY <1>1, <1>2, <1>13, <1>14, <2>2 DEF TypeOK
  <2>4. AgeOrdered' /\ SentInOrder' /\ CachedMeansSent'
    <3>1. UNCHANGED <<cache, sent, ledger, pc>>
      BY <1>1, <2>2
    <3> QED
      BY <1>2, <3>1 DEF AgeOrdered, SentInOrder, CachedMeansSent
  <2>5. NothingBeyond(E)'
    <3>1. \A i \in DOMAIN sent : sent[i][1] <= E
      <4> SUFFICES ASSUME NEW i \in DOMAIN sent PROVE sent[i][1] <= E
        OBVIOUS
      <4>1. sent[i][1] <= D
        BY <1>3 DEF DoneUpTo, NothingBeyond
      <4>2. sent[i][1] \in heard
        BY <1>2, LenProperties, ElementOfSeq DEF TypeOK
      <4> QED
        BY <1>5, <1>11, <4>1, <4>2
    <3>2. \A x \in cache.entries : x <= E
      <4> SUFFICES ASSUME NEW x \in cache.entries PROVE x <= E
        OBVIOUS
      <4>1. x <= D /\ x \in heard
        BY <1>2, <1>3 DEF DoneUpTo, NothingBeyond, TypeOK
      <4> QED
        BY <1>5, <1>11, <4>1
    <3> QED
      BY <1>1, <1>11, <2>2, <3>1, <3>2 DEF NothingBeyond
  <2>6. Remembered(E)'
    <3> SUFFICES ASSUME NEW x \in heard, x <= E
                 PROVE  ledger[x].err \/ x \in cache.entries \/ x + CacheCapacity <= E + 1
      BY <1>1, <2>2 DEF Remembered
    <3>1. CASE x <= D
      <4>1. ledger[x].err \/ x \in cache.entries \/ x + CacheCapacity <= D + 1
        BY <1>3, <3>1 DEF DoneUpTo, Remembered
      <4>2. x + CacheCapacity <= D + 1 => x + CacheCapacity <= E + 1
        BY <1>5, <1>11, Numbers
      <4> QED
        BY <4>1, <4>2
    <3>2. CASE x = tx
      BY <1>15, <3>2 DEF contains
    <3> QED
      BY <1>12, <2>1, <3>1, <3>2
  <2>7. AllSent(E)'
    <3> SUFFICES ASSUME NEW x \in heard, x <= E
                 PROVE  \A m \in 1..ledger[x].events : \E i \in 1..Len(sent) : sent[i] = <<x, m>>
      BY <1>1, <2>2 DEF AllSent
    <3>1. CASE x <= D
      BY <1>3, <3>1 DEF DoneUpTo, AllSent
    <3>2. CASE ~(x <= D)
      <4>1. x = tx
        BY <1>12, <2>1, <3>2
      <4>2. ledger[x].err
        BY <1>4, <1>15, <3>2, <4>1
      <4>3. ledger[x].events = 0
        BY <1>2, <4>2, HeardTx
      <4> QED
        BY <4>3
    <3> QED
      BY <3>1, <3>2
  <2> QED
    BY <1>12, <2>1, <2>3, <2>4, <2>5, <2>6, <2>7 DEF IInv, DoneUpTo
<1>16. CASE ~skip
  <2> DEFINE c == insert(cache, tx, CacheCapacity)
  <2>1. tx > D /\ E = tx /\ n = ledger[tx].events
    BY <1>4, <1>5, <1>11, <1>16
  <2>2. (\A x \in cache.entries : x < tx) /\ (\A i \in DOMAIN sent : sent[i][1] < tx)
    <3>1. \A x \in cache.entries : x <= D /\ x \in Nat
      BY <1>2, <1>3, <1>5 DEF DoneUpTo, NothingBeyond, TypeOK
    <3>2. ASSUME NEW i \in DOMAIN sent PROVE sent[i][1] <= D /\ sent[i][1] \in Nat
      <4>1. sent[i][1] <= D
        BY <1>3 DEF DoneUpTo, NothingBeyond
      <4>2. sent[i][1] \in heard
        BY <1>2, LenProperties, ElementOfSeq DEF TypeOK
      <4> QED
        BY <1>5, <4>1, <4>2
    <3>3. \A x \in Nat : x <= D => x < tx
      BY <1>5, <2>1
    <3> QED
      BY <3>1, <3>2, <3>3
  <2>3. cache' = c
    BY <1>1, <1>16
  <2>4. /\ c.entries \subseteq cache.entries \cup {tx}
        /\ c.age \in Seq(heard)
        /\ Len(c.age) < CacheCapacity
        /\ \A x : x \in c.entries <=> \E i \in DOMAIN c.age : c.age[i] = x
        /\ \A i, j \in DOMAIN c.age : i <= j => c.age[i] + (j - i) <= c.age[j]
        /\ \A x \in cache.entries \cup {tx} : x \in c.entries \/ x + CacheCapacity <= tx + 1
    BY <1>2, <1>4, <2>2, InsertYoungest
  <2> HIDE DEF c
  <2>5. /\ sent' \in Seq(heard' \X (1..MaxEventsPerTx))
        /\ SentInOrder'
        /\ \A e : (\E i \in 1..Len(sent') : sent'[i] = e)
                    <=> \/ \E i \in 1..Len(sent) : sent[i] = e
                        \/ \E m \in 1..k : e = <<tx, m>>
        /\ \A i \in DOMAIN sent' : sent'[i][1] <= tx
    <3> HIDE DEF k, tx
    <3> QED
      BY <1>1, <1>2, <1>4, <1>8, <2>2, SendMore
  <2> HIDE DEF n, k
  <2>6. TypeOK'
    <3>1. cache'.entries \subseteq heard' /\ cache'.age \in Seq(heard')
      BY <1>1, <1>2, <1>4, <2>3, <2>4 DEF TypeOK
    <3>2. queued' \in 0..ChannelCapacity
      BY <1>1, <1>8
    <3> QED
      BY <1>1, <1>2, <1>13, <1>14, <2>5, <3>1, <3>2 DEF TypeOK
  <2>7. AgeOrdered'
    BY <2>3, <2>4 DEF AgeOrdered
  <2>8. CachedMeansSent'
    <3> SUFFICES ASSUME pc' # "panicked", NEW x \in c.entries
                 PROVE  {m \in 1..MaxEventsPerTx : \E i \in 1..Len(sent') : sent'[i] = <<x, m>>}
                          = 1..ledger[x].events
      BY <1>1, <2>3 DEF CachedMeansSent
    <3>1. k = n
      BY <1>1, <1>9
    <3>2. CASE x = tx
      <4>1. \A m : ~ \E i \in 1..Len(sent) : sent[i] = <<tx, m>>
        <5> SUFFICES ASSUME NEW m, NEW i \in 1..Len(sent), sent[i] = <<tx, m>> PROVE FALSE
          OBVIOUS
        <5>1. sent[i][1] = tx /\ i \in DOMAIN sent
          BY <1>2, LenProperties DEF TypeOK
        <5> QED
          BY <1>5, <2>2, <5>1
      <4>2. \A m : (\E i \in 1..Len(sent') : sent'[i] = <<tx, m>>) <=> m \in 1..k
        BY <2>5, <4>1
      <4>3. \A m \in 1..k : m \in 1..MaxEventsPerTx
        BY <1>6, <1>8
      <4>4. 1..k = 1..ledger[x].events
        BY <2>1, <3>1, <3>2
      <4> QED
        BY <3>2, <4>2, <4>3, <4>4
    <3>3. CASE x # tx
      <4>1. x \in cache.entries
        BY <2>4, <3>3
      <4>2. {m \in 1..MaxEventsPerTx : \E i \in 1..Len(sent) : sent[i] = <<x, m>>}
              = 1..ledger[x].events
        BY <1>1, <1>2, <4>1 DEF CachedMeansSent
      <4>3. \A m, l : <<x, m>> # <<tx, l>>
        BY <3>3
      <4>4. \A m : (\E i \in 1..Len(sent') : sent'[i] = <<x, m>>)
                     <=> \E i \in 1..Len(sent) : sent[i] = <<x, m>>
        BY <2>5, <4>3
      <4> QED
        BY <4>2, <4>4
    <3> QED
      BY <3>2, <3>3
  <2>9. ASSUME pc' \notin Ended PROVE DoneUpTo(E)'
    <3>1. ~(k < n)
      BY <1>1, <2>9 DEF Ended
    <3>2. NothingBeyond(E)'
      <4>1. \A x \in c.entries : x <= tx
        <5> SUFFICES ASSUME NEW x \in c.entries PROVE x <= tx
          OBVIOUS
        <5>1. x = tx \/ (x \in heard /\ x < tx)
          BY <1>2, <2>2, <2>4 DEF TypeOK
        <5> QED
          BY <1>5, <5>1
      <4> QED
        BY <1>1, <1>11, <2>1, <2>3, <2>5, <4>1 DEF NothingBeyond
    <3>3. Remembered(E)'
      <4> SUFFICES ASSUME NEW x \in heard, x <= tx
                   PROVE  ledger[x].err \/ x \in c.entries \/ x + CacheCapacity <= tx + 1
        BY <1>1, <2>1, <2>3 DEF Remembered
      <4>1. CASE x = tx
        BY <2>4, <4>1
      <4>2. CASE x <= D
        <5>1. ledger[x].err \/ x \in cache.entries \/ x + CacheCapacity <= D + 1
          BY <1>3, <4>2 DEF DoneUpTo, Remembered
        <5>2. x + CacheCapacity <= D + 1 => x + CacheCapacity <= tx + 1
          BY <1>5, <2>1, Numbers
        <5> QED
          BY <2>4, <5>1, <5>2
      <4> QED
        BY <1>12, <2>1, <3>1, <4>1, <4>2
    <3>4. AllSent(E)'
      <4> SUFFICES ASSUME NEW x \in heard, x <= tx, NEW m \in 1..ledger[x].events
                   PROVE  \E i \in 1..Len(sent') : sent'[i] = <<x, m>>
        BY <1>1, <2>1 DEF AllSent
      <4>1. CASE x = tx
        <5>1. m \in 1..k
          BY <1>9, <2>1, <3>1, <4>1
        <5> QED
          BY <2>5, <4>1, <5>1
      <4>2. CASE x <= D
        <5>1. \E i \in 1..Len(sent) : sent[i] = <<x, m>>
          BY <1>3, <4>2 DEF DoneUpTo, AllSent
        <5> QED
          BY <2>5, <5>1
      <4> QED
        BY <1>12, <2>1, <3>1, <4>1, <4>2
    <3> QED
      BY <1>12, <3>1, <3>2, <3>3, <3>4 DEF DoneUpTo
  <2> QED
    BY <2>5, <2>6, <2>7, <2>8, <2>9 DEF IInv
<1> QED
  BY <1>15, <1>16

-----------------------------------------------------------------------------
LEMMA Start == Init => IInv
<1> SUFFICES ASSUME Init PROVE IInv
  OBVIOUS
<1>1. Len(ledger) = 0 /\ Len(sent) = 0 /\ Len(cache.age) = 0 /\ Len(log_stream) = 0
      /\ heard = {} /\ notified = 0 /\ cache.entries = {} /\ pc = "run"
      /\ cache.age = <<>> /\ log_stream = <<>> /\ sent = <<>>
  BY EmptySeq DEF Init, new_cache
<1>2. DOMAIN sent = {} /\ DOMAIN log_stream = {} /\ DOMAIN cache.age = {}
  BY <1>1, EmptySeq, LenProperties
<1>3. TypeOK
  BY <1>1, EmptySeq, Numbers DEF Init, TypeOK
<1>4. AgeOrdered
  BY <1>1, <1>2, Numbers DEF AgeOrdered
<1>5. SentInOrder /\ CachedMeansSent
  BY <1>1 DEF SentInOrder, CachedMeansSent
<1>6. DoneUpTo(0)
  BY <1>1, <1>2
     DEF DoneUpTo, NothingBeyond, Remembered, AllSent, Recent, NoneLost, FirstTimesInOrder
<1> QED
  BY <1>3, <1>4, <1>5, <1>6 DEF IInv

LEMMA Step == IInv /\ [Next]_vars => IInv'
<1> SUFFICES ASSUME IInv, [Next]_vars PROVE IInv'
  OBVIOUS
<1> USE DEF node_vars, retry_vars, event_vars
<1>0. TypeOK /\ Len(ledger) \in Nat /\ notified \in Nat /\ MaxAttempts \in Nat /\ notified <= Len(ledger)
  <2>1. TypeOK /\ Len(ledger) \in Nat /\ notified \in 0..Len(ledger)
    BY LenProperties DEF IInv, TypeOK
  <2> QED
    BY <2>1, Numbers
<1>1. CASE Land
  <2>1. PICK tx \in Transaction : ledger' = Append(ledger, tx)
    BY <1>1 DEF Land
  <2>2. UNCHANGED <<notified, heard, log_stream, open, pc, self_provider, retry_policy, attempts,
                    cache, queued, sent>>
    BY <1>1 DEF Land
  <2>3. ledger' \in Seq(Transaction) /\ Len(ledger') = Len(ledger) + 1
        /\ \A i \in 1..Len(ledger) : ledger'[i] = ledger[i]
    BY <1>0, <2>1, AppendProperties DEF TypeOK
  <2>4. notified' \in 0..Len(ledger')
    BY <1>0, <2>2, <2>3
  <2>5. TypeOK'
    BY <1>0, <2>2, <2>3, <2>4 DEF TypeOK
  <2>6. \A x \in heard : ledger'[x] = ledger[x]
    BY <1>0, <2>3, HeardTx
  <2>7. notified <= notified'
    BY <1>0, <2>2
  <2> QED
    BY <2>2, <2>5, <2>6, <2>7, OtherSteps
<1>2. CASE Notify
  BY <1>2, NotifyStep
<1>3. CASE ConnectionCloses
  <2>1. TypeOK'
    BY <1>0, <1>3 DEF ConnectionCloses, TypeOK
  <2> QED
    BY <1>0, <1>3, <2>1, OtherSteps DEF ConnectionCloses
<1>4. CASE Subscribe
  <2>1. notified' \in notified..Len(ledger) /\ pc = "run" /\ pc' = "streaming"
        /\ UNCHANGED <<ledger, heard, log_stream, open, self_provider, retry_policy, attempts,
                       cache, queued, sent>>
    BY <1>4 DEF Subscribe
  <2>2. notified' \in 0..Len(ledger') /\ notified <= notified' /\ heard' \subseteq 1..notified'
    BY <1>0, <2>1 DEF TypeOK
  <2>3. TypeOK'
    BY <1>0, <2>1, <2>2 DEF TypeOK
  <2> QED
    BY <2>1, <2>2, <2>3, OtherSteps DEF Ended
<1>5. CASE SubscribeFails
  <2>1. TypeOK'
    BY <1>0, <1>5 DEF SubscribeFails, TypeOK
  <2> QED
    BY <1>0, <1>5, <2>1, OtherSteps DEF SubscribeFails, Ended
<1>6. CASE Reconnect
  <2>1. TypeOK'
    BY <1>0, <1>6 DEF Reconnect, TypeOK
  <2> QED
    BY <1>0, <1>6, <2>1, OtherSteps DEF Reconnect, Ended
<1>7. CASE ProcessLog
  BY <1>7, ProcessLogStep
<1>8. CASE StreamEnds
  <2>1. TypeOK'
    BY <1>0, <1>8 DEF StreamEnds, TypeOK
  <2> QED
    BY <1>0, <1>8, <2>1, OtherSteps DEF StreamEnds, Ended
<1>9. CASE Retry
  <2>1. attempts' \in 0..(MaxAttempts + 1)
    BY <1>0, <1>9 DEF Retry, TypeOK
  <2>2. TypeOK'
    BY <1>0, <1>9, <2>1 DEF Retry, TypeOK
  <2> QED
    BY <1>0, <1>9, <2>2, OtherSteps DEF Retry, Ended
<1>10. CASE RetryLimit
  <2>1. TypeOK'
    BY <1>0, <1>10 DEF RetryLimit, TypeOK, Ended
  <2> QED
    BY <1>0, <1>10, <2>1, OtherSteps DEF RetryLimit, Ended
<1>11. CASE Receive
  <2>1. queued' \in 0..ChannelCapacity
    BY <1>0, <1>11, Numbers DEF Receive, TypeOK
  <2>2. TypeOK'
    BY <1>0, <1>11, <2>1 DEF Receive, TypeOK
  <2> QED
    BY <1>0, <1>11, <2>2, OtherSteps DEF Receive
<1>12. CASE Unsubscribe
  <2>1. TypeOK'
    BY <1>0, <1>12, EmptySeq DEF Unsubscribe, TypeOK, Ended
  <2> QED
    BY <1>0, <1>12, <2>1, OtherSteps DEF Unsubscribe, Ended
<1>13. CASE UNCHANGED vars
  <2>1. TypeOK'
    BY <1>0, <1>13 DEF vars, TypeOK
  <2> QED
    BY <1>0, <1>13, <2>1, OtherSteps DEF vars
<1> QED
  BY <1>1, <1>2, <1>3, <1>4, <1>5, <1>6, <1>7, <1>8, <1>9, <1>10, <1>11, <1>12, <1>13 DEF Next

LEMMA Invariant == Spec => []IInv
  BY Start, Step, PTL DEF Spec

(* The task, its cache and its channel keep their types: what was cached,    *)
(* waits or was sent was notified, and the channel stays within its bound.   *)
THEOREM TypeCorrect == Spec => []TypeOK
<1>1. IInv => TypeOK
  BY DEF IInv
<1> QED
  BY <1>1, Invariant, PTL

(* Every event is sent in ledger order and none twice, whatever the node     *)
(* repeats within its window and however often the task is run again.        *)
THEOREM InOrder == Spec => []SentInOrder
<1>1. IInv => SentInOrder
  BY DEF IInv
<1> QED
  BY <1>1, Invariant, PTL

(* Unless the full channel ended the task, a cached transaction has had      *)
(* exactly its events sent: skipping it again loses none.                    *)
THEOREM CachedSent == Spec => []CachedMeansSent
<1>1. IInv => CachedMeansSent
  BY DEF IInv
<1> QED
  BY <1>1, Invariant, PTL

-----------------------------------------------------------------------------
(* The ledger as the abstract stream sees it.                                *)
events_of == [i \in 1..Len(ledger) |-> ledger[i].events]

(* The notification to process next, when it is no repetition, is the first  *)
(* transaction that has events to hand over.                                 *)
LEMMA NextIsDue ==
  ASSUME IInv, pc = "streaming", log_stream # <<>>,
         LET tx == Head(log_stream)
         IN ~ledger[tx].err /\ ~contains(cache, tx) /\ ledger[tx].events > 0
  PROVE  Head(log_stream) \in Abs!due /\ Abs!due \subseteq heard
<1> DEFINE tx == Head(log_stream)
<1>1. TypeOK /\ ~ledger[tx].err /\ ~contains(cache, tx) /\ ledger[tx].events > 0
  BY DEF IInv
<1>2. PICK D \in Nat : DoneUpTo(D)
  BY DEF IInv, Ended
<1>3. tx \in heard /\ ~(tx <= D)
  BY <1>1, <1>2, RepetitionSkipped
<1>4. \A x \in heard : x \in Nat /\ x \in 1..Len(ledger) /\ ledger[x].events \in Nat
  BY <1>1, HeardTx, Numbers
<1>5. \A x \in heard : events_of[x] = ledger[x].events
  BY <1>4 DEF events_of
<1>6. \A i \in DOMAIN sent : sent[i][1] < tx
  <2> SUFFICES ASSUME NEW i \in DOMAIN sent PROVE sent[i][1] < tx
    OBVIOUS
  <2>1. sent[i][1] <= D
    BY <1>2 DEF DoneUpTo, NothingBeyond
  <2>2. sent[i][1] \in heard
    BY <1>1, LenProperties, ElementOfSeq DEF TypeOK
  <2> QED
    BY <1>3, <1>4, <2>1, <2>2
<1>7. log_stream[1] = tx /\ 1 \in DOMAIN log_stream /\ DOMAIN log_stream \subseteq Nat \ {0}
  <2>1. log_stream \in Seq(heard) /\ DOMAIN log_stream = 1..Len(log_stream)
        /\ tx = log_stream[1] /\ Len(log_stream) \in Nat \ {0}
    BY <1>1, HeadTailProperties, LenProperties, EmptySeq DEF TypeOK
  <2> QED
    BY <2>1
<1> HIDE DEF tx
<1>8. ASSUME NEW x \in heard, ledger[x].events > 0, \A i \in DOMAIN sent : sent[i][1] < x
      PROVE  tx <= x
  <2> SUFFICES ASSUME x < tx PROVE FALSE
    BY <1>3, <1>4
  <2>1. CASE x <= D
    <3>1. 1 \in 1..ledger[x].events
      BY <1>4, <1>8
    <3>2. PICK i \in 1..Len(sent) : sent[i] = <<x, 1>>
      BY <1>2, <2>1, <3>1 DEF DoneUpTo, AllSent
    <3>3. sent[i][1] = x /\ i \in DOMAIN sent
      BY <1>1, <3>2, LenProperties DEF TypeOK
    <3> QED
      BY <1>4, <1>8, <3>3
  <2>2. CASE D < x
    <3>1. \E j \in DOMAIN log_stream : j < 1 /\ log_stream[j] = x
      BY <1>2, <1>7, <2>2 DEF DoneUpTo, FirstTimesInOrder
    <3> QED
      BY <1>7, <3>1
  <2> QED
    BY <1>4, <2>1, <2>2
<1>9. Abs!ahead = {x \in heard : events_of[x] > 0 /\ \A i \in DOMAIN sent : sent[i][1] < x}
  BY DEF Abs!ahead, events_of
<1>10. tx \in Abs!ahead /\ \A x \in Abs!ahead : tx <= x
  BY <1>1, <1>3, <1>5, <1>6, <1>8, <1>9 DEF tx
<1> QED
  BY <1>9, <1>10 DEF Abs!due, tx

(* Every step of the log stream is a step of the abstract stream, or none.   *)
LEMMA StepDelivers == IInv /\ [Next]_vars => [Abs!Next]_(Abs!vars)
<1> SUFFICES ASSUME IInv, [Next]_vars PROVE [Abs!Next]_(Abs!vars)
  OBVIOUS
<1>0. TypeOK /\ Len(ledger) \in Nat
  BY LenProperties DEF IInv, TypeOK
<1>1. CASE Land
  <2>1. PICK tx \in Transaction : ledger' = Append(ledger, tx)
    BY <1>1 DEF Land
  <2>2. UNCHANGED <<heard, sent, pc>>
    BY <1>1 DEF Land, event_vars
  <2>3. tx.events \in 0..MaxEventsPerTx
    BY TransactionType
  <2>4. events_of' = Append(events_of, tx.events)
    <3>1. Len(ledger') = Len(ledger) + 1 /\ ledger'[Len(ledger) + 1] = tx
          /\ \A i \in 1..Len(ledger) : ledger'[i] = ledger[i]
      BY <1>0, <2>1, AppendProperties DEF TypeOK
    <3>2. Len(events_of) = Len(ledger)
      BY <1>0 DEF events_of
    <3> QED
      BY <1>0, <3>1, <3>2 DEF events_of
  <2> QED
    BY <2>2, <2>3, <2>4 DEF Abs!Next, Abs!Land, events_of
<1>2. CASE Notify
  <2>1. PICK tx \in heard \cup {notified + 1} : tx <= Len(ledger) /\ heard' = heard \cup {tx}
    BY <1>2 DEF Notify
  <2>2. UNCHANGED <<ledger, pc, sent>> /\ pc = "streaming"
    BY <1>2 DEF Notify, event_vars
  <2>3. CASE tx \in heard
    BY <2>1, <2>2, <2>3 DEF Abs!vars
  <2>4. CASE tx = notified + 1
    <3>1. tx \in 1..Len(ledger) /\ \A other \in heard : other < tx
      BY <1>0, <2>1, <2>4 DEF TypeOK
    <3>2. Len(events_of) = Len(ledger)
      BY <1>0 DEF events_of
    <3>3. Abs!Hear
      BY <2>1, <2>2, <3>1, <3>2 DEF Abs!Hear, events_of, Ended
    <3> QED
      BY <3>3 DEF Abs!Next
  <2> QED
    BY <2>1, <2>3, <2>4
<1>3. CASE ConnectionCloses
  BY <1>3 DEF ConnectionCloses, Abs!vars, node_vars, event_vars
<1>4. CASE Subscribe
  BY <1>4 DEF Subscribe, Abs!vars, node_vars, event_vars, Ended
<1>5. CASE SubscribeFails
  BY <1>5 DEF SubscribeFails, Abs!vars, node_vars, event_vars, Ended
<1>6. CASE Reconnect
  BY <1>6 DEF Reconnect, Abs!vars, node_vars, event_vars, Ended
<1>7. CASE ProcessLog
  <2> DEFINE tx == Head(log_stream)
             skip == ledger[tx].err \/ contains(cache, tx)
             n == IF skip THEN 0 ELSE ledger[tx].events
             k == room_for(n)
  <2>1. /\ pc = "streaming" /\ log_stream # <<>>
        /\ sent' = sent \o EventsOf(tx, k)
        /\ pc' = IF k < n THEN "panicked" ELSE "streaming"
        /\ UNCHANGED <<ledger, heard>>
    BY <1>7 DEF ProcessLog, process_log
  <2>2. tx \in heard
    <3>1. PICK D \in Nat : DoneUpTo(D)
      BY <2>1 DEF IInv, Ended
    <3> QED
      BY <1>0, <2>1, <3>1, RepetitionSkipped
  <2>3. n \in Nat /\ ledger[tx].events \in Nat /\ tx \in 1..Len(ledger)
    BY <1>0, <2>2, HeardTx, Numbers
  <2>4. k \in 0..n
    <3>1. queued \in 0..ChannelCapacity /\ ChannelCapacity \in Nat
      BY <1>0, Numbers DEF TypeOK
    <3> HIDE DEF n
    <3> QED
      BY <2>3, <3>1 DEF room_for
  <2>5. CASE n = 0
    <3>1. k = 0
      BY <2>4, <2>5
    <3>2. sent' = sent /\ pc' = "streaming"
      BY <1>0, <2>1, <2>5, <3>1, SendNothing
    <3> QED
      BY <2>1, <3>2 DEF Abs!vars, Ended
  <2>6. CASE n # 0
    <3>1. ~skip /\ n = ledger[tx].events /\ ledger[tx].events > 0
      BY <2>3, <2>6
    <3>2. tx \in Abs!due
      BY <2>1, <3>1, NextIsDue
    <3>3. events_of[tx] = n
      BY <2>3, <3>1 DEF events_of
    <3>4. sent' = sent \o Abs!EventsOf(tx, k)
      BY <2>1 DEF EventsOf, Abs!EventsOf
    <3> HIDE DEF n, k, tx
    <3>5. CASE k < n
      <4>1. k \in 0..(events_of[tx] - 1)
        BY <2>3, <2>4, <3>3, <3>5
      <4>2. Abs!End
        BY <2>1, <3>2, <3>4, <3>5, <4>1 DEF Abs!End, events_of, Ended
      <4> QED
        BY <4>2 DEF Abs!Next
    <3>6. CASE ~(k < n)
      <4>1. k = events_of[tx] /\ pc' = "streaming"
        BY <2>1, <2>3, <2>4, <3>3, <3>6
      <4>2. Abs!Deliver
        BY <2>1, <3>2, <3>4, <4>1 DEF Abs!Deliver, events_of, Ended
      <4> QED
        BY <4>2 DEF Abs!Next
    <3> QED
      BY <3>5, <3>6
  <2> QED
    BY <2>5, <2>6
<1>8. CASE StreamEnds
  BY <1>8 DEF StreamEnds, Abs!vars, node_vars, event_vars, Ended
<1>9. CASE Retry
  BY <1>9 DEF Retry, Abs!vars, node_vars, event_vars, Ended
<1>10. CASE RetryLimit
  BY <1>10 DEF RetryLimit, Abs!Next, Abs!End, node_vars, event_vars, Ended
<1>11. CASE Receive
  BY <1>11 DEF Receive, Abs!vars, node_vars
<1>12. CASE Unsubscribe
  BY <1>12 DEF Unsubscribe, Abs!Next, Abs!End, event_vars, Ended
<1>13. CASE UNCHANGED vars
  BY <1>13 DEF vars, Abs!vars
<1> QED
  BY <1>1, <1>2, <1>3, <1>4, <1>5, <1>6, <1>7, <1>8, <1>9, <1>10, <1>11, <1>12, <1>13 DEF Next

(* The log stream implements LogDelivery: whatever the node repeats within   *)
(* its window and however often the task is run again, the events of every   *)
(* transaction it is notified of are sent once and in ledger order, until    *)
(* the task ends.                                                            *)
THEOREM LogDelivers == Spec => DeliversNotified
<1>1. Init => Abs!Init
  <2> SUFFICES ASSUME Init PROVE Abs!Init
    OBVIOUS
  <2>1. events_of = <<>>
    BY EmptySeq DEF Init, events_of
  <2> QED
    BY <2>1 DEF Init, Abs!Init, events_of, Ended
<1> QED
  BY <1>1, StepDelivers, Invariant, PTL DEF Spec, DeliversNotified, Abs!Spec
=============================================================================
