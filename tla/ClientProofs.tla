----------------------------- MODULE ClientProofs -----------------------------
(***************************************************************************)
(* Proofs about the two parts of the client that face its caller.           *)
(*                                                                         *)
(* AccountCache, for every number of callers and slots: its types, that no  *)
(* channel goes back to older data once an update came, and that            *)
(* overlapping misses make no more channels than there are callers.         *)
(*                                                                         *)
(* The argument: data is named by the slot that wrote it, so it grows along *)
(* the chain; and what a channel holds is the account as of the slot it is  *)
(* marked with.  A write is let through only with a greater slot, so with   *)
(* data at least as new, be it a stream's, marked with the slot that wrote  *)
(* it, or a poll's, marked with the slot it was answered at.                *)
(*                                                                         *)
(* Misses end with the first insert, so each channel was made by a caller   *)
(* that was past its miss by then and is not any more (InsertsLeft).        *)
(*                                                                         *)
(* TransactionBuilder, for all users, markets, keys, oracles and widths of  *)
(* the bitmap, and for calls in any number and order: the accounts of an    *)
(* instruction are exact and sorted, and the instructions are in order.     *)
(*                                                                         *)
(* The argument: after each turn of its loops build_accounts has a sorted   *)
(* list without repetition, and, unless it panicked, the bits of just the   *)
(* markets mentioned so far and the accounts and oracles of one of them for *)
(* each bit (Right), which are those of them all if no two share one.  The  *)
(* markets that are written are all mentioned before any that are read      *)
(* (Fits).  The loops are recursive functions; that they have values at all *)
(* (RunExists) and what they compute is shown by a least counterexample     *)
(* (CountUp).                                                               *)
(***************************************************************************)
EXTENDS AccountCache, TransactionBuilder, TLAPS, FiniteSetTheorems, WellFoundedInduction

(* Along the chain the data gets no older.                                   *)
ChainGrows ==
  \A s \in 1..Len(chain) :
    /\ chain[s].data <= s
    /\ \A t \in s..Len(chain) : chain[s].data <= chain[t].data

(* A channel holds the account as of its slot.                               *)
UpToItsSlot ==
  \A i \in DOMAIN channels :
    /\ channels[i].slot <= Len(chain)
    /\ channels[i].slot # 0 => channels[i].data = chain[channels[i].slot].data

IInv == TypeOK /\ ChainGrows /\ UpToItsSlot

(* What one step may make of a channel.                                      *)
Kept(ch, next) ==
  /\ next \in Channel
  /\ \/ next.slot = ch.slot /\ next.data = ch.data
     \/ /\ next.slot > ch.slot
        /\ next.slot <= Len(chain)
        /\ next.data = chain[next.slot].data

-----------------------------------------------------------------------------
(* Facts about sequences that the steps use.                                 *)
LEMMA SeqElement ==
  ASSUME NEW S, NEW s \in Seq(S)
  PROVE  /\ Len(s) \in Nat
         /\ DOMAIN s = 1..Len(s)
         /\ \A i \in DOMAIN s : s[i] \in S
  OBVIOUS

LEMMA SeqAppend ==
  ASSUME NEW S, NEW s \in Seq(S), NEW e \in S
  PROVE  /\ Append(s, e) \in Seq(S)
         /\ Len(Append(s, e)) = Len(s) + 1
         /\ \A i \in 1..Len(s) : Append(s, e)[i] = s[i]
         /\ Append(s, e)[Len(s) + 1] = e
  OBVIOUS

LEMMA SeqExcept ==
  ASSUME NEW S, NEW s \in Seq(S), NEW i \in DOMAIN s, NEW e \in S
  PROVE  /\ [s EXCEPT ![i] = e] \in Seq(S)
         /\ Len([s EXCEPT ![i] = e]) = Len(s)
         /\ [s EXCEPT ![i] = e][i] = e
         /\ \A j \in DOMAIN s : j # i => [s EXCEPT ![i] = e][j] = s[j]
  OBVIOUS

(* send_if_modified with the account as of a slot keeps a channel.           *)
LEMMA ModifiedKept ==
  ASSUME TypeOK, NEW ch \in Channel, ch.slot <= Len(chain),
         NEW s \in 1..Len(chain)
  PROVE  Kept(ch, Modified(ch, chain[s].data, s))
<1>1. /\ MaxSlot \in Nat /\ Len(chain) \in Nat /\ Len(chain) <= MaxSlot
      /\ chain \in Seq([data: 0..MaxSlot, exists: BOOLEAN])
  BY CacheAssumption, SeqElement DEF TypeOK
<1>2. chain[s] \in [data: 0..MaxSlot, exists: BOOLEAN]
  BY <1>1, SeqElement
<1>3. chain[s].data \in 0..MaxSlot /\ s \in 0..MaxSlot
  BY <1>1, <1>2
<1>4. CASE s > ch.slot
  <2> DEFINE n == [ch EXCEPT !.data = chain[s].data, !.slot = s]
  <2>1. Modified(ch, chain[s].data, s) = n
    BY <1>4 DEF Modified
  <2>2. n.slot = s /\ n.data = chain[s].data
    BY DEF Channel
  <2>3. n \in Channel
    BY <1>3 DEF Channel
  <2> HIDE DEF n
  <2> QED
    BY <1>1, <1>4, <2>1, <2>2, <2>3 DEF Kept
<1>5. CASE ~(s > ch.slot)
  BY <1>5 DEF Modified, Kept, Channel
<1> QED
  BY <1>4, <1>5

-----------------------------------------------------------------------------
(* The steps of a retry task change its own channel alone.                   *)
TaskStep(i) ==
  \/ Connect(i)
  \/ ConnectFails(i)
  \/ StreamUpdate(i)
  \/ StreamEnds(i)
  \/ \E s \in 0..Len(chain) : Poll(i, s)
  \/ Retry(i)

LEMMA TaskStepKeeps ==
  ASSUME IInv, NEW i \in DOMAIN channels, TaskStep(i)
  PROVE  /\ UNCHANGED <<chain, caller_vars>>
         /\ \E next : channels' = [channels EXCEPT ![i] = next] /\ Kept(channels[i], next)
<1> DEFINE ch == channels[i]
<1>0. /\ ch \in Channel /\ ch.slot <= Len(chain) /\ Len(chain) \in Nat
  BY SeqElement DEF IInv, TypeOK, UpToItsSlot
<1>1. UNCHANGED <<chain, caller_vars>>
  BY DEF TaskStep, Connect, ConnectFails, StreamUpdate, StreamEnds, Poll, Retry
<1>2. ASSUME NEW p \in {"connect", "select", "retry", "panicked"}
      PROVE  Kept(ch, [ch EXCEPT !.pc = p])
  BY <1>0 DEF Kept, Channel
<1> HIDE DEF ch
<1>3. CASE Connect(i) \/ ConnectFails(i) \/ StreamEnds(i) \/ Retry(i)
  <2>1. \E p \in {"connect", "select", "retry", "panicked"} :
          channels' = [channels EXCEPT ![i] = [ch EXCEPT !.pc = p]]
    BY <1>3 DEF ch, Connect, ConnectFails, StreamEnds, Retry
  <2> QED
    BY <1>1, <1>2, <2>1 DEF ch
<1>4. CASE StreamUpdate(i)
  <2>1. PICK s \in DOMAIN chain :
          chain[s].data = s /\ channels' = [channels EXCEPT ![i] = Modified(ch, s, s)]
    BY <1>4 DEF ch, StreamUpdate
  <2>2. s \in 1..Len(chain)
    BY SeqElement DEF IInv, TypeOK
  <2>3. Kept(ch, Modified(ch, chain[s].data, s))
    BY <1>0, <2>2, ModifiedKept DEF IInv
  <2> QED
    BY <1>1, <2>1, <2>3 DEF ch
<1>5. CASE \E s \in 0..Len(chain) : Poll(i, s)
  <2>1. PICK s \in 0..Len(chain) : Poll(i, s)
    BY <1>5
  <2>2. channels' = [channels EXCEPT ![i] =
          IF s > ch.slot /\ ~AsOf(s).exists THEN [ch EXCEPT !.pc = "panicked"]
                                            ELSE Modified(ch, AsOf(s).data, s)]
    BY <2>1 DEF ch, Poll
  <2>3. CASE s > ch.slot /\ ~AsOf(s).exists
    BY <1>1, <1>2, <2>2, <2>3 DEF ch
  <2>4. CASE ~(s > ch.slot /\ ~AsOf(s).exists) /\ s # 0
    <3>1. s \in 1..Len(chain) /\ AsOf(s).data = chain[s].data
      BY <1>0, <2>4 DEF AsOf
    <3>2. Kept(ch, Modified(ch, chain[s].data, s))
      BY <1>0, <3>1, ModifiedKept DEF IInv
    <3> QED
      BY <1>1, <2>2, <2>4, <3>1, <3>2 DEF ch
  <2>5. CASE ~(s > ch.slot /\ ~AsOf(s).exists) /\ s = 0
    <3>1. Modified(ch, AsOf(s).data, s) = ch /\ Kept(ch, ch)
      BY <1>0, <2>5 DEF Modified, Kept, Channel
    <3> QED
      BY <1>1, <2>2, <2>5, <3>1 DEF ch
  <2> QED
    BY <2>3, <2>4, <2>5
<1> QED
  BY <1>3, <1>4, <1>5 DEF TaskStep

-----------------------------------------------------------------------------
LEMMA InitInv == Init => IInv
<1> SUFFICES ASSUME Init PROVE IInv
  OBVIOUS
<1>1. TypeOK
  BY CacheAssumption DEF Init, TypeOK
<1>2. Len(chain) = 0 /\ DOMAIN channels = {}
  BY DEF Init
<1> QED
  BY <1>1, <1>2 DEF Init, IInv, ChainGrows, UpToItsSlot

(* A slot that writes or closes the account has newer data, an idle one the  *)
(* same.                                                                     *)
LEMMA SlotInv == IInv /\ Slot => IInv'
<1> SUFFICES ASSUME IInv, Slot PROVE IInv'
  OBVIOUS
<1> DEFINE n == Len(chain)
<1>0. n \in Nat /\ n < MaxSlot /\ MaxSlot \in Nat
      /\ chain \in Seq([data: 0..MaxSlot, exists: BOOLEAN])
  BY CacheAssumption, SeqElement DEF IInv, TypeOK, Slot
<1>a. \A s \in 1..n : chain[s] \in [data: 0..MaxSlot, exists: BOOLEAN]
  BY <1>0, SeqElement
<1>1. PICK e : /\ chain' = Append(chain, e)
               /\ e \in [data: 0..MaxSlot, exists: BOOLEAN]
               /\ e.data <= n + 1
               /\ \A s \in 1..n : chain[s].data <= e.data
  <2>1. CASE \E exists \in BOOLEAN : chain' = Append(chain, [data |-> n + 1, exists |-> exists])
    <3>1. PICK exists \in BOOLEAN : chain' = Append(chain, [data |-> n + 1, exists |-> exists])
      BY <2>1
    <3>2. \A s \in 1..n : chain[s].data <= n + 1
      <4>1. \A s \in 1..n : chain[s].data <= s
        BY DEF IInv, ChainGrows
      <4>2. \A s \in 1..n : chain[s].data \in 0..MaxSlot
        BY <1>a
      <4> QED
        BY <1>0, <4>1, <4>2
    <3> WITNESS [data |-> n + 1, exists |-> exists]
    <3> QED
      BY <1>0, <3>1, <3>2
  <2>2. CASE chain' = Append(chain, AsOf(n))
    <3>1. CASE n = 0
      <4>1. AsOf(n) = [data |-> 0, exists |-> TRUE]
        BY <3>1 DEF AsOf
      <4> DEFINE e == [data |-> 0, exists |-> TRUE]
      <4>2. chain' = Append(chain, e)
        BY <2>2, <4>1
      <4>3. e \in [data: 0..MaxSlot, exists: BOOLEAN] /\ e.data <= n + 1
        BY <1>0
      <4>4. \A s \in 1..n : chain[s].data <= e.data
        BY <3>1
      <4> HIDE DEF e
      <4> QED
        BY <4>2, <4>3, <4>4
    <3>2. CASE n # 0
      <4>1. AsOf(n) = chain[n] /\ n \in 1..n
        BY <1>0, <3>2 DEF AsOf
      <4>2. chain[n] \in [data: 0..MaxSlot, exists: BOOLEAN] /\ chain[n].data <= n
        BY <1>0, <4>1, SeqElement DEF IInv, ChainGrows
      <4>3. \A s \in 1..n : chain[s].data <= chain[n].data
        BY <1>0, <4>1 DEF IInv, ChainGrows
      <4>4. chain[n].data <= n + 1
        BY <1>0, <4>2
      <4> QED
        BY <2>2, <4>1, <4>2, <4>3, <4>4
    <3> QED
      BY <3>1, <3>2
  <2> QED
    BY <2>1, <2>2 DEF Slot
<1>2. /\ chain' \in Seq([data: 0..MaxSlot, exists: BOOLEAN])
      /\ Len(chain') = n + 1
      /\ \A s \in 1..n : chain'[s] = chain[s]
      /\ chain'[n + 1] = e
  BY <1>0, <1>1, SeqAppend
<1>3. UNCHANGED <<channels, cached, pc, fetched>>
  BY DEF Slot, caller_vars
<1> HIDE DEF n
<1>4. TypeOK'
  BY <1>0, <1>2, <1>3 DEF IInv, TypeOK
<1>5. ChainGrows'
  <2>1. \A s \in 1..n : chain[s].data <= s /\ \A t \in s..n : chain[s].data <= chain[t].data
    BY DEF IInv, ChainGrows, n
  <2>2. \A s \in 1..n : chain[s].data \in Nat
    BY <1>0, <1>a
  <2>3. e.data \in Nat
    BY <1>0, <1>1
  <2>4. ASSUME NEW s \in 1..(n + 1) PROVE chain'[s].data <= s
    <3>1. CASE s \in 1..n
      BY <1>2, <2>1, <3>1
    <3>2. CASE s = n + 1
      BY <1>1, <1>2, <3>2
    <3> QED
      BY <1>0, <3>1, <3>2
  <2>5. ASSUME NEW s \in 1..(n + 1), NEW t \in s..(n + 1) PROVE chain'[s].data <= chain'[t].data
    <3>1. CASE t \in s..n
      <4>1. s \in 1..n /\ t \in 1..n
        BY <1>0, <3>1
      <4> QED
        BY <1>2, <2>1, <3>1, <4>1
    <3>2. CASE t = n + 1 /\ s \in 1..n
      BY <1>1, <1>2, <3>2
    <3>3. CASE t = n + 1 /\ s = n + 1
      BY <1>2, <2>3, <3>3
    <3> QED
      BY <1>0, <3>1, <3>2, <3>3
  <2> QED
    BY <1>2, <2>4, <2>5 DEF ChainGrows
<1>6. UpToItsSlot'
  <2>1. ASSUME NEW i \in DOMAIN channels
        PROVE  /\ channels[i].slot <= n + 1
               /\ channels[i].slot # 0 => channels[i].data = chain'[channels[i].slot].data
    <3>0. channels[i] \in Channel
      BY SeqElement DEF IInv, TypeOK
    <3>1. channels[i].slot \in 0..MaxSlot /\ channels[i].slot <= n
      BY <3>0 DEF IInv, UpToItsSlot, Channel, n
    <3>2. CASE channels[i].slot = 0
      BY <1>0, <3>2
    <3>3. CASE channels[i].slot # 0
      <4>1. channels[i].slot \in 1..n
        BY <1>0, <3>1, <3>3
      <4>2. channels[i].data = chain[channels[i].slot].data
        BY <3>3 DEF IInv, UpToItsSlot
      <4> QED
        BY <1>0, <1>2, <4>1, <4>2
    <3> QED
      BY <3>2, <3>3
  <2> QED
    BY <1>2, <1>3, <2>1 DEF UpToItsSlot
<1> QED
  BY <1>4, <1>5, <1>6 DEF IInv

(* get_account_impl changes callers, and may append a channel with slot 0.   *)
CallerStep(c) == Miss(c) \/ FetchFails(c) \/ Fetch(c)

LEMMA CallerInv ==
  ASSUME IInv, NEW c \in Caller, CallerStep(c)
  PROVE  IInv'
<1>1. UNCHANGED <<chain, channels, cached>>
  BY DEF CallerStep, Miss, FetchFails, Fetch
<1>2. pc' \in [Caller -> {"idle", "fetch", "insert"}]
  BY DEF CallerStep, Miss, FetchFails, Fetch, IInv, TypeOK
<1>3. fetched' \in [Caller -> 0..MaxSlot]
  <2>1. CASE Miss(c) \/ FetchFails(c)
    BY <2>1 DEF Miss, FetchFails, IInv, TypeOK
  <2>2. CASE Fetch(c)
    <3>1. PICK s \in 0..Len(chain) : fetched' = [fetched EXCEPT ![c] = AsOf(s).data]
      BY <2>2 DEF Fetch
    <3>2. AsOf(s).data \in 0..MaxSlot
      <4>1. CASE s = 0
        BY <4>1, CacheAssumption DEF AsOf
      <4>2. CASE s # 0
        <5>1. s \in DOMAIN chain
          BY <4>2, SeqElement DEF IInv, TypeOK
        <5>2. chain[s] \in [data: 0..MaxSlot, exists: BOOLEAN]
          BY <5>1, SeqElement DEF IInv, TypeOK
        <5> QED
          BY <4>2, <5>2 DEF AsOf
      <4> QED
        BY <4>1, <4>2
    <3> QED
      BY <3>1, <3>2 DEF IInv, TypeOK
  <2> QED
    BY <2>1, <2>2 DEF CallerStep
<1>4. TypeOK'
  BY <1>1, <1>2, <1>3 DEF IInv, TypeOK
<1> QED
  BY <1>1, <1>4 DEF IInv, ChainGrows, UpToItsSlot

(* What Insert makes of the channels.                                        *)
LEMMA InsertAppends ==
  ASSUME IInv, NEW c \in Caller, Insert(c)
  PROVE  \E ch \in Channel :
           /\ ch.slot = 0
           /\ channels' = Append(channels, ch)
           /\ channels' \in Seq(Channel)
           /\ Len(channels') = Len(channels) + 1
           /\ \A i \in DOMAIN channels : channels'[i] = channels[i]
           /\ channels'[Len(channels) + 1] = ch
<1> DEFINE ch == [data |-> fetched[c], slot |-> 0, pc |-> "connect"]
<1>1. ch \in Channel
  BY CacheAssumption DEF IInv, TypeOK, Channel
<1>2. ch.slot = 0 /\ channels' = Append(channels, ch)
  BY DEF Insert
<1> HIDE DEF ch
<1>3. channels \in Seq(Channel) /\ DOMAIN channels = 1..Len(channels)
  BY SeqElement DEF IInv, TypeOK
<1>4. /\ Append(channels, ch) \in Seq(Channel)
      /\ Len(Append(channels, ch)) = Len(channels) + 1
      /\ \A i \in 1..Len(channels) : Append(channels, ch)[i] = channels[i]
      /\ Append(channels, ch)[Len(channels) + 1] = ch
  BY <1>1, <1>3, SeqAppend
<1> QED
  BY <1>1, <1>2, <1>3, <1>4

LEMMA InsertInv ==
  ASSUME IInv, NEW c \in Caller, Insert(c)
  PROVE  IInv'
<1>1. PICK ch \in Channel :
        /\ ch.slot = 0
        /\ channels' \in Seq(Channel)
        /\ Len(channels') = Len(channels) + 1
        /\ \A i \in DOMAIN channels : channels'[i] = channels[i]
        /\ channels'[Len(channels) + 1] = ch
  BY InsertAppends
<1>2. /\ DOMAIN channels = 1..Len(channels) /\ DOMAIN channels' = 1..Len(channels')
      /\ Len(channels) \in Nat /\ Len(chain) \in Nat
  BY <1>1, SeqElement DEF IInv, TypeOK
<1>3. chain' = chain
  BY DEF Insert
<1>4. TypeOK'
  <2>1. cached' \in 0..Len(channels')
    BY <1>1, <1>2 DEF Insert
  <2>2. pc' \in [Caller -> {"idle", "fetch", "insert"}]
    BY DEF Insert, IInv, TypeOK
  <2>3. fetched' \in [Caller -> 0..MaxSlot]
    BY CacheAssumption DEF Insert, IInv, TypeOK
  <2> QED
    BY <1>1, <1>3, <2>1, <2>2, <2>3 DEF IInv, TypeOK
<1>5. UpToItsSlot'
  <2>1. ASSUME NEW i \in DOMAIN channels'
        PROVE  /\ channels'[i].slot <= Len(chain)
               /\ channels'[i].slot # 0 => channels'[i].data = chain[channels'[i].slot].data
    <3>1. CASE i \in DOMAIN channels
      BY <1>1, <3>1 DEF IInv, UpToItsSlot
    <3>2. CASE i = Len(channels) + 1
      BY <1>1, <1>2, <3>2
    <3> QED
      BY <1>1, <1>2, <3>1, <3>2
  <2> QED
    BY <1>3, <2>1 DEF UpToItsSlot
<1> QED
  BY <1>3, <1>4, <1>5 DEF IInv, ChainGrows

LEMMA TaskInv ==
  ASSUME IInv, NEW i \in DOMAIN channels, TaskStep(i)
  PROVE  IInv'
<1>1. UNCHANGED <<chain, cached, pc, fetched>>
  BY TaskStepKeeps DEF caller_vars
<1>2. PICK next : channels' = [channels EXCEPT ![i] = next] /\ Kept(channels[i], next)
  BY TaskStepKeeps
<1>3. channels \in Seq(Channel) /\ next \in Channel
  BY <1>2 DEF IInv, TypeOK, Kept
<1>4. /\ channels' \in Seq(Channel)
      /\ Len(channels') = Len(channels)
      /\ channels'[i] = next
      /\ \A j \in DOMAIN channels : j # i => channels'[j] = channels[j]
  BY <1>2, <1>3, SeqExcept
<1>5. DOMAIN channels' = DOMAIN channels
  BY <1>3, <1>4, SeqElement
<1>6. TypeOK'
  BY <1>1, <1>4 DEF IInv, TypeOK
<1>7. UpToItsSlot'
  <2>1. ASSUME NEW j \in DOMAIN channels
        PROVE  /\ channels'[j].slot <= Len(chain)
               /\ channels'[j].slot # 0 => channels'[j].data = chain[channels'[j].slot].data
    <3>1. CASE j = i
      BY <1>2, <1>4, <3>1 DEF Kept, IInv, UpToItsSlot
    <3>2. CASE j # i
      BY <1>4, <3>2 DEF IInv, UpToItsSlot
    <3> QED
      BY <3>1, <3>2
  <2> QED
    BY <1>1, <1>5, <2>1 DEF UpToItsSlot
<1> QED
  BY <1>1, <1>6, <1>7 DEF IInv, ChainGrows

LEMMA NextInv == IInv /\ [Next]_vars => IInv'
<1> SUFFICES ASSUME IInv, [Next]_vars PROVE IInv'
  OBVIOUS
<1>1. CASE Slot
  BY <1>1, SlotInv
<1>2. ASSUME NEW c \in Caller, CallerStep(c) PROVE IInv'
  BY <1>2, CallerInv
<1>3. ASSUME NEW c \in Caller, Insert(c) PROVE IInv'
  BY <1>3, InsertInv
<1>4. ASSUME NEW i \in DOMAIN channels, TaskStep(i) PROVE IInv'
  BY <1>4, TaskInv
<1>5. CASE UNCHANGED vars
  BY <1>5 DEF vars, IInv, TypeOK, ChainGrows, UpToItsSlot
<1> QED
  BY <1>1, <1>2, <1>3, <1>4, <1>5 DEF Next, CallerStep, TaskStep

LEMMA InvHolds == Spec => []IInv
<1> QED
  BY InitInv, NextInv, PTL DEF Spec

-----------------------------------------------------------------------------
(* The cache's variables keep their types: cached is 0 or a channel that was *)
(* made, and every channel is the snapshot of some slot (lib.rs:285-304).    *)
THEOREM TypeCorrect == Spec => []TypeOK
<1>1. IInv => TypeOK
  BY DEF IInv
<1> QED
  BY <1>1, InvHolds, PTL

(* A kept channel has data at least as new.                                  *)
LEMMA KeptIsNewer ==
  ASSUME IInv, NEW i \in DOMAIN channels, NEW next, Kept(channels[i], next),
         channels[i].slot # 0
  PROVE  next.data >= channels[i].data
<1> DEFINE s == channels[i].slot
<1>1. /\ channels[i] \in Channel /\ Len(chain) \in Nat /\ MaxSlot \in Nat
      /\ chain \in Seq([data: 0..MaxSlot, exists: BOOLEAN])
      /\ DOMAIN chain = 1..Len(chain)
  BY CacheAssumption, SeqElement DEF IInv, TypeOK
<1>2. s \in 1..Len(chain) /\ channels[i].data = chain[s].data /\ channels[i].data \in Nat
  BY <1>1 DEF IInv, UpToItsSlot, Channel
<1>3. CASE next.slot = s /\ next.data = channels[i].data
  BY <1>2, <1>3
<1>4. CASE next.slot > s /\ next.slot <= Len(chain) /\ next.data = chain[next.slot].data
  <2>1. next.slot \in s..Len(chain)
    BY <1>1, <1>2, <1>4 DEF Kept, Channel
  <2>2. chain[s].data <= chain[next.slot].data
    BY <1>2, <2>1 DEF IInv, ChainGrows
  <2>3. next.data \in Nat
    BY <1>1 DEF Kept, Channel
  <2> QED
    BY <1>2, <1>4, <2>2, <2>3
<1> QED
  BY <1>3, <1>4 DEF Kept

(* A step leaves the data of every channel that has had an update as new as  *)
(* it was.                                                                   *)
LEMMA StepNeverGoesBack ==
  ASSUME IInv, [Next]_vars, NEW j \in DOMAIN channels, channels[j].slot # 0
  PROVE  channels'[j].data >= channels[j].data
<1>0. channels[j].data \in Nat
  <2>1. channels[j] \in Channel
    BY SeqElement DEF IInv, TypeOK
  <2> QED
    BY <2>1, CacheAssumption DEF Channel
<1>1. CASE channels' = channels
  BY <1>0, <1>1
<1>2. ASSUME NEW c \in Caller, Insert(c) PROVE channels'[j] = channels[j]
  BY <1>2, InsertAppends
<1>3. ASSUME NEW i \in DOMAIN channels, TaskStep(i)
      PROVE  channels'[j].data >= channels[j].data
  <2>1. PICK next : channels' = [channels EXCEPT ![i] = next] /\ Kept(channels[i], next)
    BY <1>3, TaskStepKeeps
  <2>2. channels \in Seq(Channel) /\ next \in Channel
    BY <2>1 DEF IInv, TypeOK, Kept
  <2>3. channels'[i] = next /\ (j # i => channels'[j] = channels[j])
    BY <2>1, <2>2, SeqExcept
  <2>4. CASE j = i
    BY <2>1, <2>3, <2>4, KeptIsNewer
  <2>5. CASE j # i
    BY <1>0, <2>3, <2>5
  <2> QED
    BY <2>4, <2>5
<1>4. CASE Slot \/ (\E c \in Caller : CallerStep(c)) \/ UNCHANGED vars
  <2>1. channels' = channels
    BY <1>4 DEF Slot, CallerStep, Miss, FetchFails, Fetch, vars
  <2> QED
    BY <1>1, <2>1
<1> QED
  BY <1>0, <1>2, <1>3, <1>4 DEF Next, CallerStep, TaskStep

(* However the streams and polls of the retry tasks overtake each other,     *)
(* send_if_modified never puts an older state of the account into a channel  *)
(* that has had an update (lib.rs:208-238).                                  *)
THEOREM NeverGoesBack == Spec => ChannelNeverGoesBack
<1>1. IInv /\ [Next]_vars =>
        [\A i \in DOMAIN channels :
           channels[i].slot # 0 => channels'[i].data >= channels[i].data]_vars
  BY StepNeverGoesBack
<1> QED
  BY <1>1, InvHolds, PTL DEF Spec, ChannelNeverGoesBack

-----------------------------------------------------------------------------
(* The callers between a miss and its insert.                                *)
Busy == {c \in Caller : pc[c] # "idle"}

(* Channels made and still to be made are no more than the callers.          *)
InsertsLeft ==
  /\ cached = 0 => Len(channels) = 0
  /\ Len(channels) + Cardinality(Busy) <= Cardinality(Caller)

LEMMA BusyFinite ==
  /\ IsFiniteSet(Busy) /\ Cardinality(Busy) \in Nat
  /\ Cardinality(Busy) <= Cardinality(Caller) /\ Cardinality(Caller) \in Nat
<1>1. IsFiniteSet(Caller) /\ Busy \subseteq Caller
  BY CacheAssumption DEF Busy
<1> QED
  BY <1>1, FS_Subset, FS_CardinalityType

(* A miss needs an empty cache, and then nothing was inserted yet.           *)
LEMMA MissLeft ==
  ASSUME TypeOK, InsertsLeft, NEW c \in Caller, Miss(c)
  PROVE  InsertsLeft'
<1>1. Len(channels) = 0 /\ UNCHANGED <<channels, cached>>
  BY DEF Miss, InsertsLeft
<1>2. IsFiniteSet(Caller) /\ Busy' \subseteq Caller
  BY CacheAssumption DEF Busy
<1>3. Cardinality(Busy') <= Cardinality(Caller) /\ Cardinality(Busy') \in Nat
  BY <1>2, FS_Subset, FS_CardinalityType
<1> QED
  BY <1>1, <1>3, BusyFinite DEF InsertsLeft

(* A caller that is done leaves the busy ones.                               *)
LEMMA LeavesBusy ==
  ASSUME TypeOK, NEW c \in Caller, pc[c] # "idle", pc' = [pc EXCEPT ![c] = "idle"]
  PROVE  Cardinality(Busy') = Cardinality(Busy) - 1
<1>1. Busy' = Busy \ {c} /\ c \in Busy
  BY DEF Busy, TypeOK
<1> QED
  BY <1>1, BusyFinite, FS_RemoveElement

LEMMA StepLeft == IInv /\ InsertsLeft /\ [Next]_vars => InsertsLeft'
<1> SUFFICES ASSUME IInv, InsertsLeft, [Next]_vars PROVE InsertsLeft'
  OBVIOUS
<1>0. TypeOK /\ Len(channels) \in Nat
  BY SeqElement DEF IInv, TypeOK
<1>1. ASSUME NEW c \in Caller, Miss(c) PROVE InsertsLeft'
  BY <1>0, <1>1, MissLeft
<1>2. ASSUME NEW c \in Caller, FetchFails(c) PROVE InsertsLeft'
  <2>1. Cardinality(Busy') = Cardinality(Busy) - 1 /\ UNCHANGED <<channels, cached>>
    BY <1>0, <1>2, LeavesBusy DEF FetchFails
  <2> QED
    BY <1>0, <2>1, BusyFinite DEF InsertsLeft
<1>3. ASSUME NEW c \in Caller, Fetch(c) PROVE InsertsLeft'
  <2>1. Busy' = Busy /\ UNCHANGED <<channels, cached>>
    BY <1>0, <1>3 DEF Fetch, Busy, TypeOK
  <2> QED
    BY <2>1 DEF InsertsLeft
<1>4. ASSUME NEW c \in Caller, Insert(c) PROVE InsertsLeft'
  <2>1. Len(channels') = Len(channels) + 1
    BY <1>4, InsertAppends
  <2>2. Cardinality(Busy') = Cardinality(Busy) - 1
    BY <1>0, <1>4, LeavesBusy DEF Insert
  <2>3. cached' # 0
    BY <1>0, <1>4 DEF Insert
  <2> QED
    BY <1>0, <2>1, <2>2, <2>3, BusyFinite DEF InsertsLeft
<1>5. ASSUME NEW i \in DOMAIN channels, TaskStep(i) PROVE InsertsLeft'
  <2>1. UNCHANGED <<cached, pc>>
    BY <1>5, TaskStepKeeps DEF caller_vars
  <2>2. PICK next : channels' = [channels EXCEPT ![i] = next] /\ Kept(channels[i], next)
    BY <1>5, TaskStepKeeps
  <2>3. Len(channels') = Len(channels)
    BY <1>0, <2>2, SeqExcept DEF TypeOK, Kept
  <2> QED
    BY <2>1, <2>3 DEF InsertsLeft, Busy
<1>6. CASE Slot \/ UNCHANGED vars
  BY <1>6 DEF Slot, caller_vars, vars, InsertsLeft, Busy
<1> QED
  BY <1>1, <1>2, <1>3, <1>4, <1>5, <1>6 DEF Next, TaskStep

(* However many callers miss at once, and however often their fetches fail   *)
(* and are tried again, there are never more channels and retry tasks than   *)
(* callers (lib.rs:285-304).                                                 *)
THEOREM ChannelsBounded == Spec => []OneChannelPerCaller
<1>1. Init => InsertsLeft
  BY BusyFinite DEF Init, InsertsLeft
<1>2. IInv /\ InsertsLeft => OneChannelPerCaller
  <2> SUFFICES ASSUME TypeOK, InsertsLeft PROVE OneChannelPerCaller
    BY DEF IInv
  <2>1. Len(channels) \in Nat
    BY SeqElement DEF TypeOK
  <2> QED
    BY <2>1, BusyFinite DEF InsertsLeft, OneChannelPerCaller
<1> QED
  BY <1>1, <1>2, StepLeft, InvHolds, PTL DEF Spec

-----------------------------------------------------------------------------
(* RemainingAccount of lib.rs, and its order.                                *)
RemainingAccount == [type: {"oracle", "spot", "perp"}, pubkey: Nat, writable: BOOLEAN]

Sorted(accounts) == \A i, j \in DOMAIN accounts : i < j => before(accounts[i], accounts[j])

(* What the loops of build_accounts pass on, and what they go over.          *)
Bits == {"spot", "perp"} \X Nat
Collected ==
  {st \in [seen: SUBSET Bits, accounts: Seq(RemainingAccount), panicked: BOOLEAN] :
     Sorted(st.accounts)}
Inclusion == [id: Market, writable: BOOLEAN, skipped: BOOLEAN]

(* P has one market for each bit of those of N, and none that is only read   *)
(* for one of W, which is written.                                           *)
Distinct(P) == \A m, n \in P : bit(m) = bit(n) => m = n
Serves(P, N, W) ==
  /\ P \subseteq N
  /\ Distinct(P)
  /\ \A m \in N : \E n \in P : bit(n) = bit(m) /\ (m \in W => n \in W)

(* After the markets of N have been mentioned.                               *)
Right(st, N, W) ==
  ~st.panicked =>
    /\ st.seen = {bit(m) : m \in N}
    /\ \E P \in SUBSET (DOMAIN KeyOf) :
         Serves(P, N, W) /\ ToSet(st.accounts) = accounts_of(P, W)

(* The markets a loop includes.  One that writes comes before any that only  *)
(* reads.                                                                    *)
Included(ms, k) == {ms[i].id : i \in {j \in 1..k : ~ms[j].skipped}}
Fits(ms, N, W) ==
  \/ N \subseteq W /\ \A i \in DOMAIN ms : ~ms[i].skipped => ms[i].writable /\ ms[i].id \in W
  \/ W \subseteq N /\ \A i \in DOMAIN ms : ~ms[i].skipped => ~ms[i].writable

-----------------------------------------------------------------------------
(* Counting up.                                                              *)
LEMMA CountUp ==
  ASSUME NEW n \in Nat, NEW K, 0 \in K, \A k \in 1..n : k - 1 \in K => k \in K
  PROVE  \A k \in 0..n : k \in K
<1> DEFINE Missed == {k \in Nat : k <= n /\ k \notin K}
<1>1. SUFFICES ASSUME Missed # {} PROVE FALSE
  OBVIOUS
<1> DEFINE R == OpToRel(<, Nat)
<1>2. PICK k \in Missed : \A j \in Missed : ~(<<j, k>> \in R)
  <2>1. Missed \subseteq Nat /\ Missed # {}
    BY <1>1
  <2>2. IsWellFoundedOn(R, Nat)
    BY NatLessThanWellFounded, Zenon
  <2> HIDE DEF Missed, R
  <2> QED
    BY <2>1, <2>2, WFMin
<1>3. \A j \in Missed : ~(j < k)
  BY <1>2 DEF OpToRel
<1>4. k \in 1..n
  OBVIOUS
<1>5. k - 1 \in Nat /\ k - 1 < k /\ k - 1 <= n
  BY <1>4
<1>6. k - 1 \in K
  BY <1>3, <1>5
<1>7. QED
  BY <1>4, <1>6

(* A loop of n turns has a run: its values after each turn.                  *)
IsRun(run, n, base, step) == run[0] = base /\ \A i \in 1..n : run[i] = step[<<run[i - 1], i>>]

LEMMA RunExists ==
  ASSUME NEW n \in Nat, NEW T, NEW base \in T, NEW step \in [T \X (1..n) -> T]
  PROVE  \E run \in [0..n -> T] : IsRun(run, n, base, step)
<1> DEFINE Run(run, k) == IsRun(run, k, base, step)
           K == {k \in 0..n : \E run \in [0..k -> T] : Run(run, k)}
<1>1. 0 \in K
  <2> DEFINE run == [i \in 0..0 |-> base]
  <2>1. run \in [0..0 -> T] /\ Run(run, 0)
    BY DEF IsRun
  <2> HIDE DEF run, Run
  <2> QED
    BY <2>1
<1>2. ASSUME NEW k \in 1..n, k - 1 \in K PROVE k \in K
  <2>1. PICK run \in [0..(k - 1) -> T] : Run(run, k - 1)
    BY <1>2
  <2> DEFINE next == [i \in 0..k |-> IF i = k THEN step[<<run[k - 1], k>>] ELSE run[i]]
  <2>2. k - 1 \in 0..(k - 1) /\ <<run[k - 1], k>> \in T \X (1..n)
    OBVIOUS
  <2>3. next \in [0..k -> T]
    BY <2>2
  <2>4. Run(next, k)
    <3>1. next[0] = base
      BY <2>1 DEF IsRun
    <3>2. ASSUME NEW i \in 1..k PROVE next[i] = step[<<next[i - 1], i>>]
      <4>1. CASE i = k
        <5>1. next[k] = step[<<run[k - 1], k>>] /\ next[k - 1] = run[k - 1]
          OBVIOUS
        <5> HIDE DEF next
        <5> QED
          BY <4>1, <5>1
      <4>2. CASE i # k
        BY <2>1, <4>2 DEF IsRun
      <4> QED
        BY <4>1, <4>2
    <3> QED
      BY <3>1, <3>2 DEF IsRun
  <2> HIDE DEF next, Run
  <2> QED
    BY <2>3, <2>4
<1>3. n \in K
  <2> HIDE DEF K
  <2> QED
    BY <1>1, <1>2, CountUp
<1> QED
  BY <1>3

(* A set of places that has every place before each of its own is an initial *)
(* segment.                                                                  *)
LEMMA InitialSegment ==
  ASSUME NEW n \in Nat, NEW S \in SUBSET (1..n), \A i \in S, j \in 1..n : j < i => j \in S
  PROVE  \E k \in 0..n : S = 1..k
<1> SUFFICES ASSUME \A k \in 0..n : S # 1..k PROVE FALSE
  OBVIOUS
<1> DEFINE K == {k \in 0..n : 1..k \subseteq S}
<1>1. 0 \in K
  OBVIOUS
<1>2. ASSUME NEW k \in 1..n, k - 1 \in K PROVE k \in K
  <2>1. k - 1 \in 0..n /\ S # 1..(k - 1) /\ 1..(k - 1) \subseteq S
    BY <1>2
  <2>2. PICK x \in S : x \notin 1..(k - 1)
    BY <2>1
  <2>3. k \in S
    BY <2>2
  <2> QED
    BY <2>1, <2>3
<1>3. n \in K
  <2> HIDE DEF K
  <2> QED
    BY <1>1, <1>2, CountUp
<1> QED
  BY <1>3

-----------------------------------------------------------------------------
(* The order of the accounts is strict, and total up to type and key.        *)
LEMMA BeforeOrder ==
  ASSUME NEW a \in RemainingAccount, NEW b \in RemainingAccount, NEW c \in RemainingAccount
  PROVE  /\ before(a, b) /\ before(b, c) => before(a, c)
         /\ ~(before(a, b) /\ before(b, a))
         /\ ~before(a, b) /\ ~before(b, a) <=> a.type = b.type /\ a.pubkey = b.pubkey
BY DEF before, Discriminant, RemainingAccount

(* t is s with a at place p.                                                 *)
Inserted(t, s, p, a) ==
  /\ Len(t) = Len(s) + 1
  /\ \A i \in 1..(Len(s) + 1) : t[i] = IF i < p THEN s[i] ELSE IF i = p THEN a ELSE s[i - 1]

LEMMA InsertAtPlace ==
  ASSUME NEW T, NEW s \in Seq(T), NEW p \in 1..(Len(s) + 1), NEW a \in T
  PROVE  InsertAt(s, p, a) \in Seq(T) /\ Inserted(InsertAt(s, p, a), s, p, a)
<1> DEFINE front == SubSeq(s, 1, p - 1)
           back == SubSeq(s, p, Len(s))
           head == front \o <<a>>
<1>1. InsertAt(s, p, a) = head \o back
  BY DEF InsertAt
<1>2. Len(s) \in Nat /\ p - 1 \in Nat /\ Len(s) - (p - 1) \in Nat
  OBVIOUS
<1>3. front \in Seq(T) /\ Len(front) = p - 1 /\ \A i \in 1..(p - 1) : front[i] = s[i]
  OBVIOUS
<1>4. back \in Seq(T) /\ Len(back) = Len(s) - (p - 1)
      /\ \A i \in 1..(Len(s) - (p - 1)) : back[i] = s[p - 1 + i]
  OBVIOUS
<1> HIDE DEF front, back
<1>5. head \in Seq(T) /\ Len(head) = p /\ \A i \in 1..p : head[i] = IF i < p THEN s[i] ELSE a
  BY <1>2, <1>3
<1> HIDE DEF head
<1>6. head \o back \in Seq(T) /\ Len(head \o back) = Len(s) + 1
  BY <1>2, <1>4, <1>5
<1>7. ASSUME NEW i \in 1..(Len(s) + 1)
      PROVE  (head \o back)[i] = IF i < p THEN s[i] ELSE IF i = p THEN a ELSE s[i - 1]
  <2>1. CASE i <= p
    <3>1. (head \o back)[i] = head[i]
      BY <1>2, <1>4, <1>5, <2>1
    <3> QED
      BY <1>2, <1>5, <2>1, <3>1
  <2>2. CASE i > p
    <3>1. (head \o back)[i] = back[i - p]
      BY <1>2, <1>4, <1>5, <2>2
    <3>2. i - p \in 1..(Len(s) - (p - 1)) /\ p - 1 + (i - p) = i - 1
      BY <1>2, <2>2
    <3> QED
      BY <1>4, <2>2, <3>1, <3>2
  <2>3. i <= p \/ i > p
    BY <1>2
  <2> QED
    BY <2>1, <2>2, <2>3, Zenon
<1> QED
  BY <1>1, <1>6, <1>7, Zenon DEF Inserted

(* Inserting an account keeps the order, and adds it if none of its type and *)
(* key is there.                                                             *)
LEMMA InsertRight ==
  ASSUME NEW s \in Seq(RemainingAccount), Sorted(s), NEW a \in RemainingAccount
  PROVE  LET t == insert_account(s, a)
         IN /\ t \in Seq(RemainingAccount)
            /\ Sorted(t)
            /\ ToSet(t) = IF \E b \in ToSet(s) : b.type = a.type /\ b.pubkey = a.pubkey
                          THEN ToSet(s) ELSE ToSet(s) \cup {a}
<1> DEFINE smaller == {i \in DOMAIN s : before(s[i], a)}
           equal   == {i \in DOMAIN s : ~before(s[i], a) /\ ~before(a, s[i])}
           n == Len(s)
<1>0. n \in Nat /\ DOMAIN s = 1..n /\ \A i \in 1..n : s[i] \in RemainingAccount
  OBVIOUS
<1>1. equal # {} <=> \E b \in ToSet(s) : b.type = a.type /\ b.pubkey = a.pubkey
  BY <1>0, BeforeOrder DEF ToSet
<1>2. CASE equal # {}
  BY <1>1, <1>2 DEF insert_account
<1>3. CASE equal = {}
  <2>1. smaller \in SUBSET (1..n) /\ \A i \in smaller, j \in 1..n : j < i => j \in smaller
    BY <1>0, BeforeOrder DEF Sorted
  <2>2. PICK k \in 0..n : smaller = 1..k
    <3> HIDE DEF smaller, n
    <3> QED
      BY <1>0, <2>1, InitialSegment
  <2>3. Cardinality(smaller) = k
    <3>1. Cardinality(1..k) = IF 1 > k THEN 0 ELSE k - 1 + 1
      BY FS_Interval
    <3>2. Cardinality(1..k) = k
      BY <3>1
    <3> HIDE DEF smaller, n
    <3> QED
      BY <2>2, <3>2
  <2> DEFINE p == Cardinality(smaller) + 1
             t == InsertAt(s, p, a)
  <2>4. insert_account(s, a) = t
    BY <1>3 DEF insert_account
  <2>5. /\ t \in Seq(RemainingAccount)
        /\ Len(t) = n + 1
        /\ \A i \in 1..(n + 1) : t[i] = IF i <= k THEN s[i] ELSE IF i = k + 1 THEN a ELSE s[i - 1]
    <3>1. p = k + 1 /\ p \in 1..(n + 1)
      BY <1>0, <2>3
    <3> HIDE DEF p
    <3>2. t \in Seq(RemainingAccount) /\ Inserted(t, s, p, a)
      BY <3>1, InsertAtPlace
    <3> HIDE DEF t
    <3> QED
      BY <1>0, <3>1, <3>2 DEF Inserted
  <2>6. /\ \A i \in 1..n : i <= k => before(s[i], a)
        /\ \A i \in 1..n : i > k => before(a, s[i])
    BY <1>0, <1>3, <2>2
  <2> HIDE DEF t, smaller, equal, n
  <2>7. Sorted(t)
    <3> SUFFICES ASSUME NEW i \in 1..(n + 1), NEW j \in 1..(n + 1), i < j
                 PROVE  before(t[i], t[j])
      BY <1>0, <2>5 DEF Sorted
    <3>1. CASE j <= k
      BY <1>0, <2>5, <3>1 DEF Sorted
    <3>2. CASE j = k + 1
      BY <1>0, <2>5, <2>6, <3>2
    <3>3. CASE j > k + 1
      <4>1. t[j] = s[j - 1] /\ j - 1 \in 1..n /\ j - 1 > k
        BY <1>0, <2>5, <3>3
      <4>2. CASE i = k + 1
        BY <1>0, <2>5, <2>6, <4>1, <4>2
      <4>3. CASE i <= k
        BY <1>0, <2>5, <4>1, <4>3 DEF Sorted
      <4>4. CASE i > k + 1
        <5>1. t[i] = s[i - 1] /\ i - 1 \in 1..n /\ i - 1 < j - 1
          BY <1>0, <2>5, <4>4
        <5> QED
          BY <1>0, <4>1, <5>1 DEF Sorted
      <4> QED
        BY <1>0, <4>2, <4>3, <4>4
    <3> QED
      BY <1>0, <3>1, <3>2, <3>3
  <2>8. ToSet(t) = ToSet(s) \cup {a}
    <3>1. DOMAIN t = 1..(n + 1)
      BY <2>5
    <3>2. ASSUME NEW i \in 1..(n + 1) PROVE t[i] \in ToSet(s) \cup {a}
      <4>1. CASE i <= k
        <5>1. t[i] = s[i] /\ i \in 1..n
          BY <1>0, <2>5, <4>1
        <5> QED
          BY <1>0, <5>1 DEF ToSet
      <4>2. CASE i = k + 1
        BY <2>5, <4>2
      <4>3. CASE i > k + 1
        <5>1. t[i] = s[i - 1] /\ i - 1 \in 1..n
          BY <1>0, <2>5, <4>3
        <5> QED
          BY <1>0, <5>1 DEF ToSet
      <4> QED
        BY <1>0, <4>1, <4>2, <4>3
    <3>3. ASSUME NEW i \in 1..n PROVE s[i] \in ToSet(t)
      <4>1. CASE i <= k
        BY <1>0, <2>5, <3>1, <4>1 DEF ToSet
      <4>2. CASE i > k
        <5>1. i + 1 \in 1..(n + 1) /\ t[i + 1] = s[i]
          BY <1>0, <2>5, <4>2
        <5> QED
          BY <3>1, <5>1 DEF ToSet
      <4> QED
        BY <1>0, <4>1, <4>2
    <3>4. a \in ToSet(t)
      <4>1. k + 1 \in 1..(n + 1) /\ t[k + 1] = a
        BY <1>0, <2>5
      <4> QED
        BY <3>1, <4>1 DEF ToSet
    <3> QED
      BY <1>0, <3>1, <3>2, <3>3, <3>4 DEF ToSet
  <2> QED
    BY <1>1, <1>3, <2>4, <2>5, <2>7, <2>8
<1> QED
  BY <1>2, <1>3

-----------------------------------------------------------------------------
LEMMA BitType ==
  ASSUME NEW m \in Market PROVE bit(m) \in Bits
<1>1. m.index \in Nat /\ m.kind \in {"spot", "perp"}
  BY DEF Market
<1>2. shift(m) \in Nat
  BY <1>1, BuilderAssumption DEF shift
<1> HIDE DEF shift
<1>3. shift(m) % BitmapBits \in Nat
  BY <1>2, BuilderAssumption
<1> QED
  BY <1>1, <1>3 DEF bit, Bits

LEMMA AccountType ==
  ASSUME NEW m \in DOMAIN KeyOf, NEW w \in BOOLEAN
  PROVE  /\ m \in Market
         /\ market_account(m, w) \in RemainingAccount
         /\ oracle_account(m) \in RemainingAccount
<1>1. m \in Market
  BY BuilderAssumption
<1>2. KeyOf[m] \in Nat /\ OracleOf[m] \in Nat
  BY BuilderAssumption
<1> QED
  BY <1>1, <1>2 DEF market_account, oracle_account, RemainingAccount, Market

(* One call of the closure.                                                  *)
LEMMA IncludeType ==
  ASSUME NEW st \in Collected, NEW m \in Market, NEW w \in BOOLEAN
  PROVE  include_market(st, m, w) \in Collected
<1>1. /\ st \in [seen: SUBSET Bits, accounts: Seq(RemainingAccount), panicked: BOOLEAN]
      /\ Sorted(st.accounts)
  BY DEF Collected
<1>2. [st EXCEPT !.panicked = TRUE] \in Collected
  BY <1>1 DEF Collected
<1>3. CASE m \in DOMAIN KeyOf
  <2> DEFINE one == insert_account(st.accounts, market_account(m, w))
             two == insert_account(one, oracle_account(m))
  <2>1. one \in Seq(RemainingAccount) /\ Sorted(one)
    BY <1>1, <1>3, AccountType, InsertRight
  <2> HIDE DEF one
  <2>2. two \in Seq(RemainingAccount) /\ Sorted(two)
    BY <2>1, <1>3, AccountType, InsertRight
  <2> HIDE DEF two
  <2>3. [st EXCEPT !.seen = @ \cup {bit(m)}, !.accounts = two] \in Collected
    BY <1>1, <2>2, BitType DEF Collected
  <2> QED
    BY <1>2, <2>3 DEF include_market, one, two
<1> QED
  BY <1>2, <1>3 DEF include_market

LEMMA IncludeRight ==
  ASSUME NEW st \in Collected, NEW m \in Market, NEW w \in BOOLEAN,
         NEW N \in SUBSET Market, NEW W \in SUBSET Market, Right(st, N, W),
         IF w THEN N \subseteq W /\ m \in W ELSE W \subseteq N
  PROVE  Right(include_market(st, m, w), N \cup {m}, W)
<1> DEFINE next == include_market(st, m, w)
<1>1. /\ st \in [seen: SUBSET Bits, accounts: Seq(RemainingAccount), panicked: BOOLEAN]
      /\ Sorted(st.accounts)
  BY DEF Collected
<1>2. CASE next.panicked
  BY <1>2 DEF Right
<1>3. CASE ~next.panicked
  <2>1. ~st.panicked
    BY <1>1, <1>3 DEF include_market
  <2>2. st.seen = {bit(n) : n \in N}
    BY <2>1 DEF Right
  <2>3. PICK P \in SUBSET (DOMAIN KeyOf) : Serves(P, N, W) /\ ToSet(st.accounts) = accounts_of(P, W)
    BY <2>1 DEF Right
  <2>4. CASE bit(m) \in st.seen
    <3>1. next = st
      BY <1>3, <2>1, <2>4 DEF include_market
    <3>2. st.seen = {bit(n) : n \in N \cup {m}}
      BY <2>2, <2>4
    <3>3. \E n \in P : bit(n) = bit(m) /\ (m \in W => n \in W)
      <4>1. PICK n \in N : bit(n) = bit(m)
        BY <2>2, <2>4
      <4>2. PICK q \in P : bit(q) = bit(n) /\ (n \in W => q \in W)
        BY <2>3 DEF Serves
      <4>3. CASE w
        BY <4>1, <4>2, <4>3
      <4>4. CASE ~w
        <5>1. m \in W => m \in N
          BY <4>4
        <5> QED
          BY <2>3, <4>1, <4>2, <5>1 DEF Serves
      <4> QED
        BY <4>3, <4>4
    <3>4. Serves(P, N \cup {m}, W)
      BY <2>3, <3>3 DEF Serves
    <3> QED
      BY <2>3, <3>1, <3>2, <3>4 DEF Right
  <2>5. CASE bit(m) \notin st.seen
    <3> DEFINE one == insert_account(st.accounts, market_account(m, w))
               two == insert_account(one, oracle_account(m))
               Q == P \cup {m}
    <3>1. m \in DOMAIN KeyOf
          /\ next = [st EXCEPT !.seen = @ \cup {bit(m)}, !.accounts = two]
      BY <1>1, <1>3, <2>5 DEF include_market
    <3>2. m \notin N /\ m \notin P
      BY <2>2, <2>3, <2>5 DEF Serves
    <3>3. w = (m \in W)
      BY <3>2
    <3>4. next.seen = {bit(n) : n \in N \cup {m}} /\ next.accounts = two
      BY <1>1, <2>2, <3>1
    <3>5. Serves(Q, N \cup {m}, W)
      <4>1. \A n \in P : bit(n) # bit(m)
        BY <2>2, <2>3, <2>5 DEF Serves
      <4>2. Distinct(Q)
        BY <2>3, <4>1 DEF Serves, Distinct
      <4> QED
        BY <2>3, <4>2 DEF Serves
    <3>6. /\ market_account(m, w) \in RemainingAccount
          /\ oracle_account(m) \in RemainingAccount
      BY <3>1, AccountType
    <3>7. ~ \E b \in accounts_of(P, W) :
             b.type = market_account(m, w).type /\ b.pubkey = market_account(m, w).pubkey
      BY <2>3, <3>1, <3>2, BuilderAssumption DEF accounts_of, market_account, oracle_account, Market
    <3>8. one \in Seq(RemainingAccount) /\ Sorted(one)
          /\ ToSet(one) = accounts_of(P, W) \cup {market_account(m, w)}
      <4> DEFINE s == st.accounts
                 a == market_account(m, w)
      <4>1. s \in Seq(RemainingAccount) /\ Sorted(s) /\ a \in RemainingAccount
        BY <1>1, <3>6
      <4>2. ~ \E b \in ToSet(s) : b.type = a.type /\ b.pubkey = a.pubkey
        BY <2>3, <3>7
      <4>3. ToSet(s) = accounts_of(P, W)
        BY <2>3
      <4> HIDE DEF s, a
      <4>4. /\ insert_account(s, a) \in Seq(RemainingAccount) /\ Sorted(insert_account(s, a))
            /\ ToSet(insert_account(s, a)) = ToSet(s) \cup {a}
        BY <4>1, <4>2, InsertRight
      <4> QED
        BY <4>3, <4>4 DEF s, a
    <3> HIDE DEF one
    <3>9. ToSet(two) = IF \E b \in ToSet(one) : /\ b.type = oracle_account(m).type
                                                /\ b.pubkey = oracle_account(m).pubkey
                       THEN ToSet(one) ELSE ToSet(one) \cup {oracle_account(m)}
      BY <3>6, <3>8, InsertRight
    <3>10. ASSUME NEW b \in ToSet(one), b.type = oracle_account(m).type,
                  b.pubkey = oracle_account(m).pubkey
           PROVE  b = oracle_account(m)
      BY <2>3, <3>1, <3>8, <3>10, BuilderAssumption
         DEF accounts_of, market_account, oracle_account, Market
    <3> HIDE DEF two
    <3>11. ToSet(two) = ToSet(one) \cup {oracle_account(m)}
      BY <3>9, <3>10
    <3>12. ToSet(two) = accounts_of(Q, W)
      BY <3>3, <3>8, <3>11 DEF accounts_of
    <3>13. Q \in SUBSET (DOMAIN KeyOf)
      BY <3>1
    <3> HIDE DEF Q
    <3> QED
      BY <3>4, <3>5, <3>12, <3>13 DEF Right
  <2> QED
    BY <2>4, <2>5
<1> QED
  BY <1>2, <1>3

-----------------------------------------------------------------------------
(* A loop over markets or positions: its values after each turn.             *)
LEMMA IncludeEachRun ==
  ASSUME NEW st \in Collected, NEW ms \in Seq(Inclusion)
  PROVE  \E run \in [0..Len(ms) -> Collected] :
           /\ run[0] = st
           /\ \A i \in 1..Len(ms) :
                run[i] = IF ms[i].skipped THEN run[i - 1]
                         ELSE include_market(run[i - 1], ms[i].id, ms[i].writable)
           /\ include_each(st, ms) = run[Len(ms)]
<1> DEFINE n == Len(ms)
           turn(c, i) == IF ms[i].skipped THEN c ELSE include_market(c, ms[i].id, ms[i].writable)
           step == [q \in Collected \X (1..n) |-> turn(q[1], q[2])]
           Loop(f) == f = [i \in 0..n |-> IF i = 0 THEN st ELSE turn(f[i - 1], i)]
           run == CHOOSE f : Loop(f)
<1>1. n \in Nat
  OBVIOUS
<1>2. ASSUME NEW c \in Collected, NEW i \in 1..n PROVE turn(c, i) \in Collected
  <2>1. ms[i] \in Inclusion
    OBVIOUS
  <2>2. ms[i].id \in Market /\ ms[i].writable \in BOOLEAN
    BY <2>1 DEF Inclusion
  <2> QED
    BY <2>2, IncludeType
<1>3. include_each(st, ms) = run[n]
  BY DEF include_each
<1> HIDE DEF n, turn
<1>4. step \in [Collected \X (1..n) -> Collected]
  BY <1>2
<1>5. \E f : Loop(f)
  <2> HIDE DEF step
  <2>1. PICK f \in [0..n -> Collected] : IsRun(f, n, st, step)
    BY <1>1, <1>4, RunExists
  <2>2. ASSUME NEW i \in 1..n PROVE step[<<f[i - 1], i>>] = turn(f[i - 1], i)
    BY <1>1 DEF step
  <2>3. Loop(f)
    <3>1. ASSUME NEW i \in 0..n PROVE f[i] = IF i = 0 THEN st ELSE turn(f[i - 1], i)
      <4>1. i = 0 \/ i \in 1..n
        BY <1>1
      <4> QED
        BY <2>1, <2>2, <4>1, Zenon DEF IsRun
    <3>2. f = [i \in 0..n |-> f[i]]
      BY <2>1
    <3> QED
      BY <3>1, <3>2, Zenon
  <2> QED
    BY <2>3
<1>6. Loop(run)
  <2> HIDE DEF Loop
  <2> QED
    BY <1>5
<1> HIDE DEF run
<1>7. \A k \in 0..n : run[k] \in Collected
  <2> DEFINE K == {k \in 0..n : run[k] \in Collected}
  <2>1. 0 \in K
    BY <1>1, <1>6
  <2>2. ASSUME NEW k \in 1..n, k - 1 \in K PROVE k \in K
    <3>1. run[k] = turn(run[k - 1], k)
      BY <1>1, <1>6
    <3> QED
      BY <1>2, <2>2, <3>1
  <2>3. \A k \in 0..n : k \in K
    <3> HIDE DEF K
    <3> QED
      BY <1>1, <2>1, <2>2, CountUp
  <2> QED
    BY <2>3
<1>8. run \in [0..n -> Collected]
  BY <1>6, <1>7
<1>9. run[0] = st /\ \A i \in 1..n : run[i] = turn(run[i - 1], i)
  BY <1>1, <1>6
<1> QED
  BY <1>3, <1>8, <1>9 DEF n, turn

LEMMA EachType ==
  ASSUME NEW st \in Collected, NEW ms \in Seq(Inclusion)
  PROVE  include_each(st, ms) \in Collected
<1>1. Len(ms) \in 0..Len(ms)
  OBVIOUS
<1> QED
  BY <1>1, IncludeEachRun

LEMMA EachRight ==
  ASSUME NEW st \in Collected, NEW ms \in Seq(Inclusion),
         NEW N \in SUBSET Market, NEW W \in SUBSET Market,
         Right(st, N, W), Fits(ms, N, W)
  PROVE  /\ include_each(st, ms) \in Collected
         /\ Right(include_each(st, ms), N \cup Included(ms, Len(ms)), W)
<1> DEFINE n == Len(ms)
           M(k) == N \cup Included(ms, k)
<1>1. n \in Nat /\ \A i \in 1..n : ms[i] \in Inclusion
  OBVIOUS
<1>2. PICK run \in [0..n -> Collected] :
           /\ run[0] = st
           /\ \A i \in 1..n :
                run[i] = IF ms[i].skipped THEN run[i - 1]
                         ELSE include_market(run[i - 1], ms[i].id, ms[i].writable)
           /\ include_each(st, ms) = run[n]
  BY IncludeEachRun
<1> DEFINE K == {k \in 0..n : Right(run[k], M(k), W)}
<1>3. 0 \in K
  <2>1. M(0) = N
    BY DEF Included
  <2> QED
    BY <1>1, <1>2, <2>1
<1>4. ASSUME NEW k \in 1..n, k - 1 \in K PROVE k \in K
  <2>1. k - 1 \in 0..n /\ run[k - 1] \in Collected /\ Right(run[k - 1], M(k - 1), W)
    BY <1>1, <1>4
  <2>2. M(k - 1) \in SUBSET Market
    BY <1>1 DEF Included, Inclusion
  <2>3. ASSUME ms[k].skipped PROVE Right(run[k], M(k), W)
    <3>1. M(k) = M(k - 1)
      BY <1>1, <2>3 DEF Included
    <3> HIDE DEF M
    <3> QED
      BY <1>2, <2>1, <2>3, <3>1, Zenon
  <2>4. ASSUME ~ms[k].skipped PROVE Right(run[k], M(k), W)
    <3>1. M(k) = M(k - 1) \cup {ms[k].id}
      BY <1>1, <2>4 DEF Included
    <3>2. IF ms[k].writable THEN M(k - 1) \subseteq W /\ ms[k].id \in W ELSE W \subseteq M(k - 1)
      BY <1>1, <2>4 DEF Fits, Included
    <3>3. ms[k].id \in Market /\ ms[k].writable \in BOOLEAN
      BY <1>1 DEF Inclusion
    <3> HIDE DEF M
    <3>4. Right(include_market(run[k - 1], ms[k].id, ms[k].writable), M(k - 1) \cup {ms[k].id}, W)
      BY <2>1, <2>2, <3>2, <3>3, IncludeRight
    <3> QED
      BY <1>2, <2>4, <3>1, <3>4, Zenon
  <2>5. Right(run[k], M(k), W) /\ k \in 0..n
    BY <1>1, <2>3, <2>4
  <2> HIDE DEF M
  <2> QED
    BY <2>5
<1>5. n \in K
  <2> HIDE DEF K, n
  <2>1. \A k \in 0..n : k \in K
    BY <1>1, <1>3, <1>4, CountUp, Zenon
  <2> QED
    BY <1>1, <2>1
<1> QED
  BY <1>1, <1>2, <1>5

LEMMA MarkedRight ==
  ASSUME NEW markets \in Seq(Market), NEW w \in BOOLEAN
  PROVE  /\ marked(markets, w) \in Seq(Inclusion)
         /\ Included(marked(markets, w), Len(marked(markets, w))) = ToSet(markets)
         /\ \A N, W : (IF w THEN N \cup ToSet(markets) \subseteq W ELSE W \subseteq N)
                      => Fits(marked(markets, w), N, W)
<1> DEFINE ms == marked(markets, w)
           n == Len(markets)
<1>1. n \in Nat /\ DOMAIN markets = 1..n /\ \A i \in 1..n : markets[i] \in Market
  OBVIOUS
<1>2. /\ ms = [i \in 1..n |-> [id |-> markets[i], writable |-> w, skipped |-> FALSE]]
      /\ \A i \in 1..n : [id |-> markets[i], writable |-> w, skipped |-> FALSE] \in Inclusion
  BY <1>1 DEF marked, Inclusion
<1> HIDE DEF ms, n
<1>3. ms \in Seq(Inclusion) /\ Len(ms) = n /\ DOMAIN ms = 1..n
  BY <1>1, <1>2
<1>4. \A i \in 1..n : ms[i].id = markets[i] /\ ms[i].writable = w /\ ms[i].skipped = FALSE
  BY <1>2
<1>5. Included(ms, n) = ToSet(markets)
  BY <1>1, <1>4 DEF Included, ToSet
<1>6. \A N, W : (IF w THEN N \cup ToSet(markets) \subseteq W ELSE W \subseteq N) => Fits(ms, N, W)
  BY <1>1, <1>3, <1>4 DEF Fits, ToSet
<1> QED
  BY <1>3, <1>5, <1>6 DEF ms

LEMMA PositionsRight ==
  ASSUME NEW slots \in Seq(Position), NEW kind \in {"spot", "perp"}
  PROVE  /\ positions(slots, kind) \in Seq(Inclusion)
         /\ Included(positions(slots, kind), Len(positions(slots, kind))) = held(slots, kind)
         /\ held(slots, kind) \in SUBSET Market
         /\ \A N, W : W \subseteq N => Fits(positions(slots, kind), N, W)
<1> DEFINE ms == positions(slots, kind)
           n == Len(slots)
           id(i) == [kind |-> kind, index |-> slots[i].market_index]
<1>1. n \in Nat /\ DOMAIN slots = 1..n /\ \A i \in 1..n : slots[i] \in Position
  OBVIOUS
<1>2. \A i \in 1..n : id(i) \in Market /\ slots[i].available \in BOOLEAN
  BY <1>1 DEF Position, Market
<1>3. ms = [i \in 1..n |-> [id |-> id(i), writable |-> FALSE, skipped |-> slots[i].available]]
  BY <1>1 DEF positions
<1> HIDE DEF ms, n, id
<1>4. \A i \in 1..n : [id |-> id(i), writable |-> FALSE, skipped |-> slots[i].available] \in Inclusion
  BY <1>2 DEF Inclusion
<1>5. ms \in Seq(Inclusion) /\ Len(ms) = n /\ DOMAIN ms = 1..n
  BY <1>1, <1>3, <1>4
<1>6. \A i \in 1..n :
        ms[i].id = id(i) /\ ms[i].writable = FALSE /\ ms[i].skipped = slots[i].available
  BY <1>3
<1>7. Included(ms, n) = {id(i) : i \in {j \in 1..n : ~slots[j].available}}
  BY <1>6 DEF Included
<1>8. held(slots, kind) = {id(i) : i \in {j \in 1..n : ~slots[j].available}}
  BY <1>1 DEF held, ToSet, id
<1>9. \A N, W : W \subseteq N => Fits(ms, N, W)
  BY <1>5, <1>6 DEF Fits
<1> QED
  BY <1>2, <1>5, <1>7, <1>8, <1>9 DEF ms

-----------------------------------------------------------------------------
(* The positions of one user, then of all of them.                           *)
holdings(u) == held(u.spot_positions, "spot") \cup held(u.perp_positions, "perp")
include_user(st, u) ==
  include_each(include_each(st, positions(u.spot_positions, "spot")),
               positions(u.perp_positions, "perp"))

LEMMA UserRight ==
  ASSUME NEW st \in Collected, NEW u \in User,
         NEW N \in SUBSET Market, NEW W \in SUBSET N, Right(st, N, W)
  PROVE  /\ holdings(u) \in SUBSET Market
         /\ include_user(st, u) \in Collected
         /\ Right(include_user(st, u), N \cup holdings(u), W)
<1> DEFINE spots == positions(u.spot_positions, "spot")
           perps == positions(u.perp_positions, "perp")
           N1 == N \cup held(u.spot_positions, "spot")
           N2 == N1 \cup held(u.perp_positions, "perp")
           one == include_each(st, spots)
<1>1. u.spot_positions \in Seq(Position) /\ u.perp_positions \in Seq(Position)
  BY DEF User
<1>2. spots \in Seq(Inclusion) /\ N1 \in SUBSET Market /\ Fits(spots, N, W)
      /\ N1 = N \cup Included(spots, Len(spots))
  BY <1>1, PositionsRight
<1>3. perps \in Seq(Inclusion) /\ N2 \in SUBSET Market /\ Fits(perps, N1, W)
      /\ N2 = N1 \cup Included(perps, Len(perps))
  BY <1>1, <1>2, PositionsRight
<1>4. W \in SUBSET Market
  OBVIOUS
<1> HIDE DEF spots, perps, N1, N2
<1>5. one \in Collected /\ Right(one, N1, W)
  BY <1>2, <1>4, EachRight
<1> HIDE DEF one
<1>6. include_each(one, perps) \in Collected /\ Right(include_each(one, perps), N2, W)
  BY <1>2, <1>3, <1>4, <1>5, EachRight
<1>7. include_user(st, u) = include_each(one, perps)
  BY DEF include_user, one, spots, perps
<1>8. N2 = N \cup holdings(u)
  BY DEF N1, N2, holdings
<1> QED
  BY <1>3, <1>6, <1>7, <1>8

LEMMA UsersRight ==
  ASSUME NEW st \in Collected, NEW users \in Seq(User),
         NEW N \in SUBSET Market, NEW W \in SUBSET N, Right(st, N, W)
  PROVE  LET M == N \cup UNION {holdings(u) : u \in ToSet(users)}
         IN /\ M \in SUBSET Market
            /\ include_users(st, users) \in Collected
            /\ Right(include_users(st, users), M, W)
<1> DEFINE n == Len(users)
           M(k) == N \cup UNION {holdings(users[i]) : i \in 1..k}
           Good(f, k) == f[k] \in Collected /\ M(k) \in SUBSET Market /\ Right(f[k], M(k), W)
           step == [q \in Collected \X (1..n) |-> include_user(q[1], users[q[2]])]
           Loop(f) == f = [i \in 0..n |-> IF i = 0 THEN st ELSE include_user(f[i - 1], users[i])]
           run == CHOOSE f : Loop(f)
<1>1. n \in Nat /\ DOMAIN users = 1..n /\ \A i \in 1..n : users[i] \in User
  OBVIOUS
<1>2. include_users(st, users) = run[n]
  BY DEF include_users, include_user
<1> HIDE DEF n
<1>3. \A c \in Collected : \A i \in 1..n : include_user(c, users[i]) \in Collected
  <2> SUFFICES ASSUME NEW c \in Collected, NEW i \in 1..n
               PROVE  include_user(c, users[i]) \in Collected
    OBVIOUS
  <2> DEFINE u == users[i]
             spots == positions(u.spot_positions, "spot")
             perps == positions(u.perp_positions, "perp")
  <2>1. u.spot_positions \in Seq(Position) /\ u.perp_positions \in Seq(Position)
    BY <1>1 DEF User
  <2>2. spots \in Seq(Inclusion) /\ perps \in Seq(Inclusion)
    BY <2>1, PositionsRight
  <2> HIDE DEF spots, perps, u
  <2>3. include_each(c, spots) \in Collected
    BY <2>2, EachType
  <2>4. include_each(include_each(c, spots), perps) \in Collected
    BY <2>2, <2>3, EachType
  <2> QED
    BY <2>4 DEF include_user, spots, perps, u
<1>4. step \in [Collected \X (1..n) -> Collected]
  BY <1>3
<1>5. \E f : Loop(f)
  <2> HIDE DEF step
  <2>1. PICK f \in [0..n -> Collected] : IsRun(f, n, st, step)
    BY <1>1, <1>4, RunExists
  <2>2. ASSUME NEW i \in 1..n PROVE step[<<f[i - 1], i>>] = include_user(f[i - 1], users[i])
    BY <1>1 DEF step
  <2>3. Loop(f)
    <3>1. ASSUME NEW i \in 0..n PROVE f[i] = IF i = 0 THEN st ELSE include_user(f[i - 1], users[i])
      <4>1. i = 0 \/ i \in 1..n
        BY <1>1
      <4> QED
        BY <2>1, <2>2, <4>1, Zenon DEF IsRun
    <3>2. f = [i \in 0..n |-> f[i]]
      BY <2>1
    <3> QED
      BY <3>1, <3>2, Zenon
  <2> QED
    BY <2>3
<1>6. Loop(run)
  <2> HIDE DEF Loop
  <2> QED
    BY <1>5
<1> HIDE DEF run
<1>7. run[0] = st /\ \A i \in 1..n : run[i] = include_user(run[i - 1], users[i])
  BY <1>1, <1>6
<1> DEFINE K == {k \in 0..n : Good(run, k)}
<1>8. 0 \in K
  <2>1. M(0) = N
    OBVIOUS
  <2> HIDE DEF M
  <2> QED
    BY <1>1, <1>7, <2>1
<1>9. ASSUME NEW k \in 1..n, k - 1 \in K PROVE k \in K
  <2>1. /\ run[k - 1] \in Collected
        /\ M(k - 1) \in SUBSET Market
        /\ Right(run[k - 1], M(k - 1), W)
    BY <1>9
  <2>2. M(k) = M(k - 1) \cup holdings(users[k])
    BY <1>1
  <2>3. W \in SUBSET M(k - 1) /\ users[k] \in User
    BY <1>1
  <2> HIDE DEF M
  <2>4. Good(run, k)
    BY <1>7, <2>1, <2>2, <2>3, UserRight
  <2> HIDE DEF Good
  <2>5. k \in 0..n
    BY <1>1
  <2> QED
    BY <2>4, <2>5
<1>10. n \in K
  <2> HIDE DEF K
  <2>1. \A k \in 0..n : k \in K
    BY <1>1, <1>8, <1>9, CountUp, Zenon
  <2> QED
    BY <1>1, <2>1
<1>11. M(n) = N \cup UNION {holdings(u) : u \in ToSet(users)}
  BY <1>1 DEF ToSet
<1> HIDE DEF M
<1> QED
  BY <1>2, <1>10, <1>11

-----------------------------------------------------------------------------
(* A request, and an instruction, as the builder keeps them.                 *)
Operation ==
  {"deposit", "withdraw", "place_orders", "cancel_orders", "cancel_all_orders",
   "cancel_orders_by_id", "cancel_orders_by_user_id", "modify_orders",
   "modify_orders_by_user_id", "place_and_make", "place_and_take"}
Call == [op: Operation, users: Seq(User), readable: Seq(Market), writable: Seq(Market)]
Referrer == {"referrer stats", "referrer"}
Instruction ==
  [op: Operation \cup ComputeBudget, accounts: Seq(RemainingAccount), tail: Seq(Referrer)]

(* build_accounts: what it collects are the accounts of the markets the call *)
(* names.                                                                    *)
LEMMA BuildRight ==
  ASSUME NEW req \in Call
  PROVE  /\ build_accounts(req) \in Collected
         /\ Right(build_accounts(req), named(req), ToSet(req.writable))
<1> DEFINE W == ToSet(req.writable)
           w == marked(req.writable, TRUE)
           r == marked(req.readable, FALSE)
           written == include_each(NothingSeen, w)
           given == include_each(written, r)
           N == W \cup ToSet(req.readable)
           M == N \cup UNION {holdings(u) : u \in ToSet(req.users)}
           users == include_users(given, req.users)
<1>1. req.users \in Seq(User) /\ req.readable \in Seq(Market) /\ req.writable \in Seq(Market)
  BY DEF Call
<1>2. W \in SUBSET Market /\ N \in SUBSET Market
  BY <1>1 DEF ToSet
<1>3. QUOTE_SPOT \in Market
  BY DEF QUOTE_SPOT, Market
<1>4. NothingSeen \in Collected /\ Right(NothingSeen, {}, W)
  <2>1. NothingSeen \in Collected
    BY DEF NothingSeen, Collected, Sorted
  <2>2. Serves({}, {}, W) /\ ToSet(NothingSeen.accounts) = accounts_of({}, W)
    BY DEF NothingSeen, Serves, Distinct, accounts_of, ToSet
  <2>3. NothingSeen.seen = {bit(m) : m \in {}}
    BY DEF NothingSeen
  <2> QED
    BY <2>1, <2>2, <2>3 DEF Right
<1>5. /\ w \in Seq(Inclusion) /\ Fits(w, {}, W) /\ W = {} \cup Included(w, Len(w))
      /\ r \in Seq(Inclusion) /\ Fits(r, W, W) /\ N = W \cup Included(r, Len(r))
  BY <1>1, MarkedRight
<1>6. build_accounts(req) = include_market(users, QUOTE_SPOT, FALSE)
  BY DEF build_accounts
<1>7. named(req) = M \cup {QUOTE_SPOT}
  BY DEF named, holdings
<1>8. W \subseteq N
  OBVIOUS
<1> HIDE DEF W, w, r, N
<1>9. written \in Collected /\ Right(written, W, W)
  BY <1>2, <1>4, <1>5, EachRight
<1> HIDE DEF written
<1>10. given \in Collected /\ Right(given, N, W)
  BY <1>2, <1>5, <1>9, EachRight
<1> HIDE DEF given
<1>11. users \in Collected /\ M \in SUBSET Market /\ Right(users, M, W)
  BY <1>1, <1>2, <1>8, <1>10, UsersRight
<1>12. W \subseteq M
  BY <1>8
<1> HIDE DEF users, M
<1>13. include_market(users, QUOTE_SPOT, FALSE) \in Collected
  BY <1>3, <1>11, IncludeType
<1>14. Right(include_market(users, QUOTE_SPOT, FALSE), M \cup {QUOTE_SPOT}, W)
  BY <1>2, <1>3, <1>11, <1>12, IncludeRight
<1> QED
  BY <1>6, <1>7, <1>13, <1>14 DEF W

-----------------------------------------------------------------------------
(* The instructions of the calls are those build_accounts made for them.     *)
Built(i) ==
  LET built == build_accounts(calls[i])
  IN ~built.panicked /\ instruction(i).accounts = built.accounts

BuilderInv ==
  /\ account_data \in User
  /\ ixs \in Seq(Instruction)
  /\ calls \in Seq(Call)
  /\ InstructionsInOrder
  /\ \A i \in DOMAIN ixs : Sorted(ixs[i].accounts)
  /\ \A i \in DOMAIN calls : Built(i)

LEMMA BuilderInvImplies ==
  ASSUME BuilderInv
  PROVE  AccountsExact /\ OnePerBit /\ AccountsSorted /\ InstructionsInOrder
<1>1. AccountsExact /\ OnePerBit
  <2>1. SUFFICES ASSUME NEW i \in DOMAIN calls
                 PROVE  LET req      == calls[i]
                            written  == ToSet(req.writable)
                            accounts == ToSet(instruction(i).accounts)
                            served   == {m \in named(req) \cap DOMAIN KeyOf :
                                           market_account(m, m \in written) \in accounts}
                        IN /\ accounts = accounts_of(served, written)
                           /\ Serves(served, named(req), written)
                           /\ ~share_bit(req) => served = named(req)
    BY DEF AccountsExact, OnePerBit, Serves, Distinct
  <2> DEFINE req == calls[i]
             W == ToSet(req.writable)
             accounts == ToSet(instruction(i).accounts)
             served == {m \in named(req) \cap DOMAIN KeyOf : market_account(m, m \in W) \in accounts}
  <2>2. req \in Call /\ Built(i)
    BY DEF BuilderInv
  <2>3. Right(build_accounts(req), named(req), W)
    BY <2>2, BuildRight
  <2>4. PICK P \in SUBSET (DOMAIN KeyOf) : Serves(P, named(req), W) /\ accounts = accounts_of(P, W)
    BY <2>2, <2>3 DEF Built, Right
  <2> HIDE DEF W, req, accounts
  <2>5. served = P
    <3>1. P \subseteq served
      BY <2>4 DEF Serves, accounts_of
    <3>2. ASSUME NEW m \in named(req) \cap DOMAIN KeyOf, market_account(m, m \in W) \in accounts
          PROVE  m \in P
      <4>1. m.kind # "oracle"
        BY BuilderAssumption DEF Market
      <4>2. market_account(m, m \in W).type = m.kind /\ market_account(m, m \in W).pubkey = KeyOf[m]
        BY DEF market_account
      <4>3. ASSUME NEW n \in P
            PROVE  oracle_account(n).type = "oracle" /\ market_account(n, n \in W).pubkey = KeyOf[n]
        BY DEF market_account, oracle_account
      <4>4. PICK n \in P : market_account(m, m \in W) = market_account(n, n \in W)
        BY <2>4, <3>2, <4>1, <4>2, <4>3 DEF accounts_of
      <4>5. KeyOf[m] = KeyOf[n]
        BY <4>2, <4>3, <4>4
      <4> QED
        BY <4>5, BuilderAssumption
    <3> QED
      BY <3>1, <3>2
  <2>6. ~share_bit(req) => P = named(req)
    BY <2>4 DEF share_bit, Serves
  <2> QED
    BY <2>4, <2>5, <2>6 DEF W, req, accounts
<1>2. AccountsSorted
  <2> SUFFICES ASSUME NEW i \in DOMAIN ixs, NEW j \in 1..(Len(ixs[i].accounts) - 1)
               PROVE  before(ixs[i].accounts[j], ixs[i].accounts[j + 1])
    BY DEF AccountsSorted
  <2>1. ixs[i] \in Instruction /\ Sorted(ixs[i].accounts)
    BY DEF BuilderInv
  <2>2. ixs[i].accounts \in Seq(RemainingAccount)
    BY <2>1 DEF Instruction
  <2>3. j \in DOMAIN ixs[i].accounts /\ j + 1 \in DOMAIN ixs[i].accounts /\ j < j + 1
    BY <2>2
  <2> QED
    BY <2>1, <2>3 DEF Sorted
<1> QED
  BY <1>1, <1>2 DEF BuilderInv

LEMMA BuilderInvInit ==
  BuilderInit => BuilderInv
BY BuilderAssumption DEF BuilderInit, BuilderInv, InstructionsInOrder

LEMMA ConcatRight ==
  ASSUME NEW T, NEW s \in Seq(T), NEW t \in Seq(T)
  PROVE  /\ s \o t \in Seq(T) /\ Len(s \o t) = Len(s) + Len(t)
         /\ \A i \in 1..Len(s) : (s \o t)[i] = s[i]
         /\ \A i \in 1..Len(t) : (s \o t)[Len(s) + i] = t[i]
OBVIOUS

(* A call adds an instruction for each of its entries, at the end.           *)
LEMMA AddKeeps ==
  ASSUME BuilderInv, NEW req \in Call, NEW tail \in Seq(Referrer), NEW n \in Nat, Add(req, tail, n)
  PROVE  BuilderInv'
<1> DEFINE built == build_accounts(req)
           ix == [op |-> req.op, accounts |-> built.accounts, tail |-> tail]
           more == [i \in 1..n |-> ix]
           same == [i \in 1..n |-> req]
<1>1. account_data' = account_data
  BY DEF Add
<1>2. CASE built.panicked
  <2>1. ixs' = ixs /\ calls' = calls
    BY <1>2 DEF Add
  <2> QED
    BY <1>1, <2>1 DEF BuilderInv, InstructionsInOrder, instruction, Built
<1>3. CASE ~built.panicked
  <2>1. ixs' = ixs \o more /\ calls' = calls \o same
    BY <1>3 DEF Add
  <2>2. built \in Collected
    BY BuildRight
  <2>3. built.accounts \in Seq(RemainingAccount) /\ Sorted(built.accounts)
    BY <2>2 DEF Collected
  <2>4. ix \in Instruction /\ ix.op = req.op /\ ix.accounts = built.accounts
    BY <2>3 DEF Instruction, Call
  <2> DEFINE k == Len(ixs)
             c == Len(calls)
  <2>5. /\ ixs \in Seq(Instruction) /\ k \in Nat /\ DOMAIN ixs = 1..k
        /\ calls \in Seq(Call) /\ c \in Nat /\ DOMAIN calls = 1..c
        /\ c <= k
    BY DEF BuilderInv, InstructionsInOrder
  <2> HIDE DEF built, ix
  <2>6. /\ more \in Seq(Instruction) /\ Len(more) = n /\ \A i \in 1..n : more[i] = ix
        /\ same \in Seq(Call) /\ Len(same) = n /\ \A i \in 1..n : same[i] = req
    BY <2>4
  <2> HIDE DEF more, same
  <2>7. /\ ixs' \in Seq(Instruction) /\ Len(ixs') = k + n
        /\ \A i \in 1..k : ixs'[i] = ixs[i]
        /\ \A i \in 1..n : ixs'[k + i] = ix
    <3>1. /\ ixs \o more \in Seq(Instruction) /\ Len(ixs \o more) = k + Len(more)
          /\ \A i \in 1..k : (ixs \o more)[i] = ixs[i]
          /\ \A i \in 1..Len(more) : (ixs \o more)[k + i] = more[i]
      <4>1. ixs \in Seq(Instruction) /\ more \in Seq(Instruction)
        BY <2>5, <2>6
      <4> QED
        BY <4>1, ConcatRight
    <3> QED
      BY <2>1, <2>6, <3>1, Zenon
  <2>8. /\ calls' \in Seq(Call) /\ Len(calls') = c + n
        /\ \A i \in 1..c : calls'[i] = calls[i]
        /\ \A i \in 1..n : calls'[c + i] = req
    <3>1. /\ calls \o same \in Seq(Call) /\ Len(calls \o same) = c + Len(same)
          /\ \A i \in 1..c : (calls \o same)[i] = calls[i]
          /\ \A i \in 1..Len(same) : (calls \o same)[c + i] = same[i]
      <4>1. calls \in Seq(Call) /\ same \in Seq(Call)
        BY <2>5, <2>6
      <4> QED
        BY <4>1, ConcatRight
    <3> QED
      BY <2>1, <2>6, <3>1, Zenon
  <2> HIDE DEF k, c
  <2>9. Len(ixs') - Len(calls') = k - c
    BY <2>5, <2>7, <2>8
  <2> DEFINE later(i) == ixs'[Len(ixs') - Len(calls') + i]
  <2>10. /\ \A i \in 1..c : later(i) = instruction(i)
         /\ \A i \in 1..n : later(c + i) = ix
    <3>1. ASSUME NEW i \in 1..c PROVE ixs'[k - c + i] = ixs[k - c + i]
      <4>1. k - c + i \in 1..k
        BY <2>5
      <4> QED
        BY <2>7, <4>1
    <3>2. ASSUME NEW i \in 1..n PROVE ixs'[k - c + (c + i)] = ix
      <4>1. k - c + (c + i) = k + i
        BY <2>5
      <4> QED
        BY <2>7, <4>1
    <3> QED
      BY <2>9, <3>1, <3>2 DEF instruction, k, c
  <2> HIDE DEF later
  <2>11. ASSUME NEW i \in DOMAIN calls' PROVE i \in 1..c \/ \E j \in 1..n : i = c + j
    <3>1. i \in 1..(c + n)
      BY <2>5, <2>8
    <3>2. CASE i > c
      <4>1. i - c \in 1..n /\ i = c + (i - c)
        BY <2>5, <3>1, <3>2
      <4> QED
        BY <4>1
    <3> QED
      BY <2>5, <3>1, <3>2
  <2>12. InstructionsInOrder'
    <3>1. Len(calls') <= Len(ixs')
      BY <2>5, <2>7, <2>8
    <3>2. ASSUME NEW i \in 1..(Len(ixs') - Len(calls')) PROVE ixs'[i].op \in ComputeBudget
      <4>1. i \in 1..(k - c) /\ i \in 1..k
        BY <2>5, <2>9
      <4> QED
        BY <2>7, <4>1 DEF BuilderInv, InstructionsInOrder, k, c
    <3>3. ASSUME NEW i \in DOMAIN calls' PROVE later(i).op = calls'[i].op
      <4>1. CASE i \in 1..c
        BY <2>5, <2>8, <2>10, <4>1 DEF BuilderInv, InstructionsInOrder
      <4>2. CASE \E j \in 1..n : i = c + j
        BY <2>4, <2>8, <2>10, <4>2
      <4> QED
        BY <2>11, <4>1, <4>2
    <3> QED
      BY <3>1, <3>2, <3>3 DEF InstructionsInOrder, instruction, later
  <2>13. ASSUME NEW i \in DOMAIN ixs' PROVE Sorted(ixs'[i].accounts)
    <3>1. i \in 1..(k + n)
      BY <2>5, <2>7
    <3>2. CASE i \in 1..k
      BY <2>5, <2>7, <3>2 DEF BuilderInv
    <3>3. CASE i > k
      <4>1. i - k \in 1..n /\ i = k + (i - k)
        BY <2>5, <3>1, <3>3
      <4>2. ixs'[i] = ix
        BY <2>7, <4>1
      <4> QED
        BY <2>3, <2>4, <4>2
    <3> QED
      BY <2>5, <3>1, <3>2, <3>3
  <2>14. ASSUME NEW i \in DOMAIN calls' PROVE Built(i)'
    <3> SUFFICES /\ ~build_accounts(calls'[i]).panicked
                 /\ later(i).accounts = build_accounts(calls'[i]).accounts
      BY DEF Built, instruction, later
    <3>1. CASE i \in 1..c
      BY <2>5, <2>8, <2>10, <3>1 DEF BuilderInv, Built
    <3>2. ASSUME NEW j \in 1..n, i = c + j
          PROVE  /\ ~build_accounts(calls'[i]).panicked
                 /\ later(i).accounts = build_accounts(calls'[i]).accounts
      BY <1>3, <2>4, <2>8, <2>10, <3>2 DEF built
    <3> QED
      BY <2>11, <3>1, <3>2
  <2> QED
    BY <1>1, <2>7, <2>8, <2>12, <2>13, <2>14 DEF BuilderInv
<1> QED
  BY <1>2, <1>3

(* Compute budget instructions go in front of all others.                    *)
LEMMA FeeKeeps ==
  ASSUME BuilderInv, NEW limited \in BOOLEAN, with_priority_fee(limited)
  PROVE  BuilderInv'
<1> DEFINE front == <<budget("price")>> \o (IF limited THEN <<budget("limit")>> ELSE <<>>)
           f == Len(front)
           k == Len(ixs)
           c == Len(calls)
<1>1. ixs' = front \o ixs /\ calls' = calls /\ account_data' = account_data
  BY DEF with_priority_fee
<1>2. /\ budget("price") \in Instruction /\ budget("price").op \in ComputeBudget
      /\ budget("limit") \in Instruction /\ budget("limit").op \in ComputeBudget
      /\ budget("price").accounts = <<>> /\ budget("limit").accounts = <<>>
  <2>1. ASSUME NEW op \in ComputeBudget
        PROVE  budget(op) \in Instruction /\ budget(op).op = op /\ budget(op).accounts = <<>>
    BY DEF budget, Instruction
  <2>2. "price" \in ComputeBudget /\ "limit" \in ComputeBudget
    BY DEF ComputeBudget
  <2> QED
    BY <2>1, <2>2
<1>3. /\ front \in Seq(Instruction) /\ f \in 1..2
      /\ \A i \in 1..f : front[i] \in {budget("price"), budget("limit")}
  <2>1. CASE limited
    <3>1. front = <<budget("price")>> \o <<budget("limit")>>
      BY <2>1
    <3> HIDE DEF front
    <3> QED
      BY <1>2, <3>1
  <2>2. CASE ~limited
    <3>1. front = <<budget("price")>>
      BY <2>2
    <3> QED
      BY <1>2, <3>1
  <2> QED
    BY <2>1, <2>2
<1>4. /\ ixs \in Seq(Instruction) /\ k \in Nat /\ DOMAIN ixs = 1..k
      /\ calls \in Seq(Call) /\ c \in Nat /\ DOMAIN calls = 1..c
      /\ c <= k
  BY DEF BuilderInv, InstructionsInOrder
<1> HIDE DEF front
<1>5. /\ ixs' \in Seq(Instruction) /\ Len(ixs') = f + k
      /\ \A i \in 1..f : ixs'[i] = front[i]
      /\ \A i \in 1..k : ixs'[f + i] = ixs[i]
  BY <1>1, <1>3, <1>4, ConcatRight
<1> HIDE DEF f, k, c
<1> DEFINE later(i) == ixs'[Len(ixs') - Len(calls') + i]
<1>6. ASSUME NEW i \in 1..c PROVE later(i) = instruction(i)
  <2>1. k - c + i \in 1..k /\ f + k - c + i = f + (k - c + i)
    BY <1>3, <1>4
  <2>2. ixs'[f + k - c + i] = ixs[k - c + i]
    BY <1>5, <2>1
  <2>3. Len(ixs') - Len(calls') + i = f + k - c + i
    BY <1>1, <1>3, <1>4, <1>5 DEF c
  <2> QED
    BY <2>2, <2>3 DEF instruction, k, c
<1> HIDE DEF later
<1>7. ASSUME NEW i \in 1..(f + k) PROVE i \in 1..f \/ \E j \in 1..k : i = f + j
  <2>1. CASE i > f
    <3>1. i - f \in 1..k /\ i = f + (i - f)
      BY <1>3, <1>4, <2>1
    <3> QED
      BY <3>1
  <2> QED
    BY <1>3, <1>4, <2>1
<1>8. InstructionsInOrder'
  <2>1. Len(calls') <= Len(ixs')
    BY <1>1, <1>3, <1>4, <1>5 DEF c
  <2>2. ASSUME NEW i \in 1..(Len(ixs') - Len(calls')) PROVE ixs'[i].op \in ComputeBudget
    <3>1. i \in 1..(f + k - c) /\ i \in 1..(f + k)
      BY <1>1, <1>3, <1>4, <1>5 DEF c
    <3>2. CASE i \in 1..f
      <4>1. front[i] \in {budget("price"), budget("limit")}
        BY <1>3, <3>2
      <4> QED
        BY <1>2, <1>5, <3>2, <4>1
    <3>3. ASSUME NEW j \in 1..k, i = f + j PROVE ixs'[i].op \in ComputeBudget
      <4>1. j \in 1..(k - c)
        BY <1>3, <1>4, <3>1, <3>3
      <4>2. ixs[j].op \in ComputeBudget
        BY <4>1 DEF BuilderInv, InstructionsInOrder, k, c
      <4> QED
        BY <1>5, <3>3, <4>2
    <3> QED
      BY <1>7, <3>1, <3>2, <3>3
  <2>3. ASSUME NEW i \in DOMAIN calls' PROVE later(i).op = calls'[i].op
    BY <1>1, <1>4, <1>6 DEF BuilderInv, InstructionsInOrder
  <2> QED
    BY <2>1, <2>2, <2>3 DEF InstructionsInOrder, instruction, later
<1>9. ASSUME NEW i \in DOMAIN ixs' PROVE Sorted(ixs'[i].accounts)
  <2>1. i \in 1..(f + k)
    BY <1>3, <1>4, <1>5
  <2>2. CASE i \in 1..f
    <3>1. ixs'[i].accounts = <<>>
      BY <1>2, <1>3, <1>5, <2>2
    <3> QED
      BY <3>1 DEF Sorted
  <2>3. ASSUME NEW j \in 1..k, i = f + j PROVE Sorted(ixs'[i].accounts)
    BY <1>4, <1>5, <2>3 DEF BuilderInv
  <2> QED
    BY <1>7, <2>1, <2>2, <2>3
<1>10. ASSUME NEW i \in DOMAIN calls' PROVE Built(i)'
  <2>1. Built(i) /\ calls'[i] = calls[i] /\ later(i) = instruction(i)
    BY <1>1, <1>4, <1>6 DEF BuilderInv
  <2> QED
    BY <2>1 DEF Built, instruction, later
<1> QED
  BY <1>1, <1>5, <1>8, <1>9, <1>10 DEF BuilderInv

LEMMA TailType ==
  <<>> \in Seq(Referrer) /\ referrer_accounts \in Seq(Referrer)
BY DEF referrer_accounts, Referrer

LEMMA RequestType ==
  ASSUME NEW op \in Operation, NEW users \in Seq(User),
         NEW readable \in Seq(Market), NEW writable \in Seq(Market)
  PROVE  Request(op, users, readable, writable) \in Call
BY DEF Request, Call

LEMMA WritableType ==
  ASSUME NEW m \in Market PROVE writable_markets(m) \in Seq(Market)
<1>1. QUOTE_SPOT \in Market
  BY DEF QUOTE_SPOT, Market
<1> QED
  BY <1>1 DEF writable_markets

(* BuilderInv is inductive.                                                  *)
LEMMA BuilderInvNext ==
  ASSUME BuilderInv, [BuilderNext]_builder_vars
  PROVE  BuilderInv'
<1>1. account_data \in User /\ <<account_data>> \in Seq(User)
  BY DEF BuilderInv
<1>2. /\ MarketId \subseteq Market /\ Counterparties \subseteq User /\ MaxCalls \in Nat
      /\ OrderLists \subseteq Seq(Market)
  BY BuilderAssumption
<1>3. <<>> \in Seq(Market) /\ 1 \in Nat
  OBVIOUS
<1>4. \A op \in {"deposit", "withdraw", "place_orders", "cancel_orders", "cancel_all_orders",
                 "cancel_orders_by_id", "cancel_orders_by_user_id", "modify_orders",
                 "modify_orders_by_user_id", "place_and_make", "place_and_take"} : op \in Operation
  BY DEF Operation
<1>5. ASSUME NEW op \in {"deposit", "withdraw"}, NEW m \in MarketId, Transfer(op, m)
      PROVE  BuilderInv'
  <2>1. Request(op, <<account_data>>, <<>>, <<m>>) \in Call
    <3>1. <<m>> \in Seq(Market) /\ op \in Operation
      BY <1>2 DEF Operation
    <3> QED
      BY <1>1, <1>3, <3>1, RequestType
  <2> QED
    BY <1>3, <1>5, <2>1, AddKeeps, TailType DEF Transfer
<1>6. ASSUME NEW markets \in OrderLists, place_orders(markets)
      PROVE  BuilderInv'
  <2>1. Request("place_orders", <<account_data>>, markets, <<>>) \in Call
    <3>1. markets \in Seq(Market) /\ "place_orders" \in Operation
      BY <1>2 DEF Operation
    <3> QED
      BY <1>1, <1>3, <3>1, RequestType
  <2> QED
    BY <1>3, <1>6, <2>1, AddKeeps, TailType DEF place_orders
<1>7. ASSUME NEW m \in MarketId, cancel_orders(m)
      PROVE  BuilderInv'
  <2>1. Request("cancel_orders", <<account_data>>, <<m>>, <<>>) \in Call
    <3>1. <<m>> \in Seq(Market) /\ "cancel_orders" \in Operation
      BY <1>2 DEF Operation
    <3> QED
      BY <1>1, <1>3, <3>1, RequestType
  <2> QED
    BY <1>3, <1>7, <2>1, AddKeeps, TailType DEF cancel_orders
<1>8. ASSUME NEW op \in Operation, NEW n \in Nat,
             Add(Request(op, <<account_data>>, <<>>, <<>>), <<>>, n)
      PROVE  BuilderInv'
  <2>1. Request(op, <<account_data>>, <<>>, <<>>) \in Call
    BY <1>1, <1>3, RequestType
  <2> QED
    BY <1>8, <2>1, AddKeeps, TailType
<1>9. ASSUME NEW m \in MarketId, NEW makers \in Seq(User), NEW referrer,
             place_and_take(m, makers, referrer)
      PROVE  BuilderInv'
  <2> DEFINE tail == IF referrer \in {"none", "maker"} THEN <<>> ELSE referrer_accounts
             req == Request("place_and_take", <<account_data>> \o makers, <<>>, writable_markets(m))
  <2>1. tail \in Seq(Referrer)
    BY TailType
  <2>2. req \in Call
    <3>1. <<account_data>> \o makers \in Seq(User)
      BY <1>1
    <3>2. writable_markets(m) \in Seq(Market)
      BY <1>2, WritableType
    <3>3. "place_and_take" \in Operation
      BY DEF Operation
    <3> QED
      BY <1>3, <3>1, <3>2, <3>3, RequestType
  <2>3. Add(req, tail, 1)
    BY <1>9 DEF place_and_take
  <2> HIDE DEF req, tail
  <2> QED
    BY <1>3, <2>1, <2>2, <2>3, AddKeeps
<1>10. ASSUME NEW m \in MarketId, NEW taker \in Counterparties, NEW referrer,
              place_and_make(m, taker, referrer)
       PROVE  BuilderInv'
  <2> DEFINE tail == IF referrer = "none" THEN <<>> ELSE referrer_accounts
             req == Request("place_and_make", <<account_data, taker>>, <<>>, writable_markets(m))
  <2>1. tail \in Seq(Referrer)
    BY TailType
  <2>2. req \in Call
    <3>1. <<account_data, taker>> \in Seq(User)
      BY <1>1, <1>2
    <3>2. writable_markets(m) \in Seq(Market)
      BY <1>2, WritableType
    <3>3. "place_and_make" \in Operation
      BY DEF Operation
    <3> QED
      BY <1>3, <3>1, <3>2, <3>3, RequestType
  <2>3. Add(req, tail, 1)
    BY <1>10 DEF place_and_make
  <2> HIDE DEF req, tail
  <2> QED
    BY <1>3, <2>1, <2>2, <2>3, AddKeeps
<1>11. ASSUME UNCHANGED <<account_data, ixs, calls>> PROVE BuilderInv'
  BY <1>11 DEF BuilderInv, InstructionsInOrder, instruction, Built
<1>12. CASE \E m \in MarketId :
              \/ Transfer("deposit", m) \/ Transfer("withdraw", m)
              \/ cancel_orders(m)
              \/ \E referrer \in {"none", "other"} : place_and_take(m, <<>>, referrer)
              \/ \E other \in Counterparties :
                   \/ \E referrer \in {"none", "other"} : place_and_make(m, other, referrer)
                   \/ \E referrer \in {"none", "maker", "other"} : place_and_take(m, <<other>>, referrer)
  <2>1. <<>> \in Seq(User) /\ \A u \in Counterparties : <<u>> \in Seq(User)
    BY <1>2
  <2> QED
    BY <1>5, <1>7, <1>9, <1>10, <1>12, <2>1, Zenon
<1>13. CASE Cancel("cancel_all_orders") \/ Cancel("cancel_orders_by_id")
  BY <1>3, <1>4, <1>8, <1>13 DEF Cancel
<1>14. CASE \E n \in 0..MaxCalls :
              \/ ForEachOrder("cancel_orders_by_user_id", n)
              \/ ForEachOrder("modify_orders", n)
              \/ ForEachOrder("modify_orders_by_user_id", n)
  <2>1. 0..MaxCalls \subseteq Nat
    OBVIOUS
  <2> QED
    BY <1>4, <1>8, <1>14, <2>1, Zenon DEF ForEachOrder
<1>15. CASE \E limited \in BOOLEAN : with_priority_fee(limited)
  BY <1>15, FeeKeeps
<1>16. CASE set_legacy \/ set_lookup_tables \/ build \/ UNCHANGED builder_vars
  BY <1>11, <1>16 DEF set_legacy, set_lookup_tables, build, builder_vars
<1> QED
  BY <1>6, <1>12, <1>13, <1>14, <1>15, <1>16 DEF BuilderNext

LEMMA BuilderInvariant ==
  BuilderSpec => []BuilderInv
<1>1. BuilderInv /\ [BuilderNext]_builder_vars => BuilderInv'
  BY BuilderInvNext
<1> QED
  BY <1>1, BuilderInvInit, PTL DEF BuilderSpec

(* Unless two of these markets share a bit of `seen', build_accounts gives   *)
(* an instruction the accounts of the markets that its call names and its    *)
(* users hold, writable where the call writes, and no other                  *)
(* (lib.rs:1615-1695).                                                       *)
THEOREM BuilderAccountsExact == BuilderSpec => []AccountsExact
<1>1. BuilderInv => AccountsExact
  BY BuilderInvImplies
<1> QED
  BY <1>1, BuilderInvariant, PTL

(* Of markets that share a bit exactly one, a known one, has its accounts in *)
(* the instruction, one that is written if there is one (lib.rs:1628-1633).  *)
THEOREM BuilderOnePerBit == BuilderSpec => []OnePerBit
<1>1. BuilderInv => OnePerBit
  BY BuilderInvImplies
<1> QED
  BY <1>1, BuilderInvariant, PTL

(* binary_search and insert keep the accounts in the order the program reads *)
(* them in, none twice (lib.rs:1662-1668).                                   *)
THEOREM BuilderAccountsSorted == BuilderSpec => []AccountsSorted
<1>1. BuilderInv => AccountsSorted
  BY BuilderInvImplies
<1> QED
  BY <1>1, BuilderInvariant, PTL

(* Whenever with_priority_fee is called, and however often, the compute      *)
(* budget leads and an instruction per call and order follows, in the order  *)
(* of the calls (lib.rs:1136-1145).                                          *)
THEOREM BuilderInstructionsInOrder == BuilderSpec => []InstructionsInOrder
<1>1. BuilderInv => InstructionsInOrder
  BY BuilderInvImplies
<1> QED
  BY <1>1, BuilderInvariant, PTL
=============================================================================
