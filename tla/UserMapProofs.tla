---------------------------- MODULE UserMapProofs ----------------------------
(***************************************************************************)
(* Proofs about UserMap, for every set of accounts and every bound: its     *)
(* types, which tasks may run unstopped, when a task gives up, that a       *)
(* subscription whose task ended by itself is lost for good, and what the   *)
(* handler threads leave in the map.                                        *)
(*                                                                         *)
(* The argument about the map: emit() appends one update to all queues at   *)
(* once, so whichever queue still has an update of an account, the last one *)
(* it has is the last one emitted (QueuesEndWithEmitted); an entry that is  *)
(* not the last emitted update therefore still has a queued update to       *)
(* overwrite it (StaleOverwritten).  With a single task there is a single   *)
(* queue, whose slots never fall and never fall below the map's             *)
(* (OneTaskInOrder), since latest_slot outlives every reconnection.         *)
(***************************************************************************)
EXTENDS UserMap, TLAPS, SequenceTheorems, WellFoundedInduction

(* Between the spawning of a task and the registration of its handler there  *)
(* is one handler less than tasks.                                           *)
HandlersRegistered ==
  /\ Len(subscribers) <= Len(tasks)
  /\ call = "handler" => Len(subscribers) < Len(tasks)

SubscribedHasTask == subscribed => tasks # <<>>

(* How often a task has counted, by where it is and how many of its          *)
(* subscriptions failed.                                                     *)
Counted(task) ==
  LET twice == 2 * task.failures
  IN /\ task.pc = "connect" => /\ task.attempt \in {twice, twice + 1}
                               /\ task.attempt <= max_reconnection_attempts
     /\ task.pc = "delay" => /\ task.attempt \in {twice - 1, twice}
                             /\ task.attempt < max_reconnection_attempts
     /\ task.pc = "select" => task.attempt = 0 /\ twice = 0
     /\ task.pc = "gave_up" => /\ twice >= max_reconnection_attempts
                               /\ twice < max_reconnection_attempts + 3

AttemptsCounted == \A t \in DOMAIN tasks : Counted(tasks[t])

(* The last update of an account in any queue is the last one emitted.       *)
QueuesEndWithEmitted ==
  \A h \in DOMAIN subscribers : \A i \in DOMAIN subscribers[h] :
    LET q == subscribers[h]
    IN (\A j \in DOMAIN q : j > i => q[j][1] # q[i][1]) => q[i][2] = emitted[q[i][1]]

(* An entry that is not the last emitted update is going to be overwritten.  *)
StaleOverwritten ==
  \A k \in Account :
    usermap[k].via = "ws" =>
      \/ usermap[k].slot = emitted[k]
      \/ \E h \in DOMAIN subscribers : \E i \in DOMAIN subscribers[h] : subscribers[h][i][1] = k

OneTaskInOrder ==
  /\ Len(tasks) = 0 => \A k \in Account : usermap[k].via # "ws"
  /\ Len(tasks) = 1 =>
       /\ \A k \in Account : usermap[k].via = "ws" => usermap[k].slot <= tasks[1].latest_slot
       /\ \A h \in DOMAIN subscribers : \A i \in DOMAIN subscribers[h] :
            /\ subscribers[h][i][2] <= tasks[1].latest_slot
            /\ \A j \in DOMAIN subscribers[h] : i <= j => subscribers[h][i][2] <= subscribers[h][j][2]
            /\ \A k \in Account : usermap[k].via = "ws" => usermap[k].slot <= subscribers[h][i][2]

IInv ==
  /\ TypeOK
  /\ HandlersRegistered
  /\ SubscribedHasTask
  /\ OneTaskUnstopped
  /\ AttemptsCounted
  /\ QueuesEndWithEmitted
  /\ StaleOverwritten
  /\ OneTaskInOrder

-----------------------------------------------------------------------------
LEMMA FcnIsSeq ==
  ASSUME NEW S, NEW n \in Nat, NEW f \in [1..n -> S]
  PROVE  f \in Seq(S) /\ Len(f) = n /\ DOMAIN f = 1..n
  OBVIOUS

(* There is always a latest slot, up to s, that wrote the account or 0.      *)
LEMMA AsOfType ==
  ASSUME NEW k, NEW s \in Nat
  PROVE  AsOf(k, s) \in 0..s
<1> DEFINE P(n) == n = 0 \/ <<k, n>> \in updates
           T == {d \in Nat : d <= s /\ P(s - d)}
           R == OpToRel(<, Nat)
<1>1. s \in T
  OBVIOUS
<1>2. PICK d \in T : \A e \in T : ~(<<e, d>> \in R)
  <2>1. T \subseteq Nat /\ T # {}
    BY <1>1
  <2>2. IsWellFoundedOn(R, Nat)
    BY NatLessThanWellFounded
  <2> HIDE DEF T, R
  <2> QED
    BY <2>1, <2>2, WFMin
<1>3. \A e \in T : ~(e < d)
  BY <1>2 DEF OpToRel
<1> DEFINE n == s - d
<1>4. n \in 0..s /\ P(n)
  OBVIOUS
<1>5. \A m \in (n + 1)..s : <<k, m>> \notin updates
  <2> SUFFICES ASSUME NEW m \in (n + 1)..s, <<k, m>> \in updates PROVE FALSE
    OBVIOUS
  <2>1. s - m \in Nat /\ s - m < d /\ s - (s - m) = m
    OBVIOUS
  <2>2. s - m \in T
    BY <2>1
  <2> QED
    BY <1>3, <2>1, <2>2
<1>6. \E x \in 0..s : P(x) /\ \A m \in (x + 1)..s : <<k, m>> \notin updates
  BY <1>4, <1>5
<1> QED
  BY <1>6 DEF AsOf

-----------------------------------------------------------------------------
(* What a step makes of the task that takes it.                              *)
Advances(task, next) ==
  /\ next \in Task
  /\ Counted(next)
  /\ next.stop = task.stop
  /\ Live(next) => Live(task)
  /\ next.latest_slot >= task.latest_slot

LEMMA TaskStepKeeps ==
  ASSUME IInv, NEW t \in DOMAIN tasks, TaskStep(t)
  PROVE  /\ UNCHANGED <<chain_vars, subscribed>>
         /\ \E next : /\ tasks' = [tasks EXCEPT ![t] = next]
                      /\ Advances(tasks[t], next)
                      /\ \/ UNCHANGED <<subscribers, emitted>>
                         \/ \E u \in updates : next.latest_slot = u[2] /\ emit(u)
<1> DEFINE task == tasks[t]
<1>0. task \in Task /\ Counted(task)
  BY LenProperties DEF IInv, TypeOK, AttemptsCounted
<1>a. max_reconnection_attempts \in Nat \ {0} /\ MaxSlot \in Nat
  BY SubscriberAssumption
<1>1. UNCHANGED <<chain_vars, subscribed>>
  BY DEF TaskStep, ConnectFails, SubscribeOk, SubscribeErr, Message, StreamEnds, Stop, WakeUp
<1>2. CASE ConnectFails(t) \/ Stop(t)
  <2> DEFINE next == [task EXCEPT !.pc = "ended"]
  <2>1. tasks' = [tasks EXCEPT ![t] = next] /\ UNCHANGED <<subscribers, emitted>>
    BY <1>2 DEF ConnectFails, Stop
  <2>2. Live(task)
    BY <1>2 DEF ConnectFails, Stop, Live
  <2>3. Advances(task, next)
    BY <1>0, <1>a, <2>2 DEF Advances, Task, Counted, Live
  <2> QED
    BY <1>1, <2>1, <2>3
<1>3. CASE SubscribeOk(t)
  <2> DEFINE next == [task EXCEPT !.pc = "select", !.attempt = 0, !.failures = 0]
  <2>1. tasks' = [tasks EXCEPT ![t] = next] /\ UNCHANGED <<subscribers, emitted>>
    BY <1>0, <1>3 DEF SubscribeOk, Task
  <2>2. task.pc = "connect"
    BY <1>3 DEF SubscribeOk
  <2>3. /\ next \in Task
        /\ next.pc = "select" /\ next.attempt = 0 /\ next.failures = 0
        /\ next.stop = task.stop /\ next.latest_slot = task.latest_slot
    BY <1>0 DEF Task
  <2> HIDE DEF next
  <2>4. Counted(next)
    BY <1>0, <1>a, <2>2, <2>3 DEF Counted, Task
  <2>5. Advances(task, next)
    BY <1>0, <1>a, <2>2, <2>3, <2>4 DEF Advances, Live, Task
  <2> QED
    BY <1>1, <2>1, <2>5
<1>4. CASE SubscribeErr(t)
  <2> DEFINE p == IF task.attempt + 1 >= max_reconnection_attempts THEN "gave_up" ELSE "delay"
             a == task.attempt + 1
             f == task.failures + 1
             next == [task EXCEPT !.pc = p, !.attempt = a, !.failures = f]
  <2>1. tasks' = [tasks EXCEPT ![t] = next] /\ UNCHANGED <<subscribers, emitted>>
    BY <1>0, <1>4 DEF SubscribeErr, Task
  <2>2. task.pc = "connect"
    BY <1>4 DEF SubscribeErr
  <2>3. /\ next \in Task
        /\ next.pc = p /\ next.attempt = task.attempt + 1 /\ next.failures = task.failures + 1
        /\ next.stop = task.stop /\ next.latest_slot = task.latest_slot
    <3>1. a \in Nat /\ f \in Nat /\ p \in {"gave_up", "delay"}
      BY <1>0 DEF Task
    <3> HIDE DEF a, f, p
    <3>2. next.attempt = a /\ next.failures = f /\ next \in Task /\ next.pc = p
          /\ next.stop = task.stop /\ next.latest_slot = task.latest_slot
      BY <1>0, <3>1 DEF Task
    <3> QED
      BY <3>2 DEF a, f
  <2> HIDE DEF next
  <2>4. Counted(next)
    BY <1>0, <1>a, <2>2, <2>3 DEF Counted, Task
  <2>5. Advances(task, next)
    BY <1>0, <1>a, <2>2, <2>3, <2>4 DEF Advances, Live, Task
  <2> QED
    BY <1>1, <2>1, <2>5
<1>5. CASE Message(t)
  <2>1. PICK u \in updates : /\ u[2] >= task.latest_slot
                             /\ tasks' = [tasks EXCEPT ![t] = [task EXCEPT !.latest_slot = u[2]]]
                             /\ emit(u) \/ UNCHANGED <<subscribers, emitted>>
    BY <1>5 DEF Message
  <2> DEFINE next == [task EXCEPT !.latest_slot = u[2]]
  <2>2. u[2] \in 0..MaxSlot
    BY <1>a DEF IInv, TypeOK, Update
  <2>3. Advances(task, next) /\ next.latest_slot = u[2]
    BY <1>0, <1>a, <2>1, <2>2 DEF Advances, Task, Counted, Live
  <2> QED
    BY <1>1, <2>1, <2>3
<1>6. CASE StreamEnds(t)
  <2> DEFINE next == [task EXCEPT !.pc = "delay"]
  <2>1. tasks' = [tasks EXCEPT ![t] = next] /\ UNCHANGED <<subscribers, emitted>>
    BY <1>6 DEF StreamEnds
  <2>2. task.pc = "select"
    BY <1>6 DEF StreamEnds
  <2>3. Advances(task, next)
    BY <1>0, <1>a, <2>2 DEF Advances, Task, Counted, Live
  <2> QED
    BY <1>1, <2>1, <2>3
<1>7. CASE WakeUp(t)
  <2> DEFINE a == task.attempt + 1
             next == [task EXCEPT !.pc = "connect", !.attempt = a, !.failures = task.failures]
  <2>1. tasks' = [tasks EXCEPT ![t] = next] /\ UNCHANGED <<subscribers, emitted>>
    BY <1>0, <1>7 DEF WakeUp, Task
  <2>2. task.pc = "delay"
    BY <1>7 DEF WakeUp
  <2>3. /\ next \in Task
        /\ next.pc = "connect" /\ next.attempt = task.attempt + 1 /\ next.failures = task.failures
        /\ next.stop = task.stop /\ next.latest_slot = task.latest_slot
    <3>1. a \in Nat /\ task.failures \in Nat
      BY <1>0 DEF Task
    <3> HIDE DEF a
    <3>2. next.attempt = a /\ next.failures = task.failures /\ next \in Task
          /\ next.pc = "connect" /\ next.stop = task.stop
          /\ next.latest_slot = task.latest_slot
      BY <1>0, <3>1 DEF Task
    <3> QED
      BY <3>2 DEF a
  <2> HIDE DEF next
  <2>4. Counted(next)
    BY <1>0, <1>a, <2>2, <2>3 DEF Counted, Task
  <2>5. Advances(task, next)
    BY <1>0, <1>a, <2>2, <2>3, <2>4 DEF Advances, Live, Task
  <2> QED
    BY <1>1, <2>1, <2>5
<1> QED
  BY <1>2, <1>3, <1>4, <1>5, <1>6, <1>7 DEF TaskStep

-----------------------------------------------------------------------------
(* The parts of the invariant that speak of the queues and the entries.      *)
QueueInv == QueuesEndWithEmitted /\ StaleOverwritten

(* emit() gives every handler the same update.                               *)
LEMMA EmitKeepsQueues ==
  ASSUME TypeOK, QueueInv, NEW u \in Update, emit(u), UNCHANGED usermap
  PROVE  /\ QueueInv'
         /\ subscribers' \in Seq(Seq(Update))
         /\ Len(subscribers') = Len(subscribers)
         /\ emitted' \in [Account -> 0..MaxSlot]
         /\ \A h \in DOMAIN subscribers : subscribers'[h] = Append(subscribers[h], u)
<1>0. subscribers \in Seq(Seq(Update)) /\ emitted \in [Account -> 0..MaxSlot]
  BY DEF TypeOK
<1>1. Len(subscribers) \in Nat /\ DOMAIN subscribers = 1..Len(subscribers)
      /\ \A h \in DOMAIN subscribers : subscribers[h] \in Seq(Update)
  BY <1>0, LenProperties
<1>2. u[1] \in Account /\ u[2] \in 0..MaxSlot
  BY SubscriberAssumption DEF Update
<1>3. \A h \in DOMAIN subscribers : Append(subscribers[h], u) \in Seq(Update)
  BY <1>1, AppendProperties
<1>4. subscribers' = [h \in 1..Len(subscribers) |-> Append(subscribers[h], u)]
  BY DEF emit
<1>5. subscribers' \in Seq(Seq(Update)) /\ Len(subscribers') = Len(subscribers)
      /\ DOMAIN subscribers' = DOMAIN subscribers
      /\ \A h \in DOMAIN subscribers : subscribers'[h] = Append(subscribers[h], u)
  <2> DEFINE f == [h \in 1..Len(subscribers) |-> Append(subscribers[h], u)]
  <2>1. f \in [1..Len(subscribers) -> Seq(Update)]
    BY <1>1, <1>3
  <2>2. \A h \in DOMAIN subscribers : f[h] = Append(subscribers[h], u)
    BY <1>1
  <2> HIDE DEF f
  <2> QED
    BY <1>1, <1>4, <2>1, <2>2, FcnIsSeq DEF f
<1>6. emitted' = IF subscribers = <<>> THEN emitted ELSE [emitted EXCEPT ![u[1]] = u[2]]
  BY DEF emit
<1>7. emitted' \in [Account -> 0..MaxSlot]
  BY <1>0, <1>2, <1>6
<1>8. \A h \in DOMAIN subscribers :
        LET q == subscribers[h]
            p == subscribers'[h]
        IN /\ DOMAIN q = 1..Len(q) /\ Len(q) \in Nat
           /\ DOMAIN p = 1..(Len(q) + 1)
           /\ \A i \in 1..Len(q) : p[i] = q[i]
           /\ p[Len(q) + 1] = u
  BY <1>1, <1>5, LenProperties, AppendProperties
<1>9. ASSUME NEW h \in DOMAIN subscribers
      PROVE  \A k \in Account : emitted'[k] = IF k = u[1] THEN u[2] ELSE emitted[k]
  <2>1. subscribers # <<>>
    BY <1>1
  <2> QED
    BY <1>0, <1>2, <1>6, <2>1
<1>10. QueuesEndWithEmitted'
  <2> SUFFICES ASSUME NEW h \in DOMAIN subscribers, NEW i \in DOMAIN subscribers'[h],
                      \A j \in DOMAIN subscribers'[h] :
                        j > i => subscribers'[h][j][1] # subscribers'[h][i][1]
               PROVE  subscribers'[h][i][2] = emitted'[subscribers'[h][i][1]]
    BY <1>5 DEF QueuesEndWithEmitted
  <2> DEFINE q == subscribers[h]
             p == subscribers'[h]
  <2>1. /\ DOMAIN q = 1..Len(q) /\ Len(q) \in Nat
        /\ DOMAIN p = 1..(Len(q) + 1)
        /\ \A x \in 1..Len(q) : p[x] = q[x]
        /\ p[Len(q) + 1] = u
    BY <1>8
  <2>2. CASE i = Len(q) + 1
    BY <1>2, <1>9, <2>1, <2>2
  <2>3. CASE i \in 1..Len(q)
    <3>1. p[i] = q[i] /\ q[i][1] # u[1]
      BY <2>1, <2>3
    <3>2. \A j \in DOMAIN q : j > i => q[j][1] # q[i][1]
      BY <2>1, <2>3
    <3>3. q[i][2] = emitted[q[i][1]]
      BY <2>1, <2>3, <3>2 DEF QueueInv, QueuesEndWithEmitted
    <3>4. q[i][1] \in Account
      BY <1>1, <2>1, <2>3, ElementOfSeq DEF Update
    <3> QED
      BY <1>9, <3>1, <3>3, <3>4
  <2> QED
    BY <2>1, <2>2, <2>3
<1>11. StaleOverwritten'
  <2> SUFFICES ASSUME NEW k \in Account, usermap[k].via = "ws"
               PROVE  \/ usermap[k].slot = emitted'[k]
                      \/ \E h \in DOMAIN subscribers : \E i \in DOMAIN subscribers'[h] :
                           subscribers'[h][i][1] = k
    BY <1>5 DEF StaleOverwritten
  <2>1. CASE \E h \in DOMAIN subscribers : \E i \in DOMAIN subscribers[h] : subscribers[h][i][1] = k
    BY <1>8, <2>1
  <2>2. CASE usermap[k].slot = emitted[k] /\ emitted'[k] = emitted[k]
    BY <2>2
  <2>3. CASE emitted'[k] # emitted[k]
    <3>1. subscribers # <<>> /\ k = u[1]
      BY <1>0, <1>6, <2>3
    <3>2. 1 \in DOMAIN subscribers
      BY <1>0, <1>1, <3>1, EmptySeq
    <3> QED
      BY <1>8, <3>1, <3>2
  <2> QED
    BY <2>1, <2>2, <2>3 DEF QueueInv, StaleOverwritten
<1> QED
  BY <1>5, <1>7, <1>10, <1>11 DEF QueueInv

(* A step that writes no update into the map and leaves tasks and queues     *)
(* alone keeps these parts.                                                  *)
LEMMA QuietKeepsQueues ==
  ASSUME QueueInv, OneTaskInOrder, UNCHANGED <<tasks, subscribers, emitted>>,
         \A k \in Account : usermap'[k] = usermap[k] \/ usermap'[k].via # "ws"
  PROVE  QueueInv' /\ OneTaskInOrder'
  BY DEF QueueInv, QueuesEndWithEmitted, StaleOverwritten, OneTaskInOrder

(* A new handler has an empty queue.                                         *)
LEMMA AddHandlerKeepsQueues ==
  ASSUME TypeOK, QueueInv, OneTaskInOrder, AddHandler
  PROVE  /\ QueueInv'
         /\ OneTaskInOrder'
         /\ subscribers' \in Seq(Seq(Update))
         /\ Len(subscribers') = Len(subscribers) + 1
<1>1. subscribers \in Seq(Seq(Update)) /\ <<>> \in Seq(Update)
  BY EmptySeq DEF TypeOK
<1>2. subscribers' = Append(subscribers, <<>>) /\ UNCHANGED <<tasks, emitted, usermap>>
  BY DEF AddHandler
<1>3. /\ subscribers' \in Seq(Seq(Update))
      /\ Len(subscribers') = Len(subscribers) + 1
      /\ Len(subscribers) \in Nat
      /\ DOMAIN subscribers = 1..Len(subscribers)
      /\ DOMAIN subscribers' = 1..(Len(subscribers) + 1)
      /\ \A h \in 1..Len(subscribers) : subscribers'[h] = subscribers[h]
      /\ subscribers'[Len(subscribers) + 1] = <<>>
  BY <1>1, <1>2, AppendProperties, LenProperties
<1>4. /\ \A h \in DOMAIN subscribers : h \in DOMAIN subscribers' /\ subscribers'[h] = subscribers[h]
      /\ \A h \in DOMAIN subscribers' :
           \/ h \in DOMAIN subscribers /\ subscribers'[h] = subscribers[h]
           \/ DOMAIN subscribers'[h] = {}
  BY <1>3
<1>5. QueueInv'
  BY <1>2, <1>4 DEF QueueInv, QueuesEndWithEmitted, StaleOverwritten
<1>6. OneTaskInOrder'
  BY <1>2, <1>4 DEF OneTaskInOrder
<1> QED
  BY <1>3, <1>5, <1>6

(* A handler thread moves the head of its queue into the map.                *)
LEMMA HandleStep ==
  ASSUME TypeOK, NEW h \in DOMAIN subscribers, Handle(h)
  PROVE  LET q == subscribers[h]
             p == subscribers'[h]
         IN /\ q[1] \in Update
            /\ usermap' = [usermap EXCEPT ![q[1][1]] = [slot |-> q[1][2], via |-> "ws"]]
            /\ Len(q) \in Nat /\ DOMAIN q = 1..Len(q) /\ 1 \in DOMAIN q
            /\ DOMAIN p = 1..(Len(q) - 1)
            /\ \A i \in DOMAIN p : p[i] = q[i + 1]
            /\ subscribers' \in Seq(Seq(Update))
            /\ Len(subscribers') = Len(subscribers)
            /\ DOMAIN subscribers' = DOMAIN subscribers
            /\ \A g \in DOMAIN subscribers : g # h => subscribers'[g] = subscribers[g]
<1> DEFINE q == subscribers[h]
           p == subscribers'[h]
<1>1. subscribers \in Seq(Seq(Update)) /\ h \in 1..Len(subscribers)
      /\ DOMAIN subscribers = 1..Len(subscribers)
  BY LenProperties DEF TypeOK
<1>2. q \in Seq(Update) /\ q # <<>>
  BY <1>1, ElementOfSeq DEF Handle
<1>3. subscribers' = [subscribers EXCEPT ![h] = Tail(q)]
      /\ usermap' = [usermap EXCEPT ![Head(q)[1]] = [slot |-> Head(q)[2], via |-> "ws"]]
  BY DEF Handle
<1>4. Tail(q) \in Seq(Update) /\ Head(q) \in Update /\ Head(q) = q[1]
      /\ Len(Tail(q)) = Len(q) - 1 /\ Len(q) \in Nat \ {0} /\ DOMAIN q = 1..Len(q)
      /\ DOMAIN Tail(q) = 1..(Len(q) - 1)
      /\ \A i \in 1..(Len(q) - 1) : Tail(q)[i] = q[i + 1]
  BY <1>2, HeadTailProperties, LenProperties, EmptySeq
<1>5. subscribers' \in Seq(Seq(Update)) /\ Len(subscribers') = Len(subscribers)
      /\ p = Tail(q) /\ DOMAIN subscribers' = DOMAIN subscribers
      /\ \A g \in DOMAIN subscribers : g # h => subscribers'[g] = subscribers[g]
  BY <1>1, <1>3, <1>4, ExceptSeq, LenProperties
<1>6. usermap' = [usermap EXCEPT ![q[1][1]] = [slot |-> q[1][2], via |-> "ws"]]
  BY <1>3, <1>4
<1>7. 1 \in DOMAIN q /\ DOMAIN p = 1..(Len(q) - 1) /\ \A i \in DOMAIN p : p[i] = q[i + 1]
  BY <1>4, <1>5
<1> QED
  BY <1>4, <1>5, <1>6, <1>7

LEMMA HandleKeepsQueues ==
  ASSUME IInv, NEW h \in DOMAIN subscribers, Handle(h)
  PROVE  QueueInv' /\ OneTaskInOrder'
<1> DEFINE q == subscribers[h]
           p == subscribers'[h]
           u == q[1]
<1>1. /\ u \in Update
      /\ usermap' = [usermap EXCEPT ![u[1]] = [slot |-> u[2], via |-> "ws"]]
      /\ Len(q) \in Nat /\ DOMAIN q = 1..Len(q) /\ 1 \in DOMAIN q
      /\ DOMAIN p = 1..(Len(q) - 1)
      /\ \A i \in DOMAIN p : p[i] = q[i + 1]
      /\ DOMAIN subscribers' = DOMAIN subscribers
      /\ \A g \in DOMAIN subscribers : g # h => subscribers'[g] = subscribers[g]
  BY HandleStep DEF IInv
<1>2. UNCHANGED <<tasks, emitted>>
  BY DEF Handle
<1>3. u[1] \in Account /\ usermap \in [Account -> Entry]
  BY <1>1 DEF Update, IInv, TypeOK
<1>4. /\ usermap'[u[1]].slot = u[2] /\ usermap'[u[1]].via = "ws"
      /\ \A k \in Account : k # u[1] => usermap'[k] = usermap[k]
  BY <1>1, <1>3
<1>5. \A i \in DOMAIN p : i + 1 \in DOMAIN q /\ i + 1 > 1 /\ i \in Nat
  BY <1>1
<1>6. \A j \in DOMAIN q : j > 1 => j - 1 \in DOMAIN p /\ p[j - 1] = q[j]
  BY <1>1
<1> HIDE DEF q, p, u
<1>7. QueuesEndWithEmitted'
  <2> SUFFICES ASSUME NEW g \in DOMAIN subscribers, NEW i \in DOMAIN subscribers'[g],
                      \A j \in DOMAIN subscribers'[g] :
                        j > i => subscribers'[g][j][1] # subscribers'[g][i][1]
               PROVE  subscribers'[g][i][2] = emitted[subscribers'[g][i][1]]
    BY <1>1, <1>2 DEF QueuesEndWithEmitted
  <2>1. CASE g # h
    BY <1>1, <2>1 DEF IInv, QueuesEndWithEmitted
  <2>2. CASE g = h
    <3>1. i \in DOMAIN p /\ \A j \in DOMAIN p : j > i => p[j][1] # p[i][1]
      BY <2>2 DEF p
    <3>2. \A j \in DOMAIN q : j > i + 1 => q[j][1] # q[i + 1][1]
      <4> SUFFICES ASSUME NEW j \in DOMAIN q, j > i + 1 PROVE q[j][1] # q[i + 1][1]
        OBVIOUS
      <4>1. i \in Nat /\ j \in Nat /\ j > 1 /\ j - 1 > i
        BY <1>1, <1>5, <3>1
      <4>2. j - 1 \in DOMAIN p /\ p[j - 1] = q[j]
        BY <1>6, <4>1
      <4> QED
        BY <1>1, <3>1, <4>1, <4>2
    <3>3. q[i + 1][2] = emitted[q[i + 1][1]]
      BY <1>5, <3>1, <3>2 DEF IInv, QueuesEndWithEmitted, q
    <3> QED
      BY <1>1, <2>2, <3>1, <3>3 DEF p
  <2> QED
    BY <2>1, <2>2
<1>8. StaleOverwritten'
  <2> SUFFICES ASSUME NEW k \in Account, usermap'[k].via = "ws"
               PROVE  \/ usermap'[k].slot = emitted[k]
                      \/ \E g \in DOMAIN subscribers : \E i \in DOMAIN subscribers'[g] :
                           subscribers'[g][i][1] = k
    BY <1>1, <1>2 DEF StaleOverwritten
  <2>1. ASSUME NEW j \in DOMAIN q, j > 1, q[j][1] = k
        PROVE  \E g \in DOMAIN subscribers : \E i \in DOMAIN subscribers'[g] :
                 subscribers'[g][i][1] = k
    BY <1>6, <2>1 DEF p
  <2>2. CASE k = u[1]
    <3>1. CASE \A j \in DOMAIN q : j > 1 => q[j][1] # u[1]
      BY <1>1, <1>4, <2>2, <3>1 DEF IInv, QueuesEndWithEmitted, q, u
    <3> QED
      BY <2>1, <2>2, <3>1
  <2>3. CASE k # u[1]
    <3>1. usermap'[k] = usermap[k]
      BY <1>4, <2>3
    <3>2. CASE \E g \in DOMAIN subscribers : \E i \in DOMAIN subscribers[g] : subscribers[g][i][1] = k
      <4>0. PICK g \in DOMAIN subscribers : \E i \in DOMAIN subscribers[g] : subscribers[g][i][1] = k
        BY <3>2
      <4>1. PICK i \in DOMAIN subscribers[g] : subscribers[g][i][1] = k
        BY <4>0
      <4>2. CASE g # h
        BY <1>1, <4>1, <4>2
      <4>3. CASE g = h
        <5>1. i \in DOMAIN q /\ q[i][1] = k /\ i # 1
          BY <2>3, <4>1, <4>3 DEF q, u
        <5>2. i > 1
          BY <1>1, <5>1
        <5> QED
          BY <2>1, <5>1, <5>2
      <4> QED
        BY <4>2, <4>3
    <3> QED
      BY <3>1, <3>2 DEF IInv, StaleOverwritten
  <2> QED
    BY <2>2, <2>3
<1>9. OneTaskInOrder'
  <2>1. Len(tasks) \in Nat /\ Len(subscribers) \in Nat /\ DOMAIN subscribers = 1..Len(subscribers)
    BY LenProperties DEF IInv, TypeOK
  <2>2. Len(tasks) # 0
    BY <2>1 DEF IInv, HandlersRegistered
  <2>3. ASSUME Len(tasks) = 1 PROVE DOMAIN subscribers = {h}
    BY <2>1, <2>3 DEF IInv, HandlersRegistered
  <2>4. ASSUME Len(tasks) = 1, NEW i \in DOMAIN q
        PROVE  /\ q[i][2] <= tasks[1].latest_slot
               /\ \A j \in DOMAIN q : i <= j => q[i][2] <= q[j][2]
               /\ \A k \in Account : usermap[k].via = "ws" => usermap[k].slot <= q[i][2]
    BY <2>4 DEF IInv, OneTaskInOrder, q
  <2>5. ASSUME Len(tasks) = 1, NEW i \in DOMAIN p
        PROVE  /\ p[i][2] <= tasks[1].latest_slot
               /\ \A j \in DOMAIN p : i <= j => p[i][2] <= p[j][2]
               /\ \A k \in Account : usermap'[k].via = "ws" => usermap'[k].slot <= p[i][2]
    <3>1. p[i] = q[i + 1] /\ i + 1 \in DOMAIN q /\ i \in Nat
      BY <1>1, <1>5
    <3>2. \A j \in DOMAIN p : i <= j => p[i][2] <= p[j][2]
      <4> SUFFICES ASSUME NEW j \in DOMAIN p, i <= j PROVE p[i][2] <= p[j][2]
        OBVIOUS
      <4>1. p[j] = q[j + 1] /\ j + 1 \in DOMAIN q /\ j \in Nat /\ i + 1 <= j + 1
        BY <1>1, <1>5, <3>1
      <4> QED
        BY <2>4, <2>5, <3>1, <4>1
    <3>3. u[2] <= q[i + 1][2]
      BY <1>1, <2>4, <2>5, <3>1 DEF u
    <3>4. \A k \in Account : usermap'[k].via = "ws" => usermap'[k].slot <= p[i][2]
      BY <1>4, <2>4, <2>5, <3>1, <3>3
    <3> QED
      BY <2>4, <2>5, <3>1, <3>2, <3>4
  <2>6. ASSUME Len(tasks) = 1, NEW k \in Account, usermap'[k].via = "ws"
        PROVE  usermap'[k].slot <= tasks[1].latest_slot
    <3>1. u[2] <= tasks[1].latest_slot
      BY <1>1, <2>4, <2>6 DEF u
    <3>2. usermap[k].via = "ws" => usermap[k].slot <= tasks[1].latest_slot
      BY <2>6 DEF IInv, OneTaskInOrder
    <3> QED
      BY <1>4, <2>6, <3>1, <3>2
  <2> QED
    BY <1>1, <1>2, <2>2, <2>3, <2>5, <2>6 DEF OneTaskInOrder, p
<1> QED
  BY <1>7, <1>8, <1>9 DEF QueueInv

-----------------------------------------------------------------------------
LEMMA InitInv == Init => IInv
<1> SUFFICES ASSUME Init PROVE IInv
  OBVIOUS
<1>0. MaxSlot \in Nat
  BY SubscriberAssumption
<1>1. /\ slot = 0 /\ updates = {} /\ subscribed = FALSE /\ tasks = <<>> /\ subscribers = <<>>
      /\ emitted = [k \in Account |-> 0] /\ usermap = [k \in Account |-> NoEntry]
      /\ call = "idle" /\ pending = [k \in Account |-> 0]
  BY DEF Init, SubscriberInit, EmptyMap, Nothing
<1>2. NoEntry \in Entry /\ NoEntry.via # "ws"
  BY <1>0 DEF NoEntry, Entry
<1>a. tasks \in Seq(Task) /\ subscribers \in Seq(Seq(Update)) /\ Len(subscribers) <= Len(tasks)
  BY <1>1
<1>b. /\ emitted \in [Account -> 0..MaxSlot]
      /\ usermap \in [Account -> Entry]
      /\ pending \in [Account -> 0..MaxSlot]
  BY <1>0, <1>1, <1>2
<1>c. slot \in 0..MaxSlot /\ updates \subseteq Update
  BY <1>0, <1>1
<1>d. subscribed \in BOOLEAN /\ call \in {"idle", "sync", "synced", "handler", "clear", "must_get"}
  BY <1>1
<1>3. TypeOK
  BY <1>a, <1>b, <1>c, <1>d DEF TypeOK
<1>4. DOMAIN tasks = {} /\ DOMAIN subscribers = {} /\ Len(tasks) = 0 /\ Len(subscribers) = 0
  BY <1>1
<1>5. \A k \in Account : usermap[k].via # "ws"
  BY <1>1, <1>2
<1>6. HandlersRegistered /\ SubscribedHasTask /\ OneTaskUnstopped /\ AttemptsCounted
  BY <1>1, <1>4 DEF HandlersRegistered, SubscribedHasTask, OneTaskUnstopped, AttemptsCounted
<1>7. QueuesEndWithEmitted /\ StaleOverwritten /\ OneTaskInOrder
  BY <1>4, <1>5 DEF QueuesEndWithEmitted, StaleOverwritten, OneTaskInOrder
<1> QED
  BY <1>3, <1>6, <1>7 DEF IInv

(* The parts about tasks, when no task changes.                              *)
LEMMA TasksKept ==
  ASSUME IInv, UNCHANGED <<subscribed, tasks>>
  PROVE  SubscribedHasTask' /\ OneTaskUnstopped' /\ AttemptsCounted'
  BY DEF IInv, SubscribedHasTask, OneTaskUnstopped, AttemptsCounted, Live, Counted

LEMMA WriteInv ==
  ASSUME IInv, NEW k \in Account, Write(k), UNCHANGED map_vars
  PROVE  IInv'
<1>1. /\ slot' = slot + 1 /\ slot < MaxSlot
      /\ updates' = updates \cup {<<k, slot + 1>>}
      /\ UNCHANGED <<subscribed, tasks, subscribers, emitted, usermap, call, pending>>
  BY DEF Write, map_vars
<1>2. slot' \in 0..MaxSlot /\ updates' \subseteq Update
  BY <1>1, SubscriberAssumption DEF IInv, TypeOK, Update
<1>3. TypeOK'
  BY <1>1, <1>2 DEF IInv, TypeOK, Entry, Task, Update
<1>4. QueueInv' /\ OneTaskInOrder'
  BY <1>1, QuietKeepsQueues DEF IInv, QueueInv
<1>5. HandlersRegistered'
  BY <1>1 DEF IInv, HandlersRegistered
<1> QED
  BY <1>1, <1>3, <1>4, <1>5, TasksKept DEF IInv, QueueInv

LEMMA TaskStepInv ==
  ASSUME IInv, NEW t \in DOMAIN tasks, TaskStep(t), UNCHANGED map_vars
  PROVE  IInv'
<1>1. UNCHANGED <<slot, updates, subscribed, usermap, call, pending>>
  BY TaskStepKeeps DEF map_vars, chain_vars
<1>2. PICK next : /\ tasks' = [tasks EXCEPT ![t] = next]
                  /\ Advances(tasks[t], next)
                  /\ \/ UNCHANGED <<subscribers, emitted>>
                     \/ \E u \in updates : next.latest_slot = u[2] /\ emit(u)
  BY TaskStepKeeps
<1>3. next \in Task /\ tasks \in Seq(Task) /\ t \in 1..Len(tasks) /\ DOMAIN tasks = 1..Len(tasks)
      /\ Len(tasks) \in Nat
  BY <1>2, LenProperties DEF IInv, TypeOK, Advances
<1>4. /\ tasks' \in Seq(Task) /\ Len(tasks') = Len(tasks) /\ DOMAIN tasks' = DOMAIN tasks
      /\ tasks'[t] = next /\ \A x \in DOMAIN tasks : x # t => tasks'[x] = tasks[x]
  BY <1>2, <1>3, ExceptSeq, LenProperties
<1>5. /\ subscribers' \in Seq(Seq(Update))
      /\ Len(subscribers') = Len(subscribers)
      /\ emitted' \in [Account -> 0..MaxSlot]
      /\ QueueInv'
  <2>1. CASE UNCHANGED <<subscribers, emitted>>
    BY <1>1, <2>1 DEF IInv, TypeOK, QueueInv, QueuesEndWithEmitted, StaleOverwritten
  <2>2. CASE \E u \in updates : next.latest_slot = u[2] /\ emit(u)
    <3>1. PICK u \in updates : emit(u)
      BY <2>2
    <3>2. u \in Update
      BY DEF IInv, TypeOK
    <3> QED
      BY <1>1, <3>1, <3>2, EmitKeepsQueues DEF IInv, QueueInv
  <2> QED
    BY <1>2, <2>1, <2>2
<1>6. TypeOK'
  BY <1>1, <1>4, <1>5 DEF IInv, TypeOK, Entry, Task, Update
<1>7. HandlersRegistered' /\ SubscribedHasTask'
  <2>1. tasks' # <<>>
    BY <1>3, <1>4
  <2> QED
    BY <1>1, <1>4, <1>5, <2>1 DEF IInv, HandlersRegistered, SubscribedHasTask
<1>8. OneTaskUnstopped' /\ AttemptsCounted'
  BY <1>1, <1>2, <1>3, <1>4 DEF IInv, OneTaskUnstopped, AttemptsCounted, Advances
<1>9. OneTaskInOrder'
  <2>1. Len(tasks) # 0
    BY <1>3
  <2> SUFFICES ASSUME Len(tasks) = 1
               PROVE  /\ \A k \in Account : usermap[k].via = "ws" => usermap[k].slot <= next.latest_slot
                      /\ \A h \in DOMAIN subscribers' : \A i \in DOMAIN subscribers'[h] :
                           /\ subscribers'[h][i][2] <= next.latest_slot
                           /\ \A j \in DOMAIN subscribers'[h] :
                                i <= j => subscribers'[h][i][2] <= subscribers'[h][j][2]
                           /\ \A k \in Account :
                                usermap[k].via = "ws" => usermap[k].slot <= subscribers'[h][i][2]
    <3>1. Len(tasks) = 1 => tasks'[1] = next
      BY <1>3, <1>4
    <3> QED
      BY <1>1, <1>4, <2>1, <3>1 DEF OneTaskInOrder
  <2> DEFINE old == tasks[1].latest_slot
             new == next.latest_slot
  <2>2. t = 1 /\ old \in Nat /\ new \in Nat /\ new >= old
    <3>1. t = 1 /\ tasks[1] \in Task
      BY <1>3, ElementOfSeq
    <3> QED
      BY <1>2, <1>3, <3>1, SubscriberAssumption DEF Advances, Task
  <2>3. /\ \A k \in Account : usermap[k].via = "ws" => usermap[k].slot <= old
        /\ \A h \in DOMAIN subscribers : \A i \in DOMAIN subscribers[h] :
             /\ subscribers[h][i][2] <= old
             /\ \A j \in DOMAIN subscribers[h] : i <= j => subscribers[h][i][2] <= subscribers[h][j][2]
             /\ \A k \in Account : usermap[k].via = "ws" => usermap[k].slot <= subscribers[h][i][2]
    BY DEF IInv, OneTaskInOrder
  <2> HIDE DEF old, new
  <2>a. \A k \in Account : usermap[k].slot \in Nat
    BY SubscriberAssumption DEF IInv, TypeOK, Entry
  <2>b. \A h \in DOMAIN subscribers : /\ subscribers[h] \in Seq(Update)
                                      /\ Len(subscribers[h]) \in Nat
                                      /\ DOMAIN subscribers[h] = 1..Len(subscribers[h])
    BY LenProperties DEF IInv, TypeOK
  <2>c. \A h \in DOMAIN subscribers : \A i \in DOMAIN subscribers[h] : subscribers[h][i][2] \in Nat
    BY <2>b, ElementOfSeq, SubscriberAssumption DEF Update
  <2>4. \A k \in Account : usermap[k].via = "ws" => usermap[k].slot <= new
    BY <2>2, <2>3, <2>a
  <2>5. CASE UNCHANGED <<subscribers, emitted>>
    BY <2>2, <2>3, <2>4, <2>5, <2>c DEF new
  <2>6. CASE \E u \in updates : new = u[2] /\ emit(u)
    <3>1. PICK u \in updates : new = u[2] /\ emit(u)
      BY <2>6
    <3>2. u \in Update
      BY DEF IInv, TypeOK
    <3>3. \A h \in DOMAIN subscribers : subscribers'[h] = Append(subscribers[h], u)
      BY <1>1, <3>1, <3>2, EmitKeepsQueues DEF IInv, QueueInv
    <3>4. DOMAIN subscribers' = DOMAIN subscribers
      BY <1>5, LenProperties DEF IInv, TypeOK
    <3>5. ASSUME NEW h \in DOMAIN subscribers
          PROVE  LET q == subscribers[h]
                     p == subscribers'[h]
                 IN \A i \in DOMAIN p : \/ i \in DOMAIN q /\ p[i] = q[i] /\ i < Len(q) + 1
                                        \/ i = Len(q) + 1 /\ p[i] = u
      BY <2>b, <3>2, <3>3, AppendProperties, LenProperties
    <3>6. ASSUME NEW h \in DOMAIN subscribers, NEW i \in DOMAIN subscribers'[h]
          PROVE  /\ subscribers'[h][i][2] <= new
                 /\ \A j \in DOMAIN subscribers'[h] :
                      i <= j => subscribers'[h][i][2] <= subscribers'[h][j][2]
                 /\ \A k \in Account :
                      usermap[k].via = "ws" => usermap[k].slot <= subscribers'[h][i][2]
      <4> DEFINE q == subscribers[h]
                 p == subscribers'[h]
      <4>0. Len(q) \in Nat /\ DOMAIN q = 1..Len(q)
        BY <2>b
      <4>1. CASE i \in DOMAIN q /\ p[i] = q[i]
        <5>1. q[i][2] <= new
          BY <2>2, <2>3, <2>c, <4>1
        <5>2. ASSUME NEW j \in DOMAIN p, i <= j PROVE p[i][2] <= p[j][2]
          <6>1. CASE j \in DOMAIN q /\ p[j] = q[j]
            BY <2>3, <4>1, <5>2, <6>1
          <6>2. CASE p[j] = u
            BY <3>1, <4>1, <5>1, <6>2
          <6> QED
            BY <3>5, <6>1, <6>2
        <5>3. \A k \in Account : usermap[k].via = "ws" => usermap[k].slot <= q[i][2]
          BY <2>3, <4>1
        <5> QED
          BY <4>1, <5>1, <5>2, <5>3
      <4>2. CASE i = Len(q) + 1 /\ p[i] = u
        <5>1. ASSUME NEW j \in DOMAIN p, i <= j PROVE j = i
          BY <3>5, <4>0, <4>2, <5>1
        <5> QED
          BY <2>2, <2>4, <3>1, <4>2, <5>1
      <4> QED
        BY <3>5, <4>1, <4>2
    <3> QED
      BY <2>4, <3>4, <3>6 DEF new
  <2> QED
    BY <1>2, <2>5, <2>6 DEF new
<1> QED
  BY <1>5, <1>6, <1>7, <1>8, <1>9 DEF IInv, QueueInv

(* A step of a call that spawns and stops nothing, and writes no update.     *)
LEMMA CallInv ==
  ASSUME IInv,
         \/ SyncAnswer \/ SyncFails \/ SyncDone \/ Clear
         \/ \E k \in Account : SyncInsert(k) \/ MustGet(k) \/ MustGetInsert(k)
  PROVE  IInv'
<1>0. /\ slot \in 0..MaxSlot /\ MaxSlot \in Nat
      /\ usermap \in [Account -> Entry] /\ pending \in [Account -> 0..MaxSlot]
  BY SubscriberAssumption DEF IInv, TypeOK
<1>1. UNCHANGED <<slot, updates, subscribed, tasks, subscribers, emitted>>
  BY DEF subscriber_vars, SyncAnswer, SyncFails, SyncDone, Clear, SyncInsert, MustGet, MustGetInsert
<1>2. call' \in {"idle", "sync", "synced", "clear", "must_get"} \/ call' = call
  BY DEF SyncAnswer, SyncFails, SyncDone, Clear, SyncInsert, MustGet, MustGetInsert
<1>3. \A k \in Account, s \in 0..slot : AsOf(k, s) \in 0..MaxSlot
  <2> SUFFICES ASSUME NEW k \in Account, NEW s \in 0..slot PROVE AsOf(k, s) \in 0..MaxSlot
    OBVIOUS
  <2>1. s \in Nat /\ s <= MaxSlot
    BY <1>0
  <2>2. AsOf(k, s) \in 0..s
    BY <2>1, AsOfType
  <2> QED
    BY <1>0, <2>1, <2>2
<1>4. pending' \in [Account -> 0..MaxSlot]
  <2>0. Nothing \in [Account -> 0..MaxSlot]
    BY <1>0 DEF Nothing
  <2>1. CASE SyncAnswer
    BY <1>3, <2>1 DEF SyncAnswer
  <2>2. CASE SyncFails \/ SyncDone \/ Clear
    BY <1>0, <2>0, <2>2 DEF SyncFails, SyncDone, Clear
  <2>3. CASE \E k \in Account : SyncInsert(k)
    BY <1>0, <2>3 DEF SyncInsert
  <2>4. CASE \E k \in Account : MustGet(k)
    <3>1. PICK k \in Account, s \in 0..slot : pending' = [Nothing EXCEPT ![k] = AsOf(k, s)]
      BY <2>4 DEF MustGet
    <3> QED
      BY <1>3, <2>0, <3>1
  <2>5. CASE \E k \in Account : MustGetInsert(k)
    BY <2>0, <2>5 DEF MustGetInsert
  <2> QED
    BY <2>1, <2>2, <2>3, <2>4, <2>5
<1>5. /\ usermap' \in [Account -> Entry]
      /\ \A k \in Account : usermap'[k] = usermap[k] \/ usermap'[k].via # "ws"
  <2>1. CASE UNCHANGED usermap
    BY <1>0, <2>1
  <2>2. CASE Clear
    <3>1. usermap' = [k \in Account |-> NoEntry]
      BY <2>2 DEF Clear, EmptyMap
    <3>2. NoEntry \in Entry /\ NoEntry.via # "ws"
      BY <1>0 DEF NoEntry, Entry
    <3> QED
      BY <3>1, <3>2
  <2>3. CASE \E k \in Account : SyncInsert(k) \/ MustGetInsert(k)
    <3>1. PICK k \in Account : usermap' = [usermap EXCEPT ![k] = [slot |-> pending[k], via |-> "rpc"]]
      BY <2>3 DEF SyncInsert, MustGetInsert
    <3> DEFINE e == [slot |-> pending[k], via |-> "rpc"]
    <3>2. e \in Entry /\ e.via # "ws"
      BY <1>0 DEF Entry
    <3> HIDE DEF e
    <3>3. usermap' = [usermap EXCEPT ![k] = e]
      BY <3>1 DEF e
    <3> QED
      BY <1>0, <3>2, <3>3
  <2> QED
    BY <2>1, <2>2, <2>3 DEF SyncAnswer, SyncFails, SyncDone, MustGet
<1>6. TypeOK'
  BY <1>1, <1>2, <1>4, <1>5 DEF IInv, TypeOK
<1>7. HandlersRegistered'
  BY <1>1, <1>2 DEF IInv, HandlersRegistered
<1> QED
  BY <1>1, <1>5, <1>6, <1>7, TasksKept, QuietKeepsQueues DEF IInv, QueueInv

(* A new task has emitted nothing; that of an earlier one may be overtaken.  *)
LEMMA SubscribeInv ==
  ASSUME IInv, Subscribe
  PROVE  IInv'
<1>1. /\ ~subscribed /\ subscribed' = TRUE /\ tasks' = Append(tasks, NewTask) /\ call' = "handler"
      /\ UNCHANGED <<slot, updates, subscribers, emitted, usermap, pending>>
  BY DEF Subscribe, subscribe, chain_vars
<1>2. NewTask \in Task /\ Counted(NewTask) /\ Live(NewTask)
  BY SubscriberAssumption DEF NewTask, Task, Counted, Live
<1>3. tasks \in Seq(Task) /\ Len(tasks) \in Nat /\ DOMAIN tasks = 1..Len(tasks)
      /\ subscribers \in Seq(Seq(Update)) /\ Len(subscribers) \in Nat
      /\ DOMAIN subscribers = 1..Len(subscribers)
  BY LenProperties DEF IInv, TypeOK
<1>4. /\ tasks' \in Seq(Task) /\ Len(tasks') = Len(tasks) + 1 /\ tasks' # <<>>
      /\ DOMAIN tasks' = 1..(Len(tasks) + 1)
      /\ \A t \in DOMAIN tasks : tasks'[t] = tasks[t]
      /\ tasks'[Len(tasks) + 1] = NewTask
  BY <1>1, <1>2, <1>3, AppendProperties, LenProperties
<1>5. TypeOK' /\ HandlersRegistered' /\ SubscribedHasTask'
  BY <1>1, <1>3, <1>4 DEF IInv, TypeOK, HandlersRegistered, SubscribedHasTask
<1>6. OneTaskUnstopped' /\ AttemptsCounted'
  <2>1. \A t \in DOMAIN tasks' : \/ t \in DOMAIN tasks /\ tasks'[t] = tasks[t]
                                 \/ t = Len(tasks') /\ tasks'[t] = NewTask
    BY <1>3, <1>4
  <2> QED
    BY <1>1, <1>2, <2>1 DEF IInv, OneTaskUnstopped, AttemptsCounted
<1>7. QueueInv'
  BY <1>1 DEF IInv, QueueInv, QueuesEndWithEmitted, StaleOverwritten
<1>8. OneTaskInOrder'
  <2>1. Len(tasks') # 0
    BY <1>3, <1>4
  <2>2. CASE Len(tasks) = 0
    <3>1. DOMAIN subscribers = {} /\ \A k \in Account : usermap[k].via # "ws"
      BY <1>3, <2>2 DEF IInv, HandlersRegistered, OneTaskInOrder
    <3> QED
      BY <1>1, <2>1, <3>1 DEF OneTaskInOrder
  <2>3. CASE Len(tasks) # 0
    <3>1. Len(tasks') # 1
      BY <1>3, <1>4, <2>3
    <3> QED
      BY <2>1, <3>1 DEF OneTaskInOrder
  <2> QED
    BY <2>2, <2>3
<1> QED
  BY <1>5, <1>6, <1>7, <1>8 DEF IInv, QueueInv

(* The last task, alone without a stop signal, is given one.                 *)
LEMMA UnsubscribeInv ==
  ASSUME IInv, Unsubscribe
  PROVE  IInv'
<1> DEFINE n == Len(tasks)
           stopped == [tasks[n] EXCEPT !.stop = TRUE]
<1>1. /\ subscribed /\ subscribed' = FALSE /\ tasks' = [tasks EXCEPT ![n] = stopped]
      /\ call = "idle" /\ call' = "clear"
      /\ UNCHANGED <<slot, updates, subscribers, emitted, usermap, pending>>
  BY DEF Unsubscribe, unsubscribe, chain_vars
<1>2. tasks \in Seq(Task) /\ n \in Nat /\ DOMAIN tasks = 1..n /\ n \in 1..n
  <2>1. tasks \in Seq(Task) /\ tasks # <<>>
    BY <1>1 DEF IInv, TypeOK, SubscribedHasTask
  <2> QED
    BY <2>1, LenProperties, EmptySeq
<1>3. tasks[n] \in Task /\ Counted(tasks[n])
  BY <1>2, ElementOfSeq DEF IInv, AttemptsCounted
<1>4. /\ stopped \in Task /\ stopped.stop = TRUE
      /\ stopped.latest_slot = tasks[n].latest_slot /\ stopped.pc = tasks[n].pc
      /\ stopped.attempt = tasks[n].attempt /\ stopped.failures = tasks[n].failures
  BY <1>3 DEF Task
<1> HIDE DEF n, stopped
<1>5. Counted(stopped)
  BY <1>3, <1>4 DEF Counted
<1>6. /\ tasks' \in Seq(Task) /\ Len(tasks') = n /\ DOMAIN tasks' = DOMAIN tasks
      /\ tasks'[n] = stopped /\ \A t \in DOMAIN tasks : t # n => tasks'[t] = tasks[t]
  BY <1>1, <1>2, <1>4, ExceptSeq, LenProperties DEF n
<1>7. TypeOK' /\ HandlersRegistered' /\ SubscribedHasTask'
  BY <1>1, <1>6 DEF IInv, TypeOK, HandlersRegistered, SubscribedHasTask, n
<1>8. OneTaskUnstopped' /\ AttemptsCounted'
  BY <1>4, <1>5, <1>6 DEF IInv, OneTaskUnstopped, AttemptsCounted, n
<1>9. QueueInv'
  BY <1>1 DEF IInv, QueueInv, QueuesEndWithEmitted, StaleOverwritten
<1>10. OneTaskInOrder'
  <2>1. n = 1 => tasks'[1].latest_slot = tasks[1].latest_slot
    BY <1>4, <1>6
  <2> QED
    BY <1>1, <1>6, <2>1 DEF IInv, OneTaskInOrder, n
<1> QED
  BY <1>7, <1>8, <1>9, <1>10 DEF IInv, QueueInv

LEMMA AddHandlerInv ==
  ASSUME IInv, AddHandler
  PROVE  IInv'
<1>1. /\ call = "handler" /\ call' = "idle"
      /\ UNCHANGED <<slot, updates, subscribed, tasks, emitted, usermap, pending>>
  BY DEF AddHandler, chain_vars
<1>2. /\ QueueInv' /\ OneTaskInOrder'
      /\ subscribers' \in Seq(Seq(Update)) /\ Len(subscribers') = Len(subscribers) + 1
  BY AddHandlerKeepsQueues DEF IInv, QueueInv
<1>3. Len(subscribers) \in Nat /\ Len(tasks) \in Nat
  BY LenProperties DEF IInv, TypeOK
<1>4. TypeOK' /\ HandlersRegistered'
  BY <1>1, <1>2, <1>3 DEF IInv, TypeOK, HandlersRegistered
<1> QED
  BY <1>1, <1>2, <1>4, TasksKept DEF IInv, QueueInv

LEMMA HandleInv ==
  ASSUME IInv, NEW h \in DOMAIN subscribers, Handle(h)
  PROVE  IInv'
<1> DEFINE u == subscribers[h][1]
           e == [slot |-> u[2], via |-> "ws"]
<1>1. UNCHANGED <<slot, updates, subscribed, tasks, emitted, call, pending>>
  BY DEF Handle, chain_vars
<1>2. /\ u \in Update /\ usermap' = [usermap EXCEPT ![u[1]] = e]
      /\ subscribers' \in Seq(Seq(Update)) /\ Len(subscribers') = Len(subscribers)
  BY HandleStep DEF IInv
<1>3. u[1] \in Account /\ e \in Entry
  BY <1>2, SubscriberAssumption DEF Update, Entry
<1> HIDE DEF u, e
<1>4. usermap' \in [Account -> Entry]
  BY <1>2, <1>3 DEF IInv, TypeOK
<1>5. TypeOK' /\ HandlersRegistered'
  BY <1>1, <1>2, <1>4 DEF IInv, TypeOK, HandlersRegistered
<1> QED
  BY <1>1, <1>5, TasksKept, HandleKeepsQueues DEF IInv, QueueInv

LEMMA NextInv == IInv /\ [Next]_vars => IInv'
<1> SUFFICES ASSUME IInv, [Next]_vars PROVE IInv'
  OBVIOUS
<1>1. CASE UNCHANGED vars
  <2>1. UNCHANGED <<slot, updates, subscribed, tasks, subscribers, emitted, usermap, call, pending>>
    BY <1>1 DEF vars
  <2>2. TypeOK' /\ HandlersRegistered'
    BY <2>1 DEF IInv, TypeOK, HandlersRegistered
  <2> QED
    BY <2>1, <2>2, TasksKept, QuietKeepsQueues DEF IInv, QueueInv
<1>2. CASE Next
  BY <1>2, WriteInv, TaskStepInv, CallInv, SubscribeInv, UnsubscribeInv, AddHandlerInv, HandleInv
     DEF Next
<1> QED
  BY <1>1, <1>2

LEMMA SpecInv == Spec => []IInv
  BY InitInv, NextInv, PTL DEF Spec

-----------------------------------------------------------------------------
(* Every variable of the user map and its subscriber has its type, and there *)
(* are never more handlers than tasks.                                       *)
THEOREM TypeCorrect == Spec => []TypeOK
<1>1. IInv => TypeOK
  BY DEF IInv
<1> QED
  BY <1>1, SpecInv, PTL

(* However the map is unsubscribed and subscribed again, only the last task  *)
(* may be alive without a stop signal.                                       *)
THEOREM OnlyLastUnstopped == Spec => []OneTaskUnstopped
<1>1. IInv => OneTaskUnstopped
  BY DEF IInv
<1> QED
  BY <1>1, SpecInv, PTL

(* A task that gives up has failed half as often as its limit says, or once  *)
(* more.                                                                     *)
THEOREM GivesUpAtHalf == Spec => []GivesUpHalfway
<1>1. IInv => GivesUpHalfway
  BY DEF IInv, AttemptsCounted, Counted, GivesUpHalfway
<1> QED
  BY <1>1, SpecInv, PTL

(* With all queues empty, what the handlers wrote is what was emitted last.  *)
THEOREM AtRestEmitted == Spec => []AtRestLastEmitted
<1>1. IInv => AtRestLastEmitted
  BY DEF IInv, StaleOverwritten, AtRestLastEmitted
<1> QED
  BY <1>1, SpecInv, PTL

(* With one task, a handler never replaces an update by an older one: only   *)
(* Handle writes updates, and its queue holds nothing older than the map.    *)
THEOREM NeverGoesBack == Spec => OneTaskNeverGoesBack
<1> DEFINE A == Len(tasks') <= 1 =>
                  \A k \in Account : usermap[k].via = "ws" /\ usermap'[k].via = "ws"
                                       => usermap'[k].slot >= usermap[k].slot
<1>1. ASSUME IInv, [Next]_vars PROVE A
  <2>1. ASSUME NEW k \in Account, usermap'[k] = usermap[k]
        PROVE  usermap'[k].slot >= usermap[k].slot
    BY <1>1, <2>1, SubscriberAssumption DEF IInv, TypeOK, Entry
  <2>2. CASE \E h \in DOMAIN subscribers : Handle(h)
    <3>1. PICK h \in DOMAIN subscribers : Handle(h)
      BY <2>2
    <3> DEFINE u == subscribers[h][1]
    <3>2. /\ u \in Update /\ 1 \in DOMAIN subscribers[h]
          /\ usermap' = [usermap EXCEPT ![u[1]] = [slot |-> u[2], via |-> "ws"]]
      BY <1>1, <3>1, HandleStep DEF IInv
    <3>3. u[1] \in Account /\ usermap \in [Account -> Entry]
      BY <1>1, <3>2 DEF Update, IInv, TypeOK
    <3>4. usermap'[u[1]].slot = u[2] /\ \A k \in Account : k # u[1] => usermap'[k] = usermap[k]
      BY <3>2, <3>3
    <3>5. Len(tasks) \in Nat /\ tasks' = tasks /\ Len(tasks) # 0
      <4>1. Len(subscribers) \in Nat /\ Len(tasks) \in Nat /\ h \in 1..Len(subscribers)
        BY <1>1, LenProperties DEF IInv, TypeOK
      <4> QED
        BY <1>1, <3>1, <4>1 DEF Handle, IInv, HandlersRegistered
    <3>6. Len(tasks) = 1 => \A k \in Account : usermap[k].via = "ws" => usermap[k].slot <= u[2]
      BY <1>1, <3>2 DEF IInv, OneTaskInOrder
    <3>7. u[2] \in Nat /\ \A k \in Account : usermap[k].slot \in Nat
      BY <3>2, <3>3, SubscriberAssumption DEF Update, Entry
    <3> HIDE DEF u
    <3> SUFFICES ASSUME Len(tasks') <= 1, NEW k \in Account, usermap[k].via = "ws"
                 PROVE  usermap'[k].slot >= usermap[k].slot
      OBVIOUS
    <3>8. Len(tasks) = 1
      BY <3>5
    <3>9. CASE k = u[1]
      BY <3>4, <3>6, <3>7, <3>8, <3>9
    <3>10. CASE k # u[1]
      BY <2>1, <3>4, <3>10
    <3> QED
      BY <3>9, <3>10
  <2>3. CASE \A k \in Account : usermap'[k] = usermap[k] \/ usermap'[k].via # "ws"
    BY <2>1, <2>3
  <2>4. CASE SyncAnswer \/ SyncFails \/ SyncDone \/ Subscribe \/ AddHandler \/ Unsubscribe
             \/ UNCHANGED vars \/ (\E k \in Account : Write(k) /\ UNCHANGED map_vars)
             \/ (\E t \in DOMAIN tasks : TaskStep(t) /\ UNCHANGED map_vars)
             \/ (\E k \in Account : MustGet(k))
    BY <2>3, <2>4 DEF SyncAnswer, SyncFails, SyncDone, Subscribe, AddHandler, Unsubscribe, vars,
                      map_vars, MustGet
  <2>5. CASE Clear
    <3>1. usermap' = [k \in Account |-> NoEntry] /\ NoEntry.via # "ws"
      BY <2>5 DEF Clear, EmptyMap, NoEntry
    <3> QED
      BY <2>3, <3>1
  <2>6. CASE \E k \in Account : SyncInsert(k) \/ MustGetInsert(k)
    <3>1. PICK k \in Account : usermap' = [usermap EXCEPT ![k] = [slot |-> pending[k], via |-> "rpc"]]
      BY <2>6 DEF SyncInsert, MustGetInsert
    <3>2. usermap \in [Account -> Entry]
      BY <1>1 DEF IInv, TypeOK
    <3>3. usermap'[k].via = "rpc" /\ \A j \in Account : j # k => usermap'[j] = usermap[j]
      BY <3>1, <3>2
    <3> QED
      BY <2>3, <3>3
  <2> QED
    BY <1>1, <2>2, <2>4, <2>5, <2>6 DEF Next
<1>2. Spec => [][A]_vars
  BY <1>1, SpecInv, PTL DEF Spec
<1> QED
  BY <1>2 DEF OneTaskNeverGoesBack

(* A subscription whose task ended by itself is never taken up again: of the *)
(* calls only Subscribe and Unsubscribe touch it, which need a map that is   *)
(* not subscribed and a task that lives.                                     *)
THEOREM SubscriptionLost == Spec => LostForGood
<1> DEFINE Kept == /\ subscribed' /\ Len(tasks') = Len(tasks) /\ ~Live(tasks'[Len(tasks')])
                   /\ (\A t \in DOMAIN tasks : ~Live(tasks[t])) => emitted' = emitted
<1>1. ASSUME IInv, [Next]_vars, subscribed, ~Live(tasks[Len(tasks)]) PROVE Kept
  <2>1. CASE UNCHANGED <<subscribed, tasks, emitted>>
    BY <1>1, <2>1
  <2>2. CASE \E t \in DOMAIN tasks : TaskStep(t) /\ UNCHANGED map_vars
    <3>1. PICK t \in DOMAIN tasks : TaskStep(t)
      BY <2>2
    <3>2. Live(tasks[t])
      BY <3>1 DEF TaskStep, ConnectFails, SubscribeOk, SubscribeErr, Message, StreamEnds, Stop,
                  WakeUp, Live
    <3>3. tasks \in Seq(Task) /\ t \in 1..Len(tasks)
      BY <1>1 DEF IInv, TypeOK
    <3>4. t # Len(tasks) /\ Len(tasks) \in 1..Len(tasks)
      BY <1>1, <3>2, <3>3
    <3>5. PICK next : tasks' = [tasks EXCEPT ![t] = next]
      BY <1>1, <3>1, TaskStepKeeps
    <3>6. Len(tasks') = Len(tasks) /\ tasks'[Len(tasks)] = tasks[Len(tasks)]
      BY <3>3, <3>4, <3>5
    <3>7. subscribed' = subscribed
      BY <1>1, <3>1, TaskStepKeeps
    <3> QED
      BY <1>1, <3>2, <3>6, <3>7
  <2>3. ~Subscribe /\ ~Unsubscribe
    BY <1>1 DEF Subscribe, Unsubscribe, subscribe, unsubscribe
  <2>4. CASE SyncAnswer \/ SyncFails \/ SyncDone \/ AddHandler \/ Clear \/ UNCHANGED vars
             \/ (\E k \in Account : Write(k) /\ UNCHANGED map_vars)
             \/ (\E k \in Account : SyncInsert(k) \/ MustGet(k) \/ MustGetInsert(k))
             \/ (\E h \in DOMAIN subscribers : Handle(h))
    BY <2>1, <2>4 DEF SyncAnswer, SyncFails, SyncDone, AddHandler, Clear, vars, Write, SyncInsert,
                      MustGet, MustGetInsert, Handle, subscriber_vars
  <2> QED
    BY <1>1, <2>2, <2>3, <2>4 DEF Next
<1>2. Spec => [][subscribed /\ ~Live(tasks[Len(tasks)]) => Kept]_vars
  BY <1>1, SpecInv, PTL DEF Spec
<1> QED
  BY <1>2 DEF LostForGood
=============================================================================
