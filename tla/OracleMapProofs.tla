--------------------------- MODULE OracleMapProofs ---------------------------
(***************************************************************************)
(* Proofs about OracleMap, for every set of oracles and every bound: how    *)
(* many tasks follow an oracle, which tasks unsubscribe() stops, that       *)
(* the oracle in use is a followed one, and that the price of an added      *)
(* oracle stands still.                                                     *)
(*                                                                         *)
(* The argument: an oracle that is known and was not there from the start   *)
(* has a task, and an unknown one has none (KnownOracles), so add_oracle's  *)
(* look at oracle_infos decides whether a task is spawned; subscribe()      *)
(* spawns one task for each known oracle and one handler.  A switch that is *)
(* past add_oracle is one to a known oracle (SwitchesAdded).  The stored    *)
(* subscribers with a task are ones that add_oracle stored since the last   *)
(* subscribe(), and one that add_oracle stored is there until its task was  *)
(* signalled or is gone (SubscribersOfAdded).                               *)
(***************************************************************************)
EXTENDS OracleMap, TLAPS, SequenceTheorems, FiniteSetTheorems, WellFoundedInduction

Task == [pubkey: Account, pc: {"connect", "select", "delay", "ended"},
         latest_slot: Nat, attempt: Nat, stop: BOOLEAN]
Update == Account \X (0..MaxSlot)
Handler == [infos: SUBSET Account, queue: Seq(Update)]

OracleTypes ==
  /\ updates \subseteq Update
  /\ tasks \in Seq(Task)
  /\ handlers \in Seq(Handler)
  /\ oraclemap \in [Account -> 0..MaxSlot]
  /\ oracle_infos \subseteq Account
  /\ subscribed \in BOOLEAN
  /\ oracle_subscribers \in Seq(Nat)
  /\ call \in {"idle", "sync", "synced"}
  /\ pending \in [Account -> 0..MaxSlot]
  /\ market_oracle \in Account
  /\ current_oracle \in Account
  /\ adding \in [Account -> Nat]
  /\ updating \in [Account -> Nat]

(* The chain has a latest slot.                                              *)
LatestSlot ==
  \E s \in 0..MaxSlot : /\ s = 0 \/ \E u \in updates : u[2] = s
                        /\ \A u \in updates : u[2] <= s

KnownOracles ==
  /\ InitialOracles \subseteq oracle_infos
  /\ \A t \in DOMAIN tasks : tasks[t].pubkey \in oracle_infos
  /\ \A k \in oracle_infos \ InitialOracles : \E t \in DOMAIN tasks : tasks[t].pubkey = k

StoppedOrGone(task) == task.stop \/ ~Live(task)

SubscribersOfAdded ==
  /\ added \subseteq DOMAIN tasks
  /\ \A i \in DOMAIN oracle_subscribers : oracle_subscribers[i] # 0 => oracle_subscribers[i] \in added
  /\ \A t \in added : \/ StoppedOrGone(tasks[t])
                      \/ \E i \in DOMAIN oracle_subscribers : oracle_subscribers[i] = t

SwitchesAdded == \A k \in Account : updating[k] > 0 => k \in oracle_infos

IInv ==
  /\ OracleTypes
  /\ LatestSlot
  /\ KnownOracles
  /\ SubscribersOfAdded
  /\ SwitchesAdded
  /\ TasksBounded
  /\ current_oracle \in oracle_infos

-----------------------------------------------------------------------------
LEMMA Numbers ==
  /\ MaxSlot \in Nat /\ max_reconnection_attempts \in Nat
  /\ IsFiniteSet(Account) /\ FirstOracle \in InitialOracles /\ InitialOracles \subseteq Account
  BY AccountSubscriberAssumption, OracleAssumption

LEMMA FcnIsSeq ==
  ASSUME NEW S, NEW n \in Nat, NEW f \in [1..n -> S]
  PROVE  f \in Seq(S) /\ Len(f) = n /\ DOMAIN f = 1..n
  OBVIOUS

LEMMA ConcatKeeps ==
  ASSUME NEW S, NEW s \in Seq(S), NEW n \in Nat, NEW f \in [1..n -> S]
  PROVE  \A i \in DOMAIN s : (s \o f)[i] = s[i]
  OBVIOUS

(* There is always a latest slot, up to s, that wrote the account or 0.      *)
LEMMA AsOfType ==
  ASSUME NEW k, NEW s \in Nat
  PROVE  AsOf(k, s) \in 0..s
<1> DEFINE P(n) == n = 0 \/ <<k, n>> \in updates
           T == {d \in Nat : d <= s /\ P(s - d)}
           R == OpToRel(<, Nat)
<1>1. s \in T
  OBVIOUS
<1>2. PICK d \in T : \A e \in T : ~(<<e, d>> \in R)
  <2>1. T \subseteq Nat /\ T # {}
    BY <1>1
  <2>2. IsWellFoundedOn(R, Nat)
    BY NatLessThanWellFounded
  <2> HIDE DEF T, R
  <2> QED
    BY <2>1, <2>2, WFMin
<1>3. \A e \in T : ~(e < d)
  BY <1>2 DEF OpToRel
<1> DEFINE n == s - d
<1>4. n \in 0..s /\ P(n)
  OBVIOUS
<1>5. \A m \in (n + 1)..s : <<k, m>> \notin updates
  <2> SUFFICES ASSUME NEW m \in (n + 1)..s, <<k, m>> \in updates PROVE FALSE
    OBVIOUS
  <2>1. s - m \in Nat /\ s - m < d /\ s - (s - m) = m
    OBVIOUS
  <2>2. s - m \in T
    BY <2>1
  <2> QED
    BY <1>3, <2>1, <2>2
<1>6. \E x \in 0..s : P(x) /\ \A m \in (x + 1)..s : <<k, m>> \notin updates
  BY <1>4, <1>5
<1> QED
  BY <1>6 DEF AsOf

LEMMA TipLatest ==
  ASSUME LatestSlot
  PROVE  /\ Tip \in 0..MaxSlot
         /\ Tip = 0 \/ \E u \in updates : u[2] = Tip
         /\ \A u \in updates : u[2] <= Tip
  BY DEF LatestSlot, Tip

LEMMA NewTaskType ==
  ASSUME NEW k \in Account
  PROVE  /\ NewTask(k) \in Task /\ NewTask(k).pubkey = k /\ ~NewTask(k).stop
         /\ Ended(k) \in Task /\ Ended(k).pubkey = k /\ ~Ended(k).stop
  BY DEF NewTask, Ended, Task

(* What a step makes of the task that takes it.                              *)
Advances(task, next) ==
  /\ next \in Task
  /\ next.pubkey = task.pubkey
  /\ next.stop => task.stop
  /\ StoppedOrGone(task) => StoppedOrGone(next)

(* A step of a task changes that task, and at most the queues of handlers.   *)
LEMMA TaskStepKeeps ==
  ASSUME OracleTypes, NEW t \in DOMAIN tasks, TaskStep(t)
  PROVE  /\ updates' = updates
         /\ \E next : tasks' = [tasks EXCEPT ![t] = next] /\ Advances(tasks[t], next)
         /\ handlers' \in Seq(Handler) /\ Len(handlers') = Len(handlers)
<1> DEFINE task == tasks[t]
<1>0. task \in Task /\ task.pubkey \in Account /\ task.attempt \in Nat /\ task.stop \in BOOLEAN
  <2>1. task \in Task
    BY LenProperties, ElementOfSeq DEF OracleTypes
  <2> QED
    BY <2>1 DEF Task
<1>1. updates' = updates
  BY DEF TaskStep, ConnectFails, SubscribeOk, SubscribeErr, Message, StreamEnds, Stop, WakeUp
<1>10. Live(task)
  BY DEF TaskStep, ConnectFails, SubscribeOk, SubscribeErr, Message, StreamEnds, Stop, WakeUp, Live
<1>2. Advances(task, Ended(task.pubkey))
  <2>1. ~Live(Ended(task.pubkey))
    BY DEF Live, Ended, NewTask
  <2> QED
    BY <1>0, <2>1, NewTaskType DEF Advances, StoppedOrGone
<1>3. \A p \in {"connect", "select", "delay"}, a \in Nat :
        Advances(task, [task EXCEPT !.pc = p, !.attempt = a])
  BY <1>0, <1>10 DEF Advances, StoppedOrGone, Task
<1>4. CASE ConnectFails(t) \/ Stop(t)
  BY <1>1, <1>2, <1>4 DEF ConnectFails, Stop, OracleTypes
<1>5. CASE SubscribeOk(t)
  <2>1. tasks' = [tasks EXCEPT ![t] = [task EXCEPT !.pc = "select", !.attempt = 0]]
        /\ handlers' = handlers
    BY <1>0, <1>5 DEF SubscribeOk, Task
  <2> QED
    BY <1>1, <1>3, <2>1 DEF OracleTypes
<1>6. CASE SubscribeErr(t)
  <2> DEFINE a == task.attempt + 1
  <2>1. a \in Nat
    BY <1>0
  <2>2. handlers' = handlers
    BY <1>6 DEF SubscribeErr
  <2>3. CASE a >= max_reconnection_attempts
    BY <1>1, <1>2, <1>6, <2>2, <2>3 DEF SubscribeErr, OracleTypes
  <2>4. CASE ~(a >= max_reconnection_attempts)
    <3>1. tasks' = [tasks EXCEPT ![t] = [task EXCEPT !.pc = "delay", !.attempt = a]]
      BY <1>6, <2>4 DEF SubscribeErr
    <3> HIDE DEF a
    <3> QED
      BY <1>1, <1>3, <2>1, <2>2, <3>1 DEF OracleTypes
  <2> QED
    BY <2>3, <2>4
<1>7. CASE Message(t)
  <2>1. PICK u \in updates :
          /\ tasks' = [tasks EXCEPT ![t].latest_slot = u[2]]
          /\ handlers' = [h \in DOMAIN handlers |-> [handlers[h] EXCEPT !.queue = Append(@, u)]]
    BY <1>7 DEF Message
  <2>2. u \in Update /\ u[2] \in Nat
    BY Numbers DEF OracleTypes, Update
  <2>3. Advances(task, [task EXCEPT !.latest_slot = u[2]])
    BY <1>0, <1>10, <2>2 DEF Advances, StoppedOrGone, Task
  <2>4. DOMAIN handlers = 1..Len(handlers) /\ Len(handlers) \in Nat
    BY LenProperties DEF OracleTypes
  <2>5. ASSUME NEW h \in DOMAIN handlers
        PROVE  [handlers[h] EXCEPT !.queue = Append(@, u)] \in Handler
    <3>1. handlers[h] \in Handler
      BY LenProperties, ElementOfSeq DEF OracleTypes
    <3>2. handlers[h].queue \in Seq(Update)
      BY <3>1 DEF Handler
    <3> DEFINE q == Append(handlers[h].queue, u)
    <3>3. q \in Seq(Update)
      BY <2>2, <3>2, AppendProperties
    <3> HIDE DEF q
    <3>4. [handlers[h] EXCEPT !.queue = q] \in Handler
      BY <3>1, <3>3 DEF Handler
    <3> QED
      BY <3>4 DEF q
  <2>6. handlers' \in [1..Len(handlers) -> Handler]
    BY <2>1, <2>4, <2>5
  <2>7. handlers' \in Seq(Handler) /\ Len(handlers') = Len(handlers)
    BY <2>4, <2>6, FcnIsSeq
  <2> QED
    BY <1>1, <2>1, <2>3, <2>7
<1>8. CASE StreamEnds(t)
  <2>1. Advances(task, [task EXCEPT !.pc = "delay"])
    BY <1>0, <1>10 DEF Advances, StoppedOrGone, Task
  <2> QED
    BY <1>1, <1>8, <2>1 DEF StreamEnds, OracleTypes
<1>9. CASE WakeUp(t)
  <2> DEFINE a == task.attempt + 1
  <2>1. a \in Nat
    BY <1>0
  <2>2. tasks' = [tasks EXCEPT ![t] = [task EXCEPT !.pc = "connect", !.attempt = a]]
        /\ handlers' = handlers
    BY <1>0, <1>9 DEF WakeUp, Task
  <2> HIDE DEF a
  <2> QED
    BY <1>1, <1>3, <2>1, <2>2 DEF OracleTypes
<1> QED
  BY <1>4, <1>5, <1>6, <1>7, <1>8, <1>9 DEF TaskStep

(* The steps that spawn no task and learn of no oracle.                      *)
LEMMA NoNewTask ==
  ASSUME IInv, OracleTypes', LatestSlot',
         oracle_infos' = oracle_infos, DOMAIN tasks' = DOMAIN tasks,
         \A t \in DOMAIN tasks :
           /\ tasks'[t].pubkey = tasks[t].pubkey
           /\ StoppedOrGone(tasks[t]) => StoppedOrGone(tasks'[t]),
         Len(handlers') = Len(handlers),
         added' = added, DOMAIN oracle_subscribers' = DOMAIN oracle_subscribers,
         \A i \in DOMAIN oracle_subscribers :
           \/ oracle_subscribers'[i] = oracle_subscribers[i]
           \/ oracle_subscribers'[i] = 0 /\ StoppedOrGone(tasks'[oracle_subscribers[i]]),
         \A k \in Account : updating'[k] > 0 => k \in oracle_infos,
         current_oracle' \in oracle_infos
  PROVE  IInv'
<1>1. KnownOracles'
  BY DEF IInv, KnownOracles
<1>2. SubscribersOfAdded'
  <2>1. SubscribersOfAdded
    BY DEF IInv
  <2>2. \A t \in added : \/ StoppedOrGone(tasks'[t])
                         \/ \E i \in DOMAIN oracle_subscribers : oracle_subscribers'[i] = t
    BY <2>1 DEF SubscribersOfAdded
  <2>3. SubscribersOfAdded' <=>
          /\ added' \subseteq DOMAIN tasks'
          /\ \A i \in DOMAIN oracle_subscribers' :
               oracle_subscribers'[i] # 0 => oracle_subscribers'[i] \in added'
          /\ \A t \in added' : \/ StoppedOrGone(tasks'[t])
                               \/ \E i \in DOMAIN oracle_subscribers' : oracle_subscribers'[i] = t
    BY DEF SubscribersOfAdded, StoppedOrGone, Live
  <2> QED
    BY <2>1, <2>2, <2>3 DEF SubscribersOfAdded
<1>3. SwitchesAdded'
  BY DEF SwitchesAdded
<1>4. \A k : {t \in DOMAIN tasks' : tasks'[t].pubkey = k} = {t \in DOMAIN tasks : tasks[t].pubkey = k}
  OBVIOUS
<1>5. TasksBounded'
  BY <1>4 DEF IInv, TasksBounded
<1> QED
  BY <1>1, <1>2, <1>3, <1>5 DEF IInv

LEMMA WriteStep ==
  ASSUME IInv, NEW k \in Account, Write(k), UNCHANGED <<map_vars, call_vars, switch_vars>>
  PROVE  IInv'
<1> USE DEF map_vars, call_vars, switch_vars
<1>1. Tip \in 0..MaxSlot /\ (\A u \in updates : u[2] <= Tip) /\ MaxSlot \in Nat /\ Tip < MaxSlot
  BY TipLatest, Numbers DEF IInv, Write
<1>2. updates' = updates \cup {<<k, Tip + 1>>} /\ UNCHANGED <<tasks, handlers>>
  BY DEF Write
<1>3. Tip + 1 \in 0..MaxSlot
  BY <1>1
<1>4. OracleTypes'
  <2>1. <<k, Tip + 1>> \in Update
    BY <1>3 DEF Update
  <2>2. updates' \subseteq Update
    BY <1>2, <2>1 DEF IInv, OracleTypes
  <2> QED
    BY <1>2, <2>2 DEF IInv, OracleTypes
<1>5. \A u \in updates : u[2] \in Nat
  BY Numbers DEF IInv, OracleTypes, Update
<1>6. LatestSlot'
  <2> DEFINE s == Tip + 1
  <2>1. \A u \in updates : u[2] <= s
    BY <1>1, <1>5
  <2>2. \A u \in updates' : u[2] <= s
    <3>1. <<k, s>>[2] <= s
      BY <1>3, Numbers
    <3> QED
      BY <1>2, <2>1, <3>1
  <2>3. <<k, s>> \in updates' /\ <<k, s>>[2] = s
    BY <1>2
  <2> HIDE DEF s
  <2> QED
    BY <1>3, <2>2, <2>3 DEF LatestSlot, s
<1> QED
  BY <1>2, <1>4, <1>6, NoNewTask DEF IInv, SwitchesAdded

LEMMA TaskStepStep ==
  ASSUME IInv, NEW t \in DOMAIN tasks, TaskStep(t), UNCHANGED <<map_vars, call_vars, switch_vars>>
  PROVE  IInv'
<1> USE DEF map_vars, call_vars, switch_vars
<1>1. /\ updates' = updates
      /\ handlers' \in Seq(Handler) /\ Len(handlers') = Len(handlers)
  BY TaskStepKeeps DEF IInv
<1>2. PICK next : tasks' = [tasks EXCEPT ![t] = next] /\ Advances(tasks[t], next)
  BY TaskStepKeeps DEF IInv
<1>3. tasks' \in Seq(Task) /\ DOMAIN tasks' = DOMAIN tasks
      /\ tasks'[t] = next /\ \A s \in DOMAIN tasks : s # t => tasks'[s] = tasks[s]
  <2>1. tasks \in Seq(Task) /\ DOMAIN tasks = 1..Len(tasks) /\ next \in Task
    BY <1>2, LenProperties DEF IInv, OracleTypes, Advances
  <2>2. tasks' \in Seq(Task)
    BY <1>2, <2>1, ExceptSeq
  <2> QED
    BY <1>2, <2>1, <2>2
<1>4. OracleTypes'
  BY <1>1, <1>3 DEF IInv, OracleTypes
<1>5. LatestSlot'
  BY <1>1 DEF IInv, LatestSlot
<1>6. \A s \in DOMAIN tasks : /\ tasks'[s].pubkey = tasks[s].pubkey
                              /\ StoppedOrGone(tasks[s]) => StoppedOrGone(tasks'[s])
  BY <1>2, <1>3 DEF Advances
<1>7. /\ UNCHANGED <<oracle_infos, oracle_subscribers, added, current_oracle>>
      /\ \A k \in Account : updating'[k] > 0 => k \in oracle_infos
      /\ current_oracle \in oracle_infos
  BY DEF IInv, SwitchesAdded
<1> QED
  BY <1>1, <1>3, <1>4, <1>5, <1>6, <1>7, NoNewTask

LEMMA CallStep ==
  ASSUME IInv, SyncAnswer \/ (\E k \in Account : SyncInsert(k)) \/ SyncFails \/ SyncDone
  PROVE  IInv'
<1> USE DEF map_vars, call_vars, switch_vars, stream_vars
<1>1. UNCHANGED <<updates, tasks, handlers, oracle_infos, subscribed, oracle_subscribers, added,
                  market_oracle, current_oracle, adding, updating>>
  BY DEF SyncAnswer, SyncInsert, SyncFails, SyncDone
<1>2. /\ oraclemap' \in [Account -> 0..MaxSlot] /\ pending' \in [Account -> 0..MaxSlot]
      /\ call' \in {"idle", "sync", "synced"}
  <2>1. CASE SyncAnswer
    <3>1. PICK s \in 0..Tip :
            pending' = [k \in Account |-> IF k \in oracle_infos THEN AsOf(k, s) ELSE 0]
      BY <2>1 DEF SyncAnswer
    <3>2. Tip \in 0..MaxSlot /\ MaxSlot \in Nat
      BY TipLatest, Numbers DEF IInv
    <3>3. s \in Nat /\ s <= MaxSlot
      BY <3>2
    <3>4. \A k \in Account : AsOf(k, s) \in 0..MaxSlot /\ 0 \in 0..MaxSlot
      <4>1. \A k \in Account : AsOf(k, s) \in 0..s
        BY <3>3, AsOfType
      <4> QED
        BY <3>2, <3>3, <4>1
    <3>5. pending' \in [Account -> 0..MaxSlot]
      BY <3>1, <3>4
    <3> QED
      BY <2>1, <3>5 DEF SyncAnswer, IInv, OracleTypes
  <2>2. ASSUME NEW k \in Account, SyncInsert(k) 
        PROVE  /\ oraclemap' \in [Account -> 0..MaxSlot] /\ pending' \in [Account -> 0..MaxSlot]
               /\ call' \in {"idle", "sync", "synced"}
    <3>1. pending[k] \in 0..MaxSlot /\ 0 \in 0..MaxSlot
      BY Numbers DEF IInv, OracleTypes
    <3> QED
      BY <2>2, <3>1 DEF SyncInsert, IInv, OracleTypes
  <2>3. CASE SyncFails
    <3>1. EmptyMap \in [Account -> 0..MaxSlot]
      BY Numbers DEF EmptyMap
    <3> QED
      BY <2>3, <3>1 DEF SyncFails, IInv, OracleTypes
  <2>4. CASE SyncDone
    BY <2>4 DEF SyncDone, IInv, OracleTypes
  <2> QED
    BY <2>1, <2>2, <2>3, <2>4
<1>3. OracleTypes'
  BY <1>1, <1>2 DEF IInv, OracleTypes
<1>4. LatestSlot'
  BY <1>1 DEF IInv, LatestSlot
<1> QED
  BY <1>1, <1>3, <1>4, NoNewTask DEF IInv, SwitchesAdded

(* subscribe(): one more handler, and one more task of every known oracle.   *)
LEMMA SubscribeStep ==
  ASSUME IInv, Subscribe
  PROVE  IInv'
<1> USE DEF switch_vars
<1> DEFINE n == Len(tasks)
           c == Cardinality(oracle_infos)
           TasksOf(k) == {t \in DOMAIN tasks : tasks[t].pubkey = k}
<1>1. PICK keys \in Orders(oracle_infos) : tasks' = tasks \o [i \in DOMAIN keys |-> NewTask(keys[i])]
  BY DEF Subscribe
<1>2. /\ handlers' = Append(handlers, [infos |-> oracle_infos, queue |-> <<>>])
      /\ oracle_subscribers' = [i \in 1..c |-> 0]
      /\ subscribed' = TRUE /\ call' = "idle" /\ added' = {}
      /\ UNCHANGED <<updates, oraclemap, oracle_infos, pending, market_oracle, current_oracle,
                     adding, updating>>
  BY DEF Subscribe
<1>3. oracle_infos \subseteq Account /\ IsFiniteSet(oracle_infos) /\ c \in Nat
  <2>1. oracle_infos \subseteq Account /\ IsFiniteSet(Account)
    BY Numbers DEF IInv, OracleTypes
  <2>2. IsFiniteSet(oracle_infos)
    BY <2>1, FS_Subset
  <2> QED
    BY <2>1, <2>2, FS_CardinalityType
<1>4. keys \in [1..c -> oracle_infos] /\ (\A i, j \in 1..c : keys[i] = keys[j] => i = j)
  BY <1>1 DEF Orders
<1>5. tasks \in Seq(Task) /\ n \in Nat /\ DOMAIN tasks = 1..n
  BY LenProperties DEF IInv, OracleTypes
<1> DEFINE new == [i \in 1..c |-> NewTask(keys[i])]
<1>6. new \in Seq(Task) /\ Len(new) = c
  <2>1. new \in [1..c -> Task]
    BY <1>3, <1>4, NewTaskType
  <2> QED
    BY <1>3, <2>1, FcnIsSeq
<1>7. tasks' = tasks \o new
  BY <1>1, <1>4
<1> HIDE DEF n, c
<1>8. tasks' \in Seq(Task) /\ DOMAIN tasks' = 1..(n + c)
      /\ (\A t \in 1..(n + c) : tasks'[t] = IF t <= n THEN tasks[t] ELSE new[t - n])
  <2> HIDE DEF new
  <2>1. tasks' \in Seq(Task) /\ Len(tasks') = Len(tasks) + Len(new)
        /\ (\A t \in 1..(Len(tasks) + Len(new)) :
              tasks'[t] = IF t <= Len(tasks) THEN tasks[t] ELSE new[t - Len(tasks)])
    BY <1>5, <1>6, <1>7, ConcatProperties
  <2> QED
    BY <1>6, <2>1, LenProperties DEF n
<1>9. ASSUME NEW t \in 1..n PROVE t \in 1..(n + c) /\ tasks'[t] = tasks[t]
  <2>1. t \in 1..(n + c) /\ t <= n
    BY <1>3, <1>5
  <2> QED
    BY <1>8, <2>1
<1>10. ASSUME NEW t \in 1..(n + c), t \notin 1..n
       PROVE  /\ t - n \in 1..c /\ tasks'[t].pubkey = keys[t - n] /\ ~tasks'[t].stop
              /\ keys[t - n] \in oracle_infos
  <2>1. t - n \in 1..c /\ ~(t <= n)
    BY <1>3, <1>5, <1>10
  <2>2. tasks'[t] = NewTask(keys[t - n])
    BY <1>8, <2>1
  <2>3. keys[t - n] \in oracle_infos
    BY <1>4, <2>1
  <2> QED
    BY <1>3, <2>1, <2>2, <2>3, NewTaskType
<1> HIDE DEF new
<1>11. Len(handlers) \in Nat /\ handlers' \in Seq(Handler) /\ Len(handlers') = Len(handlers) + 1
  <2> DEFINE h == [infos |-> oracle_infos, queue |-> << >>]
  <2>1. h \in Handler
    BY <1>3, EmptySeq DEF Handler
  <2>2. handlers \in Seq(Handler) /\ handlers' = Append(handlers, h)
    BY <1>2 DEF IInv, OracleTypes
  <2> HIDE DEF h
  <2> QED
    BY <2>1, <2>2, AppendProperties, LenProperties
<1>12. oracle_subscribers' \in Seq(Nat) /\ DOMAIN oracle_subscribers' = 1..c
       /\ \A i \in 1..c : oracle_subscribers'[i] = 0
  <2>1. oracle_subscribers' \in [1..c -> Nat]
    BY <1>2
  <2> QED
    BY <1>2, <1>3, <2>1, FcnIsSeq
<1>13. OracleTypes'
  BY <1>2, <1>8, <1>11, <1>12 DEF IInv, OracleTypes
<1>14. LatestSlot' /\ SwitchesAdded' /\ (current_oracle \in oracle_infos)'
  BY <1>2 DEF IInv, LatestSlot, SwitchesAdded
<1>15. SubscribersOfAdded'
  BY <1>2, <1>12 DEF SubscribersOfAdded
<1>16. KnownOracles'
  BY <1>2, <1>5, <1>8, <1>9, <1>10 DEF IInv, KnownOracles
<1>18. TasksBounded'
  <2> SUFFICES ASSUME NEW k \in Account
               PROVE  Cardinality(TasksOf(k)')
                        <= Len(handlers') + (IF k \in InitialOracles THEN 0 ELSE 1)
    BY DEF TasksBounded
  <2>0. IsFiniteSet(TasksOf(k)) /\ Cardinality(TasksOf(k)) \in Nat
    <3>1. IsFiniteSet(1..n)
      BY <1>5, FS_Interval
    <3>2. IsFiniteSet(TasksOf(k))
      BY <1>5, <3>1, FS_Subset
    <3> QED
      BY <3>2, FS_CardinalityType
  <2>1. Cardinality(TasksOf(k)) <= Len(handlers) + (IF k \in InitialOracles THEN 0 ELSE 1)
    BY DEF IInv, TasksBounded
  <2>2. Cardinality(TasksOf(k)') <= Cardinality(TasksOf(k)) + 1
    <3>1. CASE \E i \in 1..c : keys[i] = k
      <4>1. PICK i \in 1..c : keys[i] = k
        BY <3>1
      <4> DEFINE S == TasksOf(k) \cup {n + i}
      <4>2. TasksOf(k)' \subseteq S
        <5> SUFFICES ASSUME NEW t \in 1..(n + c), tasks'[t].pubkey = k PROVE t \in S
          BY <1>8
        <5>1. CASE t \in 1..n
          BY <1>5, <1>9, <5>1
        <5>2. CASE t \notin 1..n
          <6>1. t - n = i
            BY <1>4, <1>10, <4>1, <5>2
          <6>2. t = n + i
            BY <1>3, <1>5, <6>1
          <6> QED
            BY <6>2
        <5> QED
          BY <5>1, <5>2
      <4>3. IsFiniteSet(S) /\ Cardinality(S) <= Cardinality(TasksOf(k)) + 1
        <5> HIDE DEF TasksOf
        <5>1. IsFiniteSet(S) /\ Cardinality(S) = IF n + i \in TasksOf(k) THEN Cardinality(TasksOf(k))
                                                ELSE Cardinality(TasksOf(k)) + 1
          BY <2>0, FS_AddElement
        <5> HIDE DEF S
        <5> QED
          BY <2>0, <5>1
      <4>4. Cardinality(TasksOf(k)') <= Cardinality(S)
        BY <4>2, <4>3, FS_Subset
      <4>5. Cardinality(S) \in Nat /\ Cardinality(TasksOf(k)') \in Nat
        BY <4>2, <4>3, FS_Subset, FS_CardinalityType
      <4> HIDE DEF S, TasksOf
      <4> QED
        BY <2>0, <4>3, <4>4, <4>5
    <3>2. CASE ~ \E i \in 1..c : keys[i] = k
      <4>1. TasksOf(k)' = TasksOf(k)
        <5>1. ASSUME NEW t \in 1..(n + c), tasks'[t].pubkey = k PROVE t \in 1..n
          BY <1>10, <3>2, <5>1
        <5> QED
          BY <1>5, <1>8, <1>9, <5>1
      <4> HIDE DEF TasksOf
      <4> QED
        BY <2>0, <4>1
    <3> QED
      BY <3>1, <3>2
  <2>3. Cardinality(TasksOf(k)') \in Nat
    <3>1. IsFiniteSet(1..(n + c))
      BY <1>3, <1>5, FS_Interval
    <3>2. IsFiniteSet(TasksOf(k)')
      BY <1>8, <3>1, FS_Subset
    <3> QED
      BY <3>2, FS_CardinalityType
  <2> HIDE DEF TasksOf
  <2> QED
    BY <1>11, <2>0, <2>1, <2>2, <2>3
<1> QED
  BY <1>13, <1>14, <1>15, <1>16, <1>18 DEF IInv

(* unsubscribe(): the stored subscribers with a task are signalled.          *)
LEMMA UnsubscribeStep ==
  ASSUME IInv, Unsubscribe
  PROVE  /\ IInv'
         /\ \A t \in DOMAIN tasks : /\ tasks'[t].stop => tasks[t].stop \/ t \in added
                                    /\ tasks[t].stop => tasks'[t].stop
         /\ ~subscribed' => \A t \in added : Live(tasks[t]) => tasks'[t].stop
<1> USE DEF call_vars, switch_vars
<1> DEFINE signalled == {oracle_subscribers[i] : i \in DOMAIN oracle_subscribers} \ {0}
           gone == {t \in signalled : ~Live(tasks[t])}
<1>1. /\ tasks' = [t \in DOMAIN tasks |->
                     IF t \in signalled \ gone THEN [tasks[t] EXCEPT !.stop = TRUE] ELSE tasks[t]]
      /\ oracle_subscribers' = [i \in DOMAIN oracle_subscribers |->
           IF oracle_subscribers[i] \in gone THEN oracle_subscribers[i] ELSE 0]
      /\ subscribed' = (gone # {})
      /\ oraclemap' = IF gone = {} THEN EmptyMap ELSE oraclemap
      /\ UNCHANGED <<updates, handlers, oracle_infos, added, call, pending, market_oracle,
                     current_oracle, adding, updating>>
  BY DEF Unsubscribe
<1>2. /\ signalled \subseteq added /\ added \subseteq DOMAIN tasks
      /\ \A i \in DOMAIN oracle_subscribers :
           oracle_subscribers[i] # 0 => oracle_subscribers[i] \in signalled
      /\ \A t \in gone : ~Live(tasks[t])
  BY DEF IInv, SubscribersOfAdded
<1>10. 0 \notin DOMAIN tasks
  BY LenProperties DEF IInv, OracleTypes
<1>11. ASSUME NEW t \in added, Live(tasks[t]) PROVE tasks[t].stop \/ t \in signalled \ gone
  <2>1. tasks[t].stop \/ \E i \in DOMAIN oracle_subscribers : oracle_subscribers[i] = t
    BY <1>11 DEF IInv, SubscribersOfAdded, StoppedOrGone
  <2> QED
    BY <1>2, <1>10, <1>11, <2>1
<1> HIDE DEF signalled, gone
<1>3. tasks \in Seq(Task) /\ DOMAIN tasks = 1..Len(tasks) /\ Len(tasks) \in Nat
      /\ \A t \in DOMAIN tasks : tasks[t] \in Task
  BY LenProperties, ElementOfSeq DEF IInv, OracleTypes
<1>4. ASSUME NEW t \in DOMAIN tasks
      PROVE  /\ tasks'[t] \in Task /\ tasks'[t].pubkey = tasks[t].pubkey
             /\ StoppedOrGone(tasks[t]) => StoppedOrGone(tasks'[t])
             /\ tasks'[t].stop => tasks[t].stop \/ t \in added
             /\ tasks[t].stop => tasks'[t].stop
             /\ t \in signalled \ gone => tasks'[t].stop
  <2>1. CASE t \in signalled \ gone
    BY <1>1, <1>2, <1>3, <2>1 DEF Task, StoppedOrGone
  <2>2. CASE t \notin signalled \ gone
    BY <1>1, <1>3, <2>2
  <2> QED
    BY <2>1, <2>2
<1>5. tasks' \in Seq(Task) /\ DOMAIN tasks' = DOMAIN tasks
  <2>1. tasks' \in [1..Len(tasks) -> Task]
    BY <1>1, <1>3, <1>4
  <2> QED
    BY <1>3, <2>1, FcnIsSeq
<1>6. oracle_subscribers' \in Seq(Nat) /\ DOMAIN oracle_subscribers' = DOMAIN oracle_subscribers
  <2>1. DOMAIN oracle_subscribers = 1..Len(oracle_subscribers) /\ Len(oracle_subscribers) \in Nat
        /\ \A i \in DOMAIN oracle_subscribers : oracle_subscribers[i] \in Nat
    BY LenProperties, ElementOfSeq DEF IInv, OracleTypes
  <2>2. oracle_subscribers' \in [1..Len(oracle_subscribers) -> Nat]
    BY <1>1, <2>1
  <2>3. oracle_subscribers' \in Seq(Nat)
    BY <2>1, <2>2, FcnIsSeq
  <2> QED
    BY <1>1, <2>3
<1>7. oraclemap' \in [Account -> 0..MaxSlot]
  BY <1>1, Numbers DEF IInv, OracleTypes, EmptyMap
<1>8. OracleTypes'
  BY <1>1, <1>5, <1>6, <1>7 DEF IInv, OracleTypes
<1>9. LatestSlot'
  BY <1>1 DEF IInv, LatestSlot
<1>12. ASSUME NEW i \in DOMAIN oracle_subscribers
       PROVE  \/ oracle_subscribers'[i] = oracle_subscribers[i]
              \/ oracle_subscribers'[i] = 0 /\ StoppedOrGone(tasks'[oracle_subscribers[i]])
  <2>1. CASE oracle_subscribers[i] = 0 \/ oracle_subscribers[i] \in gone
    BY <1>1, <2>1
  <2>2. CASE oracle_subscribers[i] # 0 /\ oracle_subscribers[i] \notin gone
    BY <1>1, <1>2, <1>4, <2>2 DEF StoppedOrGone
  <2> QED
    BY <2>1, <2>2
<1>13. IInv'
  BY <1>1, <1>4, <1>5, <1>6, <1>8, <1>9, <1>12, NoNewTask DEF IInv, SwitchesAdded
<1>14. ~subscribed' => \A t \in added : Live(tasks[t]) => tasks'[t].stop
  BY <1>2, <1>4, <1>11
<1> QED
  BY <1>4, <1>13, <1>14

(* What a handler makes of the map and of its queue.                         *)
LEMMA HandleKeeps ==
  ASSUME OracleTypes, NEW h \in DOMAIN handlers, Handle(h)
  PROVE  /\ handlers' \in Seq(Handler) /\ Len(handlers') = Len(handlers)
         /\ \/ oraclemap' = oraclemap
            \/ \E u \in Update : /\ u[1] \in handlers[h].infos
                                 /\ oraclemap' = [oraclemap EXCEPT ![u[1]] = u[2]]
<1> DEFINE q == handlers[h].queue
           rest == Tail(q)
<1>1. handlers \in Seq(Handler) /\ DOMAIN handlers = 1..Len(handlers)
      /\ handlers[h] \in Handler
  BY LenProperties, ElementOfSeq DEF OracleTypes
<1>2. q \in Seq(Update) /\ q # <<>>
  BY <1>1 DEF Handler, Handle
<1>3. rest \in Seq(Update) /\ Head(q) \in Update
  BY <1>2, HeadTailProperties
<1>4. handlers' = [handlers EXCEPT ![h] = [handlers[h] EXCEPT !.queue = rest]]
  BY DEF Handle
<1> HIDE DEF rest
<1>5. [handlers[h] EXCEPT !.queue = rest] \in Handler
  BY <1>1, <1>3 DEF Handler
<1>6. handlers' \in Seq(Handler) /\ Len(handlers') = Len(handlers)
  <2> DEFINE new == [handlers[h] EXCEPT !.queue = rest]
  <2> HIDE DEF new
  <2> QED
    BY <1>1, <1>4, <1>5, ExceptSeq DEF new
<1>7. \/ oraclemap' = oraclemap
      \/ /\ Head(q)[1] \in handlers[h].infos
         /\ oraclemap' = [oraclemap EXCEPT ![Head(q)[1]] = Head(q)[2]]
  BY DEF Handle
<1> HIDE DEF q
<1> QED
  BY <1>3, <1>6, <1>7

LEMMA HandleStep ==
  ASSUME IInv, NEW h \in DOMAIN handlers, Handle(h)
  PROVE  IInv'
<1> USE DEF call_vars, switch_vars
<1>1. UNCHANGED <<updates, tasks, oracle_infos, subscribed, oracle_subscribers, added, call, pending,
                  market_oracle, current_oracle, adding, updating>>
  BY DEF Handle
<1>2. handlers' \in Seq(Handler) /\ Len(handlers') = Len(handlers)
  BY HandleKeeps DEF IInv
<1>3. oraclemap' \in [Account -> 0..MaxSlot]
  <2>1. oraclemap \in [Account -> 0..MaxSlot]
    BY DEF IInv, OracleTypes
  <2>2. ASSUME NEW u \in Update PROVE [oraclemap EXCEPT ![u[1]] = u[2]] \in [Account -> 0..MaxSlot]
    <3>1. u[2] \in 0..MaxSlot
      BY DEF Update
    <3> QED
      BY <2>1, <3>1
  <2> QED
    BY <2>1, <2>2, HandleKeeps DEF IInv
<1>4. OracleTypes'
  BY <1>1, <1>2, <1>3 DEF IInv, OracleTypes
<1>5. LatestSlot'
  BY <1>1 DEF IInv, LatestSlot
<1> QED
  BY <1>1, <1>2, <1>4, <1>5, NoNewTask DEF IInv, SwitchesAdded

(* add_oracle.                                                               *)
LEMMA AddOracleStep ==
  ASSUME IInv, NEW k \in Account, AddOracle(k)
  PROVE  IInv'
<1> USE DEF call_vars
<1> DEFINE a == adding[k] - 1
           b == updating[k] + 1
<1>1. /\ adding' = [adding EXCEPT ![k] = a] /\ updating' = [updating EXCEPT ![k] = b]
      /\ UNCHANGED <<updates, handlers, oraclemap, subscribed, call, pending, market_oracle,
                     current_oracle>>
  BY DEF AddOracle
<1>2. adding' \in [Account -> Nat] /\ updating' \in [Account -> Nat]
      /\ \A x \in Account : x # k => updating'[x] = updating[x]
  <2>1. adding[k] \in Nat /\ updating[k] \in Nat /\ adding[k] > 0
    BY DEF IInv, OracleTypes, AddOracle
  <2>2. a \in Nat /\ b \in Nat
    BY <2>1
  <2> HIDE DEF a, b
  <2> QED
    BY <1>1, <2>2 DEF IInv, OracleTypes
<1> HIDE DEF a, b
<1>3. LatestSlot'
  BY <1>1 DEF IInv, LatestSlot
<1>4. CASE k \in oracle_infos
  <2>1. UNCHANGED <<oracle_infos, tasks, oracle_subscribers, added>>
    BY <1>4 DEF AddOracle
  <2>2. OracleTypes'
    BY <1>1, <1>2, <2>1 DEF IInv, OracleTypes
  <2>3. \A x \in Account : updating'[x] > 0 => x \in oracle_infos
    BY <1>2, <1>4 DEF IInv, SwitchesAdded
  <2> QED
    BY <1>1, <1>3, <2>1, <2>2, <2>3, NoNewTask DEF IInv
<1>5. CASE k \notin oracle_infos
  <2> DEFINE n == Len(tasks)
             new == NewTask(k)
             TasksOf(x) == {t \in DOMAIN tasks : tasks[t].pubkey = x}
  <2>1. /\ oracle_infos' = oracle_infos \cup {k}
        /\ tasks' = Append(tasks, new)
        /\ oracle_subscribers' = Append(oracle_subscribers, n + 1)
        /\ added' = added \cup {n + 1}
    BY <1>5 DEF AddOracle
  <2>2. new \in Task /\ new.pubkey = k /\ ~new.stop
    BY NewTaskType
  <2> HIDE DEF new
  <2>3. tasks \in Seq(Task) /\ n \in Nat /\ DOMAIN tasks = 1..n /\ oracle_subscribers \in Seq(Nat)
    BY LenProperties DEF IInv, OracleTypes
  <2>4. /\ tasks' \in Seq(Task) /\ DOMAIN tasks' = 1..(n + 1)
        /\ (\A t \in 1..n : tasks'[t] = tasks[t]) /\ tasks'[n + 1] = new
    BY <2>1, <2>2, <2>3, AppendProperties, LenProperties
  <2> DEFINE m == Len(oracle_subscribers)
  <2>5. /\ oracle_subscribers' \in Seq(Nat) /\ DOMAIN oracle_subscribers' = 1..(m + 1)
        /\ (\A i \in 1..m : oracle_subscribers'[i] = oracle_subscribers[i])
        /\ oracle_subscribers'[m + 1] = n + 1
        /\ DOMAIN oracle_subscribers = 1..m /\ m \in Nat
    <3>1. n + 1 \in Nat
      BY <2>3
    <3> QED
      BY <2>1, <2>3, <3>1, AppendProperties, LenProperties
  <2> HIDE DEF n, m
  <2>6. k \notin InitialOracles
    BY <1>5 DEF IInv, KnownOracles
  <2>7. /\ \A t \in 1..n : t \in 1..(n + 1)
        /\ n + 1 \in 1..(n + 1)
        /\ \A t \in 1..(n + 1) : t \in 1..n \/ t = n + 1
    BY <2>3
  <2>8. OracleTypes'
    <3>1. oracle_infos' \subseteq Account
      BY <2>1 DEF IInv, OracleTypes
    <3> QED
      BY <1>1, <1>2, <2>4, <2>5, <3>1 DEF IInv, OracleTypes
  <2>9. KnownOracles'
    <3>1. KnownOracles /\ oracle_infos' = oracle_infos \cup {k}
      BY <2>1 DEF IInv
    <3>2. \A t \in 1..(n + 1) : tasks'[t].pubkey \in oracle_infos'
      BY <2>2, <2>3, <2>4, <2>7, <3>1 DEF KnownOracles
    <3>3. \A x \in oracle_infos' \ InitialOracles : \E t \in 1..(n + 1) : tasks'[t].pubkey = x
      BY <2>2, <2>3, <2>4, <2>7, <3>1 DEF KnownOracles
    <3> QED
      BY <2>4, <3>1, <3>2, <3>3 DEF KnownOracles
  <2>10. SubscribersOfAdded'
    <3>1. SubscribersOfAdded /\ added \subseteq 1..n
      BY <2>3 DEF IInv, SubscribersOfAdded
    <3>2. \A i \in 1..(m + 1) : i \in 1..m \/ i = m + 1
      BY <2>5
    <3>3. m + 1 \in 1..(m + 1) /\ \A i \in 1..m : i \in 1..(m + 1)
      BY <2>5
    <3>4. added' \subseteq DOMAIN tasks'
      BY <2>1, <2>4, <2>7, <3>1
    <3>5. \A i \in 1..(m + 1) : oracle_subscribers'[i] # 0 => oracle_subscribers'[i] \in added'
      BY <2>1, <2>5, <3>1, <3>2 DEF SubscribersOfAdded
    <3>6. ASSUME NEW t \in added'
          PROVE  \/ StoppedOrGone(tasks'[t])
                 \/ \E i \in 1..(m + 1) : oracle_subscribers'[i] = t
      <4>1. CASE t = n + 1
        BY <2>5, <3>3, <4>1
      <4>2. CASE t \in added
        <5>1. tasks'[t] = tasks[t]
          BY <2>4, <3>1, <4>2
        <5>2. StoppedOrGone(tasks[t]) \/ \E i \in 1..m : oracle_subscribers[i] = t
          BY <2>5, <3>1, <4>2 DEF SubscribersOfAdded
        <5> QED
          BY <2>5, <3>3, <5>1, <5>2
      <4> QED
        BY <2>1, <3>6, <4>1, <4>2
    <3>7. SubscribersOfAdded' <=>
            /\ added' \subseteq DOMAIN tasks'
            /\ \A i \in DOMAIN oracle_subscribers' :
                 oracle_subscribers'[i] # 0 => oracle_subscribers'[i] \in added'
            /\ \A t \in added' : \/ StoppedOrGone(tasks'[t])
                                 \/ \E i \in DOMAIN oracle_subscribers' : oracle_subscribers'[i] = t
      BY DEF SubscribersOfAdded, StoppedOrGone, Live
    <3> QED
      BY <2>5, <3>4, <3>5, <3>6, <3>7
  <2>11. SwitchesAdded'
    BY <1>2, <2>1 DEF IInv, SwitchesAdded
  <2>13. TasksBounded'
    <3> SUFFICES ASSUME NEW x \in Account
                 PROVE  Cardinality(TasksOf(x)')
                          <= Len(handlers) + (IF x \in InitialOracles THEN 0 ELSE 1)
      BY <1>1 DEF TasksBounded
    <3>1. CASE x # k
      <4>1. TasksOf(x)' = TasksOf(x)
        BY <2>2, <2>3, <2>4, <2>7, <3>1
      <4> QED
        BY <4>1 DEF IInv, TasksBounded
    <3>2. CASE x = k
      <4>1. TasksOf(k)' = {n + 1}
        <5>1. \A t \in 1..n : tasks[t].pubkey # k
          BY <1>5, <2>3 DEF IInv, KnownOracles
        <5> QED
          BY <2>2, <2>4, <2>7, <5>1
      <4>2. Cardinality(TasksOf(k)') = 1
        BY <4>1, FS_Singleton
      <4>3. Len(handlers) \in Nat
        BY LenProperties DEF IInv, OracleTypes
      <4> HIDE DEF TasksOf
      <4> QED
        BY <2>6, <3>2, <4>2, <4>3
    <3> QED
      BY <3>1, <3>2
  <2>14. (current_oracle \in oracle_infos)'
    BY <1>1, <2>1 DEF IInv
  <2> QED
    BY <1>3, <2>8, <2>9, <2>10, <2>11, <2>13, <2>14 DEF IInv
<1> QED
  BY <1>4, <1>5

(* The market's oracle changes, a query spawns a switch, a switch ends.      *)
LEMMA SwitchStep ==
  ASSUME IInv, QueryPrice \/ \E k \in Account : SwitchOracle(k) \/ UpdateOracle(k)
  PROVE  IInv'
<1> USE DEF map_vars, call_vars, stream_vars
<1>1. UNCHANGED <<updates, tasks, handlers, oraclemap, oracle_infos, subscribed,
                  oracle_subscribers, added, call, pending>>
  BY DEF QueryPrice, SwitchOracle, UpdateOracle
<1>2. /\ market_oracle' \in Account /\ adding' \in [Account -> Nat] /\ updating' \in [Account -> Nat]
      /\ current_oracle' \in oracle_infos
      /\ \A x \in Account : updating'[x] > 0 => x \in oracle_infos
  <2>0. market_oracle \in Account /\ adding \in [Account -> Nat] /\ updating \in [Account -> Nat]
        /\ current_oracle \in oracle_infos
        /\ \A x \in Account : updating[x] > 0 => x \in oracle_infos
    BY DEF IInv, OracleTypes, SwitchesAdded
  <2>1. CASE QueryPrice
    <3> DEFINE a == adding[market_oracle] + 1
    <3>1. a \in Nat
      BY <2>0
    <3>2. adding' = [adding EXCEPT ![market_oracle] = a]
          /\ UNCHANGED <<market_oracle, current_oracle, updating>>
      BY <2>1 DEF QueryPrice
    <3> HIDE DEF a
    <3>3. adding' \in [Account -> Nat]
      BY <2>0, <3>1, <3>2
    <3> QED
      BY <2>0, <3>2, <3>3
  <2>2. ASSUME NEW k \in Account, SwitchOracle(k)
        PROVE  /\ market_oracle' \in Account /\ adding' \in [Account -> Nat]
               /\ updating' \in [Account -> Nat] /\ current_oracle' \in oracle_infos
               /\ \A x \in Account : updating'[x] > 0 => x \in oracle_infos
    BY <2>0, <2>2 DEF SwitchOracle
  <2>3. ASSUME NEW k \in Account, UpdateOracle(k)
        PROVE  /\ market_oracle' \in Account /\ adding' \in [Account -> Nat]
               /\ updating' \in [Account -> Nat] /\ current_oracle' \in oracle_infos
               /\ \A x \in Account : updating'[x] > 0 => x \in oracle_infos
    <3> DEFINE a == updating[k] - 1
    <3>1. a \in Nat /\ updating[k] > 0
      BY <2>0, <2>3 DEF UpdateOracle
    <3>2. updating' = [updating EXCEPT ![k] = a] /\ current_oracle' = k
          /\ UNCHANGED <<market_oracle, adding>>
      BY <2>3 DEF UpdateOracle
    <3> HIDE DEF a
    <3>3. updating' \in [Account -> Nat] /\ k \in oracle_infos
          /\ \A x \in Account : x # k => updating'[x] = updating[x]
      BY <2>0, <3>1, <3>2
    <3> QED
      BY <2>0, <3>2, <3>3
  <2> QED
    BY <2>1, <2>2, <2>3
<1>3. OracleTypes'
  BY <1>1, <1>2 DEF IInv, OracleTypes
<1>4. LatestSlot'
  BY <1>1 DEF IInv, LatestSlot
<1> QED
  BY <1>1, <1>2, <1>3, <1>4, NoNewTask DEF IInv

-----------------------------------------------------------------------------
LEMMA Start == Init => IInv
<1> SUFFICES ASSUME Init PROVE IInv
  OBVIOUS
<1>1. Len(tasks) = 0 /\ DOMAIN tasks = {} /\ Len(handlers) = 0 /\ DOMAIN oracle_subscribers = {}
      /\ tasks = <<>> /\ handlers = <<>> /\ oracle_subscribers = <<>>
  BY EmptySeq, LenProperties DEF Init
<1>2. OracleTypes
  <2>1. EmptyMap \in [Account -> 0..MaxSlot] /\ [k \in Account |-> 0] \in [Account -> Nat]
    BY Numbers DEF EmptyMap
  <2> QED
    BY <1>1, <2>1, EmptySeq, Numbers DEF Init, OracleTypes
<1>3. LatestSlot
  <2>1. 0 \in 0..MaxSlot
    BY Numbers
  <2> QED
    BY <2>1 DEF Init, LatestSlot
<1>4. KnownOracles /\ SubscribersOfAdded /\ current_oracle \in oracle_infos
  BY <1>1, Numbers DEF Init, KnownOracles, SubscribersOfAdded
<1>5. SwitchesAdded
  BY DEF Init, SwitchesAdded
<1>6. TasksBounded
  <2>1. \A k : {t \in DOMAIN tasks : tasks[t].pubkey = k} = {}
    BY <1>1
  <2> QED
    BY <1>1, <2>1, FS_EmptySet DEF TasksBounded
<1> QED
  BY <1>2, <1>3, <1>4, <1>5, <1>6 DEF IInv

LEMMA Step == IInv /\ [Next]_vars => IInv'
<1> SUFFICES ASSUME IInv, [Next]_vars PROVE IInv'
  OBVIOUS
<1>1. CASE UNCHANGED vars
  <2>1. OracleTypes' /\ LatestSlot'
    BY <1>1 DEF vars, IInv, OracleTypes, LatestSlot
  <2> QED
    BY <1>1, <2>1, NoNewTask DEF vars, IInv, SwitchesAdded
<1>2. CASE Next
  BY <1>2, WriteStep, TaskStepStep, CallStep, SubscribeStep, UnsubscribeStep, HandleStep,
     AddOracleStep, SwitchStep DEF Next
<1> QED
  BY <1>1, <1>2

LEMMA Invariant == Spec => []IInv
  BY Start, Step, PTL DEF Spec

(* However subscribe(), unsubscribe() and the spawned switches interleave,   *)
(* an oracle has at most one task for each call of subscribe() and one more  *)
(* if it was added.                                                          *)
THEOREM BoundedTasks == Spec => []TasksBounded
<1>1. IInv => TasksBounded
  BY DEF IInv
<1> QED
  BY <1>1, Invariant, PTL

(* Only the tasks that add_oracle spawned since the last subscribe() are     *)
(* ever signalled, so none that subscribe() spawned, for whichever oracle;   *)
(* and an unsubscribe() that succeeds has signalled all of them that live.   *)
THEOREM StopsAdded == Spec => StopsExactlyAdded
<1> DEFINE A == /\ \A t \in DOMAIN tasks : tasks'[t].stop /\ ~tasks[t].stop => t \in added
                /\ subscribed /\ ~subscribed' =>
                     \A t \in added : Live(tasks[t]) => tasks'[t].stop
<1>1. IInv /\ [Next]_vars => [A]_vars
  <2> SUFFICES ASSUME IInv, Next PROVE A
    BY DEF vars
  <2> USE DEF stream_vars, map_vars, call_vars, switch_vars
  <2>0. tasks \in Seq(Task) /\ DOMAIN tasks = 1..Len(tasks)
    BY LenProperties DEF IInv, OracleTypes
  <2>1. CASE Unsubscribe
    <3>1. \A t \in DOMAIN tasks : tasks'[t].stop => tasks[t].stop \/ t \in added
      BY <2>1, UnsubscribeStep
    <3>2. ~subscribed' => \A t \in added : Live(tasks[t]) => tasks'[t].stop
      BY <2>1, UnsubscribeStep
    <3> QED
      BY <3>1, <3>2
  <2>2. CASE Subscribe
    <3>1. subscribed' = TRUE /\ \A t \in DOMAIN tasks : tasks'[t] = tasks[t]
      BY <2>0, <2>2, ConcatKeeps DEF Subscribe
    <3> QED
      BY <3>1
  <2>3. ASSUME NEW k \in Account, AddOracle(k) PROVE A
    <3>1. subscribed' = subscribed /\ \A t \in DOMAIN tasks : tasks'[t] = tasks[t]
      BY <2>0, <2>3 DEF AddOracle
    <3> QED
      BY <3>1
  <2>4. ASSUME NEW t \in DOMAIN tasks, TaskStep(t), UNCHANGED map_vars PROVE A
    <3>1. PICK next : tasks' = [tasks EXCEPT ![t] = next] /\ Advances(tasks[t], next)
      BY <2>4, TaskStepKeeps DEF IInv
    <3>2. \A s \in DOMAIN tasks : tasks'[s].stop => tasks[s].stop
      BY <2>0, <3>1 DEF Advances
    <3> QED
      BY <2>4, <3>2
  <2>5. CASE UNCHANGED <<tasks, subscribed>>
    BY <2>5
  <2> QED
    BY <2>1, <2>2, <2>3, <2>4, <2>5
    DEF Next, Write, SyncAnswer, SyncInsert, SyncFails, SyncDone, Handle, SwitchOracle, QueryPrice,
        UpdateOracle
<1> QED
  BY <1>1, Invariant, PTL DEF Spec, StopsExactlyAdded

(* The oracle in use has a known source, and a task if it was switched to.   *)
THEOREM CurrentFollowed == Spec => []CurrentOracleFollowed
<1>1. IInv => CurrentOracleFollowed
  BY DEF IInv, KnownOracles, CurrentOracleFollowed
<1> QED
  BY <1>1, Invariant, PTL

(* An oracle in no handler's copy of the infos changes its entry only by     *)
(* what sync fetched or unsubscribe() clears.                                *)
THEOREM AddedFrozen == Spec => AddedOracleFrozen
<1> DEFINE A == \A k \in Account :
                  (\A h \in DOMAIN handlers : k \notin handlers[h].infos) =>
                    oraclemap'[k] \in {oraclemap[k], pending[k], 0}
<1>1. IInv /\ [Next]_vars => [A]_vars
  <2> SUFFICES ASSUME IInv, Next, NEW k \in Account,
                      \A h \in DOMAIN handlers : k \notin handlers[h].infos
               PROVE  oraclemap'[k] \in {oraclemap[k], pending[k], 0}
    BY DEF vars
  <2>0. OracleTypes /\ oraclemap \in [Account -> 0..MaxSlot]
    BY DEF IInv, OracleTypes
  <2>1. CASE \E x \in Account : SyncInsert(x)
    BY <2>0, <2>1 DEF SyncInsert
  <2>2. CASE Unsubscribe
    BY <2>2 DEF Unsubscribe, EmptyMap
  <2>3. ASSUME NEW h \in DOMAIN handlers, Handle(h)
        PROVE  oraclemap'[k] = oraclemap[k]
    <3>1. ASSUME NEW u \in Update, u[1] \in handlers[h].infos,
                 oraclemap' = [oraclemap EXCEPT ![u[1]] = u[2]]
          PROVE  oraclemap'[k] = oraclemap[k]
      BY <2>0, <3>1
    <3> QED
      BY <2>0, <2>3, <3>1, HandleKeeps
  <2>4. CASE UNCHANGED oraclemap
    BY <2>4
  <2> QED
    BY <2>1, <2>2, <2>3, <2>4
    DEF Next, SyncAnswer, SyncFails, SyncDone, Subscribe, SwitchOracle, QueryPrice, AddOracle,
        UpdateOracle, map_vars
<1> QED
  BY <1>1, Invariant, PTL DEF Spec, AddedOracleFrozen
=============================================================================
