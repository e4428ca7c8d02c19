----------------------- MODULE ProgramAccountSubscriber -----------------------
(***************************************************************************)
(* WebsocketProgramAccountSubscriber and the EventEmitter it feeds.  Every  *)
(* subscribe() spawns a task that reads account updates from a websocket,   *)
(* reconnects, and emits; emit() copies an update into the queue of every   *)
(* handler thread.  unsubscribe() leaves a stop signal for the task, which  *)
(* sees it only while it waits on an open stream; handlers are never        *)
(* removed.                                                                 *)
(*                                                                         *)
(* External: the chain and the node.  An update is an account and the slot  *)
(* that wrote it, which also stands for the data.  A stream may bring any   *)
(* update, late, repeated or out of order.                                  *)
(***************************************************************************)
EXTENDS Naturals, Sequences, FiniteSets

CONSTANTS
  Account,                    \* public keys of the program's accounts
  MaxSlot,                    \* bound: slots of the chain
  MaxTasks,                   \* bound: tasks ever spawned
  MaxQueue,                   \* bound: events queued for one handler
  max_reconnection_attempts   \* 20 in subscribe_ws

ASSUME SubscriberAssumption ==
  {MaxSlot, MaxTasks, MaxQueue, max_reconnection_attempts} \subseteq Nat \ {0}

VARIABLES
  slot,         \* the slot of the chain
  updates,      \* the updates of the chain
  subscribed,   \* `subscribed' of the subscriber
  tasks,        \* the tasks spawned, oldest first
  subscribers,  \* the queue of each handler thread, oldest first
  emitted       \* history: the slot last emitted for each account, 0 for none

chain_vars == <<slot, updates>>
subscriber_vars == <<slot, updates, subscribed, tasks, subscribers, emitted>>

Update == Account \X (1..MaxSlot)

\* failures is a history field: subscriptions that failed since one succeeded.
Task == [pc: {"connect", "select", "delay", "ended", "gave_up"},
         latest_slot: 0..MaxSlot,
         attempt: Nat,
         stop: BOOLEAN,
         failures: Nat]

NewTask == [pc |-> "connect", latest_slot |-> 0, attempt |-> 0, stop |-> FALSE, failures |-> 0]

Live(task) == task.pc \notin {"ended", "gave_up"}

SubscriberInit ==
  /\ slot = 0
  /\ updates = {}
  /\ subscribed = FALSE
  /\ tasks = <<>>
  /\ subscribers = <<>>
  /\ emitted = [k \in Account |-> 0]

\* The chain writes an account.
Write(k) ==
  /\ slot < MaxSlot
  /\ slot' = slot + 1
  /\ updates' = updates \cup {<<k, slot + 1>>}
  /\ UNCHANGED <<subscribed, tasks, subscribers, emitted>>

-----------------------------------------------------------------------------
\* Mutant: only the handler registered last is served.
emit_latest(u) ==
  LET n == Len(subscribers)
  IN /\ n > 0 => Len(subscribers[n]) < MaxQueue
     /\ subscribers' = IF n = 0 THEN subscribers ELSE [subscribers EXCEPT ![n] = Append(@, u)]
     /\ emitted' = IF n = 0 THEN emitted ELSE [emitted EXCEPT ![u[1]] = u[2]]

\* EventEmitter::emit, under the mutex of the subscribers.
emit(u) ==
  /\ \A h \in 1..Len(subscribers) : Len(subscribers[h]) < MaxQueue
  /\ subscribers' = [h \in 1..Len(subscribers) |-> Append(subscribers[h], u)]
  /\ emitted' = IF subscribers = <<>> THEN emitted ELSE [emitted EXCEPT ![u[1]] = u[2]]

-----------------------------------------------------------------------------
(* The task of subscribe_ws.                                                *)

\* PubsubClient::new failed: `?' ends the task.
ConnectFails(t) ==
  /\ tasks[t].pc = "connect"
  /\ tasks' = [tasks EXCEPT ![t].pc = "ended"]
  /\ UNCHANGED <<chain_vars, subscribed, subscribers, emitted>>

SubscribeOk(t) ==
  /\ tasks[t].pc = "connect"
  /\ tasks' = [tasks EXCEPT ![t].pc = "select", ![t].attempt = 0, ![t].failures = 0]
  /\ UNCHANGED <<chain_vars, subscribed, subscribers, emitted>>

SubscribeErr(t) ==
  /\ tasks[t].pc = "connect"
  /\ tasks' = [tasks EXCEPT
       ![t].attempt = @ + 1,
       ![t].failures = @ + 1,
       ![t].pc = IF tasks[t].attempt + 1 >= max_reconnection_attempts
                 THEN "gave_up" ELSE "delay"]
  /\ UNCHANGED <<chain_vars, subscribed, subscribers, emitted>>

\* A message at or above latest_slot moves it; it is emitted if it decodes.
Message(t) ==
  /\ tasks[t].pc = "select"
  /\ \E u \in updates :
       /\ u[2] >= tasks[t].latest_slot
       /\ tasks' = [tasks EXCEPT ![t].latest_slot = u[2]]
       /\ \/ emit(u)
          \/ UNCHANGED <<subscribers, emitted>>
  /\ UNCHANGED <<chain_vars, subscribed>>

\* Mutant: the slot is forgotten with the stream.
StreamEndsForgets(t) ==
  /\ tasks[t].pc = "select"
  /\ tasks' = [tasks EXCEPT ![t].pc = "delay", ![t].latest_slot = 0]
  /\ UNCHANGED <<chain_vars, subscribed, subscribers, emitted>>

StreamEnds(t) ==
  /\ tasks[t].pc = "select"
  /\ tasks' = [tasks EXCEPT ![t].pc = "delay"]
  /\ UNCHANGED <<chain_vars, subscribed, subscribers, emitted>>

Stop(t) ==
  /\ tasks[t].pc = "select"
  /\ tasks[t].stop
  /\ tasks' = [tasks EXCEPT ![t].pc = "ended"]
  /\ UNCHANGED <<chain_vars, subscribed, subscribers, emitted>>

\* Mutant: every round of the loop counts once.
WakeUpUncounted(t) ==
  /\ tasks[t].pc = "delay"
  /\ tasks' = [tasks EXCEPT ![t].pc = "connect"]
  /\ UNCHANGED <<chain_vars, subscribed, subscribers, emitted>>

\* Mutant: every connection has an unsubscribe channel of its own.
WakeUpDeaf(t) ==
  /\ tasks[t].pc = "delay"
  /\ tasks' = [tasks EXCEPT ![t].pc = "connect", ![t].attempt = @ + 1, ![t].stop = FALSE]
  /\ UNCHANGED <<chain_vars, subscribed, subscribers, emitted>>

\* The end of the delay: the round is counted, a second time if it failed.
WakeUp(t) ==
  /\ tasks[t].pc = "delay"
  /\ tasks' = [tasks EXCEPT ![t].pc = "connect", ![t].attempt = @ + 1]
  /\ UNCHANGED <<chain_vars, subscribed, subscribers, emitted>>

TaskStep(t) ==
  \/ ConnectFails(t)
  \/ SubscribeOk(t)
  \/ SubscribeErr(t)
  \/ Message(t)
  \/ StreamEnds(t)
  \/ Stop(t)
  \/ WakeUp(t)

(* The runtime polls every task, delays end, and a stop signal that is there *)
(* again and again when select! chooses is chosen.                           *)
TaskFairness(t) ==
  /\ WF_subscriber_vars(t \in DOMAIN tasks /\ (ConnectFails(t) \/ SubscribeOk(t) \/ SubscribeErr(t)))
  /\ WF_subscriber_vars(t \in DOMAIN tasks /\ WakeUp(t))
  /\ SF_subscriber_vars(t \in DOMAIN tasks /\ Stop(t))

-----------------------------------------------------------------------------
(* The calls, used by the owner of the subscriber.                          *)

\* subscribe(), when not subscribed: a new task and a new channel.
subscribe ==
  /\ ~subscribed
  /\ Len(tasks) < MaxTasks
  /\ subscribed' = TRUE
  /\ tasks' = Append(tasks, NewTask)

\* Mutant: the sender is dropped from the call.
unsubscribe_unsent ==
  /\ subscribed
  /\ Live(tasks[Len(tasks)])
  /\ subscribed' = FALSE
  /\ UNCHANGED tasks

\* Mutant: the flag is reset though the send failed.
unsubscribe_regardless ==
  /\ subscribed
  /\ subscribed' = FALSE
  /\ tasks' = IF Live(tasks[Len(tasks)]) THEN [tasks EXCEPT ![Len(tasks)].stop = TRUE] ELSE tasks

\* unsubscribe(), when the task of the channel still lives; otherwise send
\* fails and nothing changes.
unsubscribe ==
  /\ subscribed
  /\ Live(tasks[Len(tasks)])
  /\ subscribed' = FALSE
  /\ tasks' = [tasks EXCEPT ![Len(tasks)].stop = TRUE]
===============================================================================
