-------------------------- MODULE AccountSubscriber --------------------------
(***************************************************************************)
(* WebsocketAccountSubscriber: the tasks that follow one account each and   *)
(* emit its updates.  Subscribers of one owner share an EventEmitter, whose *)
(* handler threads have a queue each.                                       *)
(*                                                                         *)
(* A task hears a stop signal only while it waits on an open stream.  When  *)
(* its subscriber is dropped the channel is closed: recv() yields None,     *)
(* which the task ignores, and no signal can come any more.                 *)
(*                                                                         *)
(* External: the chain and the node.  An update is an account and the slot  *)
(* that wrote it, which stands for the data too; a stream may bring any     *)
(* update of its account, late, repeated or out of order.                   *)
(***************************************************************************)
EXTENDS Naturals, Sequences, FiniteSets

CONSTANTS
  Account,                    \* public keys
  MaxSlot,                    \* bound: slots of the chain
  MaxTasks,                   \* bound: no subscribe() that could lead beyond so many tasks
  MaxQueue,                   \* bound: events queued for one handler
  max_reconnection_attempts   \* 20 in subscribe_ws

ASSUME AccountSubscriberAssumption ==
  {MaxSlot, MaxTasks, MaxQueue, max_reconnection_attempts} \subseteq Nat \ {0}

VARIABLES
  updates,   \* the updates of the chain
  tasks,     \* the tasks spawned, oldest first
  handlers   \* the handler threads, oldest first: what each knows and its queue

stream_vars == <<updates, tasks, handlers>>

\* pc is "connect", "select", "delay" or "ended"; stop is a signal not yet heard.
NewTask(k) == [pubkey |-> k, pc |-> "connect", latest_slot |-> 0, attempt |-> 0, stop |-> FALSE]

\* Nothing of a task matters once it has ended, with an error or without.
Ended(k) == [NewTask(k) EXCEPT !.pc = "ended"]
Live(task) == task.pc # "ended"

\* The latest slot of the chain.
Tip == CHOOSE s \in 0..MaxSlot : /\ s = 0 \/ \E u \in updates : u[2] = s
                                 /\ \A u \in updates : u[2] <= s

Write(k) ==
  /\ Tip < MaxSlot
  /\ updates' = updates \cup {<<k, Tip + 1>>}
  /\ UNCHANGED <<tasks, handlers>>

-----------------------------------------------------------------------------
\* PubsubClient::new failed: `?' ends the task.
ConnectFails(t) ==
  /\ tasks[t].pc = "connect"
  /\ tasks' = [tasks EXCEPT ![t] = Ended(@.pubkey)]
  /\ UNCHANGED <<updates, handlers>>

SubscribeOk(t) ==
  /\ tasks[t].pc = "connect"
  /\ tasks' = [tasks EXCEPT ![t].pc = "select", ![t].attempt = 0]
  /\ UNCHANGED <<updates, handlers>>

SubscribeErr(t) ==
  /\ tasks[t].pc = "connect"
  /\ LET attempt == tasks[t].attempt + 1
     IN tasks' = [tasks EXCEPT ![t] =
          IF attempt >= max_reconnection_attempts THEN Ended(tasks[t].pubkey)
          ELSE [tasks[t] EXCEPT !.pc = "delay", !.attempt = attempt]]
  /\ UNCHANGED <<updates, handlers>>

\* A message at or above latest_slot goes to every handler.
Message(t) ==
  /\ tasks[t].pc = "select"
  /\ \E u \in updates :
       /\ u[1] = tasks[t].pubkey
       /\ u[2] >= tasks[t].latest_slot
       /\ \A h \in DOMAIN handlers : Len(handlers[h].queue) < MaxQueue
       /\ tasks' = [tasks EXCEPT ![t].latest_slot = u[2]]
       /\ handlers' = [h \in DOMAIN handlers |->
                         [handlers[h] EXCEPT !.queue = Append(@, u)]]
  /\ UNCHANGED updates

StreamEnds(t) ==
  /\ tasks[t].pc = "select"
  /\ tasks' = [tasks EXCEPT ![t].pc = "delay"]
  /\ UNCHANGED <<updates, handlers>>

Stop(t) ==
  /\ tasks[t].pc = "select"
  /\ tasks[t].stop
  /\ tasks' = [tasks EXCEPT ![t] = Ended(@.pubkey)]
  /\ UNCHANGED <<updates, handlers>>

WakeUp(t) ==
  /\ tasks[t].pc = "delay"
  /\ tasks' = [tasks EXCEPT ![t].pc = "connect", ![t].attempt = @ + 1]
  /\ UNCHANGED <<updates, handlers>>

TaskStep(t) ==
  \/ ConnectFails(t)
  \/ SubscribeOk(t)
  \/ SubscribeErr(t)
  \/ Message(t)
  \/ StreamEnds(t)
  \/ Stop(t)
  \/ WakeUp(t)
===============================================================================
