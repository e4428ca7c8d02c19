------------------------------- MODULE UserMap -------------------------------
(***************************************************************************)
(* The UserMap of usermap.rs: the users by account, filled by a sync over   *)
(* RPC, by must_get, and by the handler threads of the account updates.     *)
(* None of them compares slots before it writes.  Calls take &mut self and  *)
(* come one at a time; the tasks and the handlers run beside them.          *)
(*                                                                         *)
(* Left out: latest_slot, which is reported and never decided on, and the   *)
(* callback.  UserMap.subscribed always equals the subscriber's.            *)
(***************************************************************************)
EXTENDS ProgramAccountSubscriber

VARIABLES
  usermap,  \* the entry of each account; slot 0 for none
  call,     \* where the running call is
  pending   \* what the running call still has to insert: account -> slot, 0 for done

map_vars == <<usermap, call, pending>>
vars == <<slot, updates, subscribed, tasks, subscribers, emitted, usermap, call, pending>>

\* via is a history field: who wrote the entry.
Entry == [slot: 0..MaxSlot, via: {"none", "ws", "rpc"}]
NoEntry == [slot |-> 0, via |-> "none"]

EmptyMap == [k \in Account |-> NoEntry]
Nothing == [k \in Account |-> 0]

\* What an RPC node that has seen the slots up to s answers for an account.
AsOf(k, s) ==
  CHOOSE n \in 0..s : /\ n = 0 \/ <<k, n>> \in updates
                      /\ \A m \in (n + 1)..s : <<k, m>> \notin updates

Init ==
  /\ SubscriberInit
  /\ usermap = EmptyMap
  /\ call = "idle"
  /\ pending = Nothing

-----------------------------------------------------------------------------
(* subscribe(): sync, then the subscription, then the handler.              *)

\* The answer of getProgramAccounts.
SyncAnswer ==
  /\ call = "idle"
  /\ subscribed \/ Len(tasks) < MaxTasks
  /\ \E s \in 0..slot : pending' = [k \in Account |-> AsOf(k, s)]
  /\ call' = "sync"
  /\ UNCHANGED <<subscriber_vars, usermap>>

SyncInsert(k) ==
  /\ call = "sync"
  /\ pending[k] # 0
  /\ usermap' = [usermap EXCEPT ![k] = [slot |-> pending[k], via |-> "rpc"]]
  /\ pending' = [pending EXCEPT ![k] = 0]
  /\ UNCHANGED <<subscriber_vars, call>>

\* An account that does not decode ends the call with an error.
SyncFails ==
  /\ call = "sync"
  /\ pending # Nothing
  /\ pending' = Nothing
  /\ call' = "idle"
  /\ UNCHANGED <<subscriber_vars, usermap>>

SyncDone ==
  /\ call = "sync"
  /\ pending = Nothing
  /\ call' = IF subscribed THEN "idle" ELSE "synced"
  /\ UNCHANGED <<subscriber_vars, usermap, pending>>

\* Without a sync_lock, subscribe() starts here.
Subscribe ==
  /\ call \in {"idle", "synced"}
  /\ subscribe
  /\ call' = "handler"
  /\ UNCHANGED <<chain_vars, subscribers, emitted, usermap, pending>>

\* event_emitter.subscribe: a new queue and thread, beside the old ones.
AddHandler ==
  /\ call = "handler"
  /\ call' = "idle"
  /\ subscribers' = Append(subscribers, <<>>)
  /\ UNCHANGED <<chain_vars, subscribed, tasks, emitted, usermap, pending>>

-----------------------------------------------------------------------------
Unsubscribe ==
  /\ call = "idle"
  /\ unsubscribe
  /\ call' = "clear"
  /\ UNCHANGED <<chain_vars, subscribers, emitted, usermap, pending>>

Clear ==
  /\ call = "clear"
  /\ call' = "idle"
  /\ usermap' = EmptyMap
  /\ UNCHANGED <<subscriber_vars, pending>>

\* must_get on a miss: the account as an RPC node knows it ...  One call at a
\* time, though must_get takes &self and two could overlap.
MustGet(k) ==
  /\ call = "idle"
  /\ usermap[k] = NoEntry
  /\ \E s \in 0..slot :
       /\ AsOf(k, s) # 0
       /\ pending' = [Nothing EXCEPT ![k] = AsOf(k, s)]
  /\ call' = "must_get"
  /\ UNCHANGED <<subscriber_vars, usermap>>

\* ... is inserted, over what has come meanwhile.
MustGetInsert(k) ==
  /\ call = "must_get"
  /\ pending[k] # 0
  /\ usermap' = [usermap EXCEPT ![k] = [slot |-> pending[k], via |-> "rpc"]]
  /\ pending' = Nothing
  /\ call' = "idle"
  /\ UNCHANGED subscriber_vars

\* A handler thread inserts the next update of its queue.
Handle(h) ==
  /\ subscribers[h] # <<>>
  /\ LET u == Head(subscribers[h])
     IN usermap' = [usermap EXCEPT ![u[1]] = [slot |-> u[2], via |-> "ws"]]
  /\ subscribers' = [subscribers EXCEPT ![h] = Tail(@)]
  /\ UNCHANGED <<chain_vars, subscribed, tasks, emitted, call, pending>>

Next ==
  \/ \E k \in Account : Write(k) /\ UNCHANGED map_vars
  \/ \E t \in DOMAIN tasks : TaskStep(t) /\ UNCHANGED map_vars
  \/ SyncAnswer
  \/ \E k \in Account : SyncInsert(k) \/ MustGet(k) \/ MustGetInsert(k)
  \/ SyncFails
  \/ SyncDone
  \/ Subscribe
  \/ AddHandler
  \/ Unsubscribe
  \/ Clear
  \/ \E h \in DOMAIN subscribers : Handle(h)

Spec == Init /\ [][Next]_vars

FairSpec == Spec /\ \A t \in 1..MaxTasks : TaskFairness(t)

-----------------------------------------------------------------------------
TypeOK ==
  /\ slot \in 0..MaxSlot
  /\ updates \subseteq Update
  /\ subscribed \in BOOLEAN
  /\ tasks \in Seq(Task)
  /\ subscribers \in Seq(Seq(Update))
  /\ emitted \in [Account -> 0..MaxSlot]
  /\ usermap \in [Account -> Entry]
  /\ call \in {"idle", "sync", "synced", "handler", "clear", "must_get"}
  /\ pending \in [Account -> 0..MaxSlot]
  /\ Len(subscribers) <= Len(tasks)

(* However many tasks and handler threads overlap, once the queues are empty *)
(* an entry a handler wrote is the last update emitted for its account:      *)
(* emit() serves all handlers under one lock, so they all agree on the order *)
(* (event_emitter.rs:54-62).                                                 *)
AtRestLastEmitted ==
  (\A h \in DOMAIN subscribers : subscribers[h] = <<>>) =>
    \A k \in Account : usermap[k].via = "ws" => usermap[k].slot = emitted[k]

(* Until the map is subscribed a second time, an update never replaces an    *)
(* update of a later slot of the same account, through all reconnections of  *)
(* the task (websocket_program_account_subscriber.rs:134).                   *)
OneTaskNeverGoesBack ==
  [][Len(tasks') <= 1 =>
       \A k \in Account :
         usermap[k].via = "ws" /\ usermap'[k].via = "ws" => usermap'[k].slot >= usermap[k].slot]_vars

(* However often the map is unsubscribed and subscribed again, all live      *)
(* tasks but the last have a stop signal waiting for them.                   *)
OneTaskUnstopped ==
  \A t \in DOMAIN tasks : Live(tasks[t]) /\ ~tasks[t].stop => t = Len(tasks) /\ subscribed

(* A task gives up after half as many failed subscriptions in a row as       *)
(* max_reconnection_attempts says, or one more: each failed round is counted *)
(* in the Err arm and again after the delay                                  *)
(* (websocket_program_account_subscriber.rs:165, 184).                       *)
GivesUpHalfway ==
  \A t \in DOMAIN tasks : tasks[t].pc = "gave_up" =>
    /\ 2 * tasks[t].failures >= max_reconnection_attempts
    /\ 2 * tasks[t].failures < max_reconnection_attempts + 3

(* A task that ended by itself leaves the map subscribed for good: the send  *)
(* of unsubscribe() fails before the flag is reset, and subscribe() does     *)
(* nothing while it is set.  No other task is started, and once the older    *)
(* ones have ended too no update is emitted any more                         *)
(* (websocket_program_account_subscriber.rs:84, 193-198).                    *)
LostForGood ==
  [][subscribed /\ ~Live(tasks[Len(tasks)]) =>
       /\ subscribed' /\ Len(tasks') = Len(tasks) /\ ~Live(tasks'[Len(tasks')])
       /\ (\A t \in DOMAIN tasks : ~Live(tasks[t])) => emitted' = emitted]_vars

(* A task that was told to stop ends, through reconnections and failures.    *)
StoppedTaskEnds ==
  \A t \in 1..MaxTasks :
    (t \in DOMAIN tasks /\ tasks[t].stop) ~> (t \in DOMAIN tasks /\ ~Live(tasks[t]))

(* "assert_eq!(usermap.size(), 0)", ten seconds after unsubscribe()          *)
(* (usermap.rs:265-269): once the tasks have ended and the handlers are      *)
(* done, no update is left in a map that was unsubscribed.                   *)
EmptyAfterUnsubscribe ==
  (/\ ~subscribed
   /\ call = "idle"
   /\ \A t \in DOMAIN tasks : ~Live(tasks[t])
   /\ \A h \in DOMAIN subscribers : subscribers[h] = <<>>) =>
     \A k \in Account : usermap[k].via # "ws"
===============================================================================
