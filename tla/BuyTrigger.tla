----------------------------- MODULE BuyTrigger -----------------------------
(***************************************************************************)
(* The buy trigger: BuyTrigger.Set and ListenForPendingTxs                 *)
(* (pkg/triggers/buy_trigger.go) as three goroutines that meet on          *)
(* unbuffered channels:                                                    *)
(*                                                                         *)
(*   main      calls Set and receives once from the channel trigger;       *)
(*   trigger   selects between the deadline and the channel txs, and       *)
(*             fires or goes on (its program counter is trig);             *)
(*   listener  subscribes to the node's pending transactions, fetches      *)
(*             each announced hash and sends the transaction on txs (lst). *)
(*                                                                         *)
(* A send and the receive it meets are one step.  The node, its            *)
(* subscription and the wall clock are the environment.                    *)
(***************************************************************************)
EXTENDS TxFilter, Naturals, Sequences, SequencesExt

CONSTANTS
  Txs,              \* the transactions the node may announce, each once
  InitialDeadlines, \* what bt.Deadline may be when the program starts
  MaxBuffer,        \* hashes the RPC client buffers for a subscription
  NodeBehaviours    \* what the node may do to the calls it gets

ASSUME TriggerAssumption ==
  /\ Txs \subseteq Transaction
  /\ NilTx \notin Transaction
  /\ InitialDeadlines \subseteq {"nil", "future", "past"}
  /\ MaxBuffer \in Nat \ {0}
  /\ NodeBehaviours \subseteq {"answers", "fails", "hangs"}

VARIABLES
  process,   \* the program: "running"; "unwinding" (a goroutine panicked and
             \* its deferred calls have run); "crashed"; "fatal" (os.Exit);
             \* "exited" (main has returned, or failed to buy)
  deadline,  \* bt.Deadline against the clock: "nil", "future" or "past"
  main,      \* "configured"; "receiving" from trigger; "fired" (got the value);
             \* "closed" (got the zero value of the closed channel)
  trig,      \* the trigger goroutine
  job,       \* its variable tx; NilTx also before the first receive
  trigger,   \* the channel trigger: "open" or "closed"
  lst,       \* the listener goroutine
  item,      \* the hash it fetches or the transaction it sends
  txs,       \* the channel txs: "open" or "closed"
  sub,       \* the subscription: "off", "live", "failed" (its error is ready)
  buffer,    \* the hashes it has buffered for the listener
  announced, \* every transaction the node has announced on it, in order
  node       \* its behaviour: "answers" every call; "fails" (calls fail, the
             \* connection breaks); "hangs" (a call may also never be answered)

triggerVars  == <<trig, job, trigger>>
listenerVars == <<lst, item, txs>>
subVars      == <<sub, buffer, announced>>
vars == <<process, deadline, main, triggerVars, listenerVars, subVars, node>>

Init ==
  /\ process = "running"
  /\ deadline \in InitialDeadlines
  /\ main = "configured"
  /\ trig = "off" /\ job = NilTx /\ trigger = "open"
  /\ lst = "off" /\ item = NilTx /\ txs = "open"
  /\ sub = "off" /\ buffer = <<>> /\ announced = <<>>
  /\ node \in NodeBehaviours

Alive == process \in {"running", "unwinding"}

CtxDoneLost == FALSE

\* The context `deadline` is done: only a deadline that has passed ends it, the
\* cancel functions are dropped.
CtxDone == deadline = "past"

\* Calls to the node may fail.
Unreliable == node # "answers"

-----------------------------------------------------------------------------
(* Steps of main.                                                          *)

\* main evaluates conf.BuyTrigger.Set(...): it makes the channel and the
\* context, starts the trigger goroutine and returns the channel.
Set ==
  /\ main = "configured" /\ process = "running"
  /\ main' = "receiving" /\ trig' = "listen"
  /\ UNCHANGED <<process, deadline, job, trigger, listenerVars, subVars, node>>

\* fire() meets the receive in main.
Fire ==
  /\ Alive /\ trig = "fire" /\ main = "receiving"
  /\ main' = "fired" /\ trig' = "return"
  /\ UNCHANGED <<process, deadline, job, trigger, listenerVars, subVars, node>>

\* The receive in main finds the channel closed.
ReceiveClosed ==
  /\ Alive /\ main = "receiving" /\ trigger = "closed"
  /\ main' = "closed"
  /\ UNCHANGED <<process, deadline, triggerVars, listenerVars, subVars, node>>

\* buyTokens is over, and the program with it.
MainEnds ==
  /\ Alive /\ main \in {"fired", "closed"}
  /\ process' = "exited"
  /\ UNCHANGED <<deadline, main, triggerVars, listenerVars, subVars, node>>

-----------------------------------------------------------------------------
(* Steps of the trigger goroutine.                                         *)

\* ListenForPendingTxs starts the listener and returns its channel.
StartListening ==
  /\ Alive /\ trig = "listen"
  /\ trig' = "select" /\ lst' = "subscribe"
  /\ UNCHANGED <<process, deadline, main, job, trigger, item, txs, subVars, node>>

\* case <-deadline.Done()
SelectDeadline ==
  /\ Alive /\ trig = "select" /\ CtxDone
  /\ trig' = "fire"
  /\ UNCHANGED <<process, deadline, main, job, trigger, listenerVars, subVars, node>>

SelectOneTx ==
  /\ Alive /\ trig = "select" /\ lst = "send"
  /\ job' = item /\ trig' = "classify"
  /\ lst' = "exited"
  /\ UNCHANGED <<process, deadline, main, trigger, item, txs, subVars, node>>

\* case tx := <-pendingTxs, meeting the listener's send `txs <- tx`
SelectTx ==
  /\ Alive /\ trig = "select" /\ lst = "send"
  /\ job' = item /\ trig' = "classify"
  /\ lst' = "select"
  /\ UNCHANGED <<process, deadline, main, trigger, item, txs, subVars, node>>

\* case tx := <-pendingTxs when the listener has closed the channel: tx is nil
SelectClosed ==
  /\ Alive /\ trig = "select" /\ txs = "closed"
  /\ job' = NilTx /\ trig' = "classify"
  /\ UNCHANGED <<process, deadline, main, trigger, listenerVars, subVars, node>>

ClassifyOnce(networkUp) ==
  /\ Alive /\ trig = "classify"
  /\ \/ /\ isTargetTransaction(job, networkUp) = "target"
        /\ trig' = "fire"
     \/ /\ isTargetTransaction(job, networkUp) = "other"
        /\ trig' = "return"
  /\ UNCHANGED <<process, deadline, main, job, trigger, listenerVars, subVars, node>>

\* isTargetTransaction returns, having asked the node for its network ID with
\* context.Background(): no deadline ends a call that the node leaves hanging.
ClassifyReturns(networkUp) ==
  /\ Alive /\ trig = "classify"
  /\ \/ /\ isTargetTransaction(job, networkUp) = "target"
        /\ trig' = "fire"
     \/ /\ isTargetTransaction(job, networkUp) = "other"
        /\ trig' = "select"
  /\ UNCHANGED <<process, deadline, main, job, trigger, listenerVars, subVars, node>>

\* isTargetTransaction panics: the deferred close(trigger) runs first, then the
\* runtime ends the process.
ClassifyPanics(networkUp) ==
  /\ Alive /\ trig = "classify"
  /\ isTargetTransaction(job, networkUp) = "panic"
  /\ trig' = "exited" /\ trigger' = "closed"
  /\ process' = "unwinding"
  /\ UNCHANGED <<deadline, main, job, listenerVars, subVars, node>>

\* The deferred close(trigger) after fire().
TriggerReturns ==
  /\ Alive /\ trig = "return"
  /\ trigger' = "closed" /\ trig' = "exited"
  /\ UNCHANGED <<process, deadline, main, job, listenerVars, subVars, node>>

-----------------------------------------------------------------------------
(* Steps of the listener goroutine.                                        *)

\* A call to the node gets past its context only if that is not done yet.
\* SubscribePendingTransactions has sent its request.
SubscribeSends ==
  /\ Alive /\ lst = "subscribe" /\ ~CtxDone
  /\ lst' = "subscribing"
  /\ UNCHANGED <<process, deadline, main, triggerVars, item, txs, subVars, node>>

Subscribed ==
  /\ Alive /\ lst = "subscribing"
  /\ lst' = "select" /\ sub' = "live"
  /\ UNCHANGED <<process, deadline, main, triggerVars, item, txs, buffer, announced, node>>

\* err # nil, the context being done or the node failing: log.Fatalf
SubscribeFails ==
  /\ Alive /\ lst \in {"subscribe", "subscribing"}
  /\ CtxDone \/ Unreliable
  /\ process' = "fatal"
  /\ UNCHANGED <<deadline, main, triggerVars, listenerVars, subVars, node>>

\* case <-ctx.Done()
ListenerCancelled ==
  /\ Alive /\ lst = "select" /\ CtxDone
  /\ lst' = "closing"
  /\ UNCHANGED <<process, deadline, main, triggerVars, item, txs, subVars, node>>

\* case err := <-sub.Err(): log.Fatalf
ListenerSubError ==
  /\ Alive /\ lst = "select" /\ sub = "failed"
  /\ process' = "fatal"
  /\ UNCHANGED <<deadline, main, triggerVars, listenerVars, subVars, node>>

ReceivesNewest ==
  /\ Alive /\ lst = "select" /\ sub = "live" /\ buffer # <<>>
  /\ item' = Last(buffer) /\ buffer' = Front(buffer)
  /\ lst' = "fetch"
  /\ UNCHANGED <<process, deadline, main, triggerVars, txs, sub, announced, node>>

ReceivesWhileSending ==
  /\ Alive /\ lst \in {"select", "send"} /\ sub = "live" /\ buffer # <<>>
  /\ item' = Head(buffer) /\ buffer' = Tail(buffer)
  /\ lst' = "fetch"
  /\ UNCHANGED <<process, deadline, main, triggerVars, txs, sub, announced, node>>

\* case hash := <-txHashes
ListenerReceives ==
  /\ Alive /\ lst = "select" /\ sub = "live" /\ buffer # <<>>
  /\ item' = Head(buffer) /\ buffer' = Tail(buffer)
  /\ lst' = "fetch"
  /\ UNCHANGED <<process, deadline, main, triggerVars, txs, sub, announced, node>>

\* client.TransactionByHash(ctx, hash) has sent its request ...
FetchSends ==
  /\ Alive /\ lst = "fetch" /\ ~CtxDone
  /\ lst' = "fetching"
  /\ UNCHANGED <<process, deadline, main, triggerVars, item, txs, subVars, node>>

\* ... and returns the transaction,
FetchSucceeds ==
  /\ Alive /\ lst = "fetching"
  /\ lst' = "send"
  /\ UNCHANGED <<process, deadline, main, triggerVars, item, txs, subVars, node>>

FetchFailsReturns ==
  /\ Alive /\ lst \in {"fetch", "fetching"} /\ (CtxDone \/ Unreliable)
  /\ lst' = "closing"
  /\ UNCHANGED <<process, deadline, main, triggerVars, item, txs, subVars, node>>

FetchFailsRetries ==
  /\ Alive /\ lst \in {"fetch", "fetching"} /\ (CtxDone \/ Unreliable)
  /\ lst' = "fetch"
  /\ UNCHANGED <<process, deadline, main, triggerVars, item, txs, subVars, node>>

\* or an error: the context is done, the node fails or no longer knows the hash.
FetchFails ==
  /\ Alive /\ lst \in {"fetch", "fetching"} /\ (CtxDone \/ Unreliable)
  /\ lst' = "select"
  /\ UNCHANGED <<process, deadline, main, triggerVars, item, txs, subVars, node>>

ForgetsTxs ==
  /\ Alive /\ lst = "closing"
  /\ txs' = "nil" /\ lst' = "unsubscribe"
  /\ UNCHANGED <<process, deadline, main, triggerVars, item, subVars, node>>

\* The deferred calls, last in first out: close(txs) ...
CloseTxs ==
  /\ Alive /\ lst = "closing"
  /\ txs' = "closed" /\ lst' = "unsubscribe"
  /\ UNCHANGED <<process, deadline, main, triggerVars, item, subVars, node>>

\* ... then sub.Unsubscribe().
Unsubscribe ==
  /\ Alive /\ lst = "unsubscribe"
  /\ sub' = "off" /\ buffer' = <<>> /\ lst' = "exited"
  /\ UNCHANGED <<process, deadline, main, triggerVars, item, txs, announced, node>>

-----------------------------------------------------------------------------
(* The environment: the node, the clock and the Go runtime.                *)

\* The node announces a hash and the RPC client buffers it; a full buffer ends
\* the subscription with ErrSubscriptionQueueOverflow.
Announce(tx) ==
  /\ Alive /\ sub = "live" /\ tx \notin ToSet(announced)
  /\ announced' = Append(announced, tx)
  /\ \/ /\ Len(buffer) < MaxBuffer
        /\ buffer' = Append(buffer, tx)
        /\ UNCHANGED sub
     \/ /\ Len(buffer) = MaxBuffer
        /\ buffer' = <<>>
        /\ sub' = "failed"
  /\ UNCHANGED <<process, deadline, main, triggerVars, listenerVars, node>>

\* The connection of the subscription breaks.
ConnectionLost ==
  /\ Alive /\ Unreliable /\ sub = "live"
  /\ sub' = "failed" /\ buffer' = <<>>
  /\ UNCHANGED <<process, deadline, main, triggerVars, listenerVars, announced, node>>

DeadlinePasses ==
  /\ Alive /\ deadline = "future"
  /\ deadline' = "past"
  /\ UNCHANGED <<process, main, triggerVars, listenerVars, subVars, node>>

\* The runtime prints the panic and exits.
Crash ==
  /\ process = "unwinding"
  /\ process' = "crashed"
  /\ UNCHANGED <<deadline, main, triggerVars, listenerVars, subVars, node>>

-----------------------------------------------------------------------------
NetworkAnswers == IF Unreliable THEN BOOLEAN ELSE {TRUE}

Classify == \E up \in NetworkAnswers : ClassifyReturns(up) \/ ClassifyPanics(up)

MainStep == Set \/ Fire \/ ReceiveClosed

\* The steps of the goroutines that wait for no answer of the node ...
TriggerLocal ==
  StartListening \/ SelectDeadline \/ SelectTx \/ SelectClosed \/ TriggerReturns

ListenerLocal ==
  \/ SubscribeSends \/ FetchSends
  \/ ListenerCancelled \/ ListenerSubError \/ ListenerReceives
  \/ CloseTxs \/ Unsubscribe

\* ... and those that its answer, or the end of the context, brings about.
CallReturns == Subscribed \/ SubscribeFails \/ FetchSucceeds \/ FetchFails

TriggerStep == TriggerLocal \/ Classify

ListenerStep == ListenerLocal \/ CallReturns

Environment ==
  (\E tx \in Txs : Announce(tx)) \/ ConnectionLost \/ DeadlinePasses \/ Crash

Next == MainStep \/ MainEnds \/ TriggerStep \/ ListenerStep \/ Environment

\* The Go scheduler runs every goroutine that can run, a select whose case stays
\* ready takes it in the end, and a panic ends the process.  A call returns when its
\* context is done; before that only a node that does not hang has to answer.
Fairness ==
  /\ WF_vars(MainStep) /\ WF_vars(TriggerLocal) /\ WF_vars(ListenerLocal)
  /\ WF_vars((CtxDone \/ node # "hangs") /\ CallReturns)
  /\ WF_vars(node # "hangs" /\ Classify)
  /\ SF_vars(SelectDeadline)
  /\ WF_vars(Crash)

Spec == Init /\ [][Next]_vars /\ Fairness
-----------------------------------------------------------------------------
(* Properties.                                                             *)

\* The variables range over the values their comments list.
TypeOK ==
  /\ process \in {"running", "unwinding", "crashed", "fatal", "exited"}
  /\ deadline \in {"nil", "future", "past"}
  /\ main \in {"configured", "receiving", "fired", "closed"}
  /\ trig \in {"off", "listen", "select", "classify", "fire", "return", "exited"}
  /\ job \in Txs \cup {NilTx}
  /\ trigger \in {"open", "closed"}
  /\ lst \in {"off", "subscribe", "subscribing", "select", "fetch", "fetching",
              "send", "closing", "unsubscribe", "exited"}
  /\ item \in Txs \cup {NilTx}
  /\ txs \in {"open", "closed"}
  /\ sub \in {"off", "live", "failed"}
  /\ buffer \in Seq(Txs)
  /\ announced \in Seq(Txs)
  /\ node \in NodeBehaviours

\* main buys only with a cause: when fire() releases it, the deadline has passed
\* or the node has announced a transaction that adds liquidity for the target
\* token, judged without the filter of isTargetTransaction (buy_trigger.go:45-57).
Due ==
  deadline = "past" \/ \E i \in DOMAIN announced : AddsTargetLiquidity(announced[i])

FiresOnlyWhenDue == main = "fired" => Due

\* The deferred close(trigger) never releases main by itself: main sees a closed
\* channel only while a panic is taking the program down (buy_trigger.go:41).
ClosedOnlyByPanic == main = "closed" => process # "running"

\* isTargetTransaction is called with a nil transaction only after the deadline:
\* the listener closes txs for no other reason (buy_trigger.go:51-52, 137-142).
NilTxOnlyAfterDeadline == trig = "classify" /\ job = NilTx => deadline = "past"

\* Transactions reach the filter in the order the node announced them: those in
\* the listener's hands and in the buffer are the latest announced, and the one
\* being classified came before them (buy_trigger.go:145-149).
InHand == IF lst \in {"fetch", "fetching", "send"} THEN <<item>> ELSE <<>>

Queue == InHand \o buffer

InOrder ==
  /\ sub = "live" => IsSuffix(Queue, announced)
  /\ sub = "live" /\ trig = "classify" /\ job # NilTx =>
       job \in ToSet(SubSeq(announced, 1, Len(announced) - Len(Queue)))

\* Once the trigger goroutine has decided, a listener blocked on txs <- tx stays
\* blocked and can no longer end the program with log.Fatalf while main buys
\* (buy_trigger.go:144, 148).
ParkedListenerIsHarmless ==
  [][(lst = "send" /\ trig \in {"fire", "return", "exited"})
       => (lst' = "send" /\ process' # "fatal")]_vars

\* How strong a reason to fire there is: the filter accepts the deadline and a target
\* transaction, and may pass over another one that adds liquidity (transaction.go:36-46).
Reason ==
  IF \/ deadline = "past"
     \/ \E i \in DOMAIN announced : isTargetTransaction(announced[i], TRUE) = "target"
  THEN "must"
  ELSE IF Due THEN "may" ELSE "no"

\* Every behaviour of the trigger is one of the abstract trigger: main is released once
\* and for a reason, or by the channel that a panic of the trigger goroutine has closed
\* while the program goes down (buy_trigger.go:40-59).
Abstract == INSTANCE OneShotTrigger WITH
  due    <- Reason,
  status <- CASE process = "running" /\ main \in {"fired", "closed"}    -> "fired"
              [] process = "running" /\ main \notin {"fired", "closed"} -> "armed"
              [] process = "unwinding"                                  -> "broken"
              [] OTHER                                                  -> "down"

ImplementsOneShot == Abstract!Spec

\* A main waiting on the trigger does not wait past the deadline, whatever the
\* listener is blocked on: it is released or the program ends, unless the trigger
\* goroutine hangs for good in the NetworkID call that has no deadline
\* (buy_trigger.go:47-50, transaction.go:36).
DeadlineEndsTheWait ==
  main = "receiving" /\ deadline = "past" ~>
    \/ main # "receiving"
    \/ ~Alive
    \/ [](node = "hangs" /\ trig = "classify")

\* When every call to the node is answered, an announced target transaction ends
\* the wait of main: it passes the buffer, the fetch, the two unbuffered channels
\* and the filter, and no goroutine waits for another (buy_trigger.go:51-56, 145-148).
AnnouncedTargetReleases ==
  /\ node = "answers"
  /\ \E i \in DOMAIN announced : isTargetTransaction(announced[i], TRUE) = "target"
  ~> main # "receiving" \/ ~Alive

\* The deadline also ends the listener: it closes its subscription, unless it is
\* parked for good on a send that nobody receives (buy_trigger.go:136-149).
ListenerWindsDown ==
  deadline = "past" ~> sub # "live" \/ ~Alive \/ [](lst = "send")

-----------------------------------------------------------------------------
(* Statements of the program that it does not keep.                        *)

\* "Set deadline to buy at %s", "Buy deadline reached" (buy_trigger.go:37, 48):
\* reaching the deadline fires the trigger, it does not end the program.
DeadlineIsNotFatal == process # "fatal"

\* "Buy deadline reached" (buy_trigger.go:48): at the deadline the goroutine
\* fires, it does not classify the nil transaction of the closed channel.
DeadlineDoesNotPanic == process # "unwinding"
=============================================================================
