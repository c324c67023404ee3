---------------------------- MODULE EventWatcher ----------------------------
(***************************************************************************)
(* The subscriptions that the Watch functions of the generated bindings    *)
(* return, one per event and all alike (contracts/**.go).  The RPC client  *)
(* forwards the logs the node emits into the buffered channel logs; a      *)
(* goroutine unpacks each and sends it on the caller's channel sink, until *)
(* the caller unsubscribes, the inner subscription fails, or a log does    *)
(* not unpack.                                                             *)
(*                                                                         *)
(* Channel logs is the window of `emitted` between the logs received and   *)
(* the logs forwarded; what is not forwarded yet waits in the RPC client.  *)
(***************************************************************************)
EXTENDS EventLogs

CONSTANTS
  Calls,      \* the Watch calls: [query, wanted], wanted by parameter name
  MaxLogs,    \* bound on the logs the node emits for a query
  LogBuffer   \* the capacity of the channel logs (128)

VARIABLES
  caller,     \* "start", "watching", "unsubscribing", "done" (Unsubscribe has
              \* returned), "refused" (Watch has returned an error)
  call,       \* the Watch call
  emitted,    \* the logs the node has emitted for it
  forwarded,  \* how many the RPC client has put into logs
  inner,      \* sub: "off", "live", "failed" (its error is ready), "closed"
  watcher,    \* the goroutine: "off", "select", "offer" (the inner select),
              \* "release" (its deferred sub.Unsubscribe), "ended"
  taken,      \* how many logs it has received
  quit,       \* the caller's Unsubscribe has closed the channel quit
  err,        \* what the goroutine returned: "none" (nil or not yet), "inner", "unpack"
  delivered   \* the events received from sink, as event.Raw

nodeVars    == <<emitted, forwarded>>
watcherVars == <<watcher, taken, err, delivered>>
vars == <<caller, call, nodeVars, inner, quit, watcherVars>>

NoCall == [query |-> Query(PairSync, <<>>), wanted |-> <<>>]

Init ==
  /\ caller = "start" /\ call = NoCall
  /\ emitted = <<>> /\ forwarded = 0 /\ inner = "off"
  /\ watcher = "off" /\ taken = 0 /\ quit = FALSE /\ err = "none"
  /\ delivered = <<>>

Item == emitted[taken]

-----------------------------------------------------------------------------
(* The caller.                                                             *)

\* contract.WatchLogs has subscribed, and event.NewSubscription starts the goroutine.
Watch ==
  /\ caller = "start"
  /\ caller' = "watching" /\ call' \in Calls
  /\ inner' = "live" /\ watcher' = "select"
  /\ UNCHANGED <<nodeVars, quit, taken, err, delivered>>

WatchFails ==
  /\ caller = "start"
  /\ caller' = "refused"
  /\ UNCHANGED <<call, nodeVars, inner, quit, watcherVars>>

\* Unsubscribe of the outer subscription closes quit, unless the goroutine is over.
Unsubscribe ==
  /\ caller = "watching"
  /\ caller' = "unsubscribing"
  /\ quit' = (watcher # "ended")
  /\ UNCHANGED <<call, nodeVars, inner, watcherVars>>

\* It waits for the goroutine to end.
UnsubscribeReturns ==
  /\ caller = "unsubscribing" /\ watcher = "ended"
  /\ caller' = "done"
  /\ UNCHANGED <<call, nodeVars, inner, quit, watcherVars>>

-----------------------------------------------------------------------------
(* The goroutine.                                                          *)

Goto(w) == watcher' = w /\ UNCHANGED <<caller, call, nodeVars, inner, quit>>

\* case log := <-logs: the log unpacks and is offered to the caller ...
TakeLog ==
  /\ watcher = "select" /\ taken < forwarded
  /\ Unpacks(call.query.event, emitted[taken + 1])
  /\ taken' = taken + 1
  /\ Goto("offer")
  /\ UNCHANGED <<err, delivered>>

UnpackFailsGoesOn ==
  /\ watcher = "select" /\ taken < forwarded
  /\ ~Unpacks(call.query.event, emitted[taken + 1])
  /\ taken' = taken + 1
  /\ Goto("select")
  /\ UNCHANGED <<err, delivered>>

\* ... or ends the subscription with the error.
UnpackFails ==
  /\ watcher = "select" /\ taken < forwarded
  /\ ~Unpacks(call.query.event, emitted[taken + 1])
  /\ taken' = taken + 1 /\ err' = "unpack"
  /\ Goto("release")
  /\ UNCHANGED delivered

\* case sink <- event, meeting a goroutine of the caller's that receives; it may go on
\* while another one is in Unsubscribe.
Deliver ==
  /\ watcher = "offer" /\ caller \in {"watching", "unsubscribing"}
  /\ delivered' = Append(delivered, Item)
  /\ Goto("select")
  /\ UNCHANGED <<taken, err>>

InnerFailsReturnsNil ==
  /\ watcher \in {"select", "offer"} /\ inner = "failed"
  /\ Goto("release")
  /\ UNCHANGED <<taken, err, delivered>>

\* case err := <-sub.Err(), in either select: the logs still in the channel are lost.
InnerFails ==
  /\ watcher \in {"select", "offer"} /\ inner = "failed"
  /\ err' = "inner"
  /\ Goto("release")
  /\ UNCHANGED <<taken, delivered>>

QuitBetweenLogs ==
  /\ watcher = "select" /\ quit
  /\ Goto("release")
  /\ UNCHANGED <<taken, err, delivered>>

\* case <-quit, in either select
Quits ==
  /\ watcher \in {"select", "offer"} /\ quit
  /\ Goto("release")
  /\ UNCHANGED <<taken, err, delivered>>

\* The deferred sub.Unsubscribe, then the subscription hands its error to the caller.
Release ==
  /\ watcher = "release"
  /\ inner' = "closed" /\ watcher' = "ended"
  /\ UNCHANGED <<caller, call, nodeVars, quit, taken, err, delivered>>

-----------------------------------------------------------------------------
(* The node and the RPC client.                                            *)

Emit ==
  /\ inner = "live" /\ Len(emitted) < MaxLogs
  /\ \E log \in Emittable(call.query.event) :
       NodeMatches(call.query, log) /\ emitted' = Append(emitted, log)
  /\ UNCHANGED <<caller, call, forwarded, inner, quit, watcherVars>>

Forward ==
  /\ inner = "live" /\ forwarded < Len(emitted) /\ forwarded - taken < LogBuffer
  /\ forwarded' = forwarded + 1
  /\ UNCHANGED <<caller, call, emitted, inner, quit, watcherVars>>

\* The connection breaks or the RPC client's buffer overflows.
InnerBreaks ==
  /\ inner = "live"
  /\ inner' = "failed"
  /\ UNCHANGED <<caller, call, nodeVars, quit, watcherVars>>

-----------------------------------------------------------------------------
WatcherStep == TakeLog \/ UnpackFails \/ InnerFails \/ Quits \/ Release

Next ==
  \/ Watch \/ WatchFails
  \/ Unsubscribe \/ UnsubscribeReturns
  \/ WatcherStep \/ Deliver
  \/ Emit \/ Forward \/ InnerBreaks

\* The scheduler runs the goroutine, its Release included (the RPC client lets go of a
\* subscription), and the caller inside Unsubscribe.  A select chooses at random among
\* the cases that are ready, so a quit that stays ready is taken, however many events a
\* caller goes on receiving.  The caller need not receive, nor the node emit: Deliver,
\* Emit and Forward have no fairness.
Fairness == WF_vars(WatcherStep) /\ WF_vars(Quits) /\ WF_vars(UnsubscribeReturns)

Spec == Init /\ [][Next]_vars /\ Fairness

-----------------------------------------------------------------------------
(* Properties.                                                             *)

\* The variables range over the values their comments list.
TypeOK ==
  /\ caller \in {"start", "watching", "unsubscribing", "done", "refused"}
  /\ call \in Calls \cup {NoCall}
  /\ emitted \in Seq(Emittable(call.query.event))
  /\ forwarded \in 0 .. Len(emitted)
  /\ inner \in {"off", "live", "failed", "closed"}
  /\ watcher \in {"off", "select", "offer", "release", "ended"}
  /\ taken \in 0 .. forwarded
  /\ quit \in BOOLEAN
  /\ err \in {"none", "inner", "unpack"}
  /\ delivered \in Seq(Emittable(call.query.event))

\* The caller gets the events in the order the node emitted them and without gaps,
\* up to the moment the subscription ends; a log that does not unpack is never
\* skipped (PancakePair.go:1055-1080).
Stream == INSTANCE LogStream WITH
  source <- emitted,
  status <- IF watcher = "ended" THEN "failed"
            ELSE IF quit THEN "stopped" ELSE "open"

ImplementsStream == Stream!Spec

\* The events that reach the sink are those the caller asked for by the names of the
\* parameters, and its query leaves none of them out (PancakePair.go:1056-1062,
\* 1501-1512).
DeliversWanted == AsWanted(call, delivered)

\* Unsubscribe returns although the goroutine may be blocked on a sink that nobody
\* receives from, or the events keep coming (PancakePair.go:1068-1073).
UnsubscribeEnds == caller = "unsubscribing" ~> caller = "done"

\* When the inner subscription fails the outer one ends with an error to show, even if
\* nobody receives the event that is on offer; only a caller that unsubscribes meanwhile
\* may see none (PancakePair.go:1070-1075).
FailureIsShown == inner = "failed" ~> (watcher = "ended" /\ err # "none") \/ quit
=============================================================================
