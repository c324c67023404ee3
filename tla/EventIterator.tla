---------------------------- MODULE EventIterator ----------------------------
(***************************************************************************)
(* The iterators that the Filter functions of the generated bindings       *)
(* return, one per event and all alike (contracts/**.go): Filter fetches   *)
(* the logs of a query, a goroutine of go-ethereum feeds them into the     *)
(* buffered channel logs, and the caller draws them out with Next until it *)
(* returns false, or gives up with Close.                                  *)
(*                                                                         *)
(* Channel logs is the window of `retrieved` between the logs received and *)
(* the logs sent.                                                          *)
(***************************************************************************)
EXTENDS EventLogs

CONSTANTS
  Calls,      \* the Filter calls: [query, wanted], wanted by parameter name
  MaxLogs,    \* bound on the logs the node has for a query
  LogBuffer   \* the capacity of the channel logs (128)

ASSUME IteratorAssumption ==
  MaxLogs \in Nat /\ LogBuffer \in Nat \ {0} /\ Calls \subseteq FilterCalls(SUBSET Address)

VARIABLES
  caller,     \* "start"; "idle"; "next", "drain" (in Next); "closing" (in Close);
              \* "refused" (Filter has returned an error)
  call,       \* the Filter call
  retrieved,  \* the logs FilterLogs fetched from the node
  producer,   \* the goroutine of it.sub: "off", "sending", "ended"
  sent,       \* how many logs it has put into it.logs
  taken,      \* how many Next has received from it.logs
  quit,       \* it.sub.Unsubscribe has closed the channel quit
  done,       \* it.done
  fail,       \* it.fail: "none" or "unpack"
  answer,     \* what the last Next returned: "none" yet, "true" or "false"
  delivered   \* the logs that Next has returned true for, as it.Event.Raw

subVars == <<call, retrieved, producer, sent, quit>>
itVars  == <<taken, done, fail, answer, delivered>>
vars == <<caller, subVars, itVars>>

NoCall == [query |-> Query(PairSync, <<>>), wanted |-> <<>>]

Init ==
  /\ caller = "start" /\ call = NoCall
  /\ retrieved = <<>> /\ producer = "off" /\ sent = 0 /\ quit = FALSE
  /\ taken = 0 /\ done = FALSE /\ fail = "none" /\ answer = "none"
  /\ delivered = <<>>

\* The logs the node answers a query with.
Answerable(query) == {log \in Emittable(query.event) : NodeMatches(query, log)}

SubErrReady == producer = "ended"

BufferEmpty == taken = sent

-----------------------------------------------------------------------------
(* FilterX and the producer.                                               *)

\* contract.FilterLogs fetches every log before it starts the producer.
Filter ==
  /\ caller = "start"
  /\ \E c \in Calls :
       /\ call' = c
       /\ \E n \in 0 .. MaxLogs : retrieved' \in [1 .. n -> Answerable(c.query)]
  /\ caller' = "idle" /\ producer' = "sending"
  /\ UNCHANGED <<sent, quit, itVars>>

FilterFails ==
  /\ caller = "start"
  /\ caller' = "refused"
  /\ UNCHANGED <<subVars, itVars>>

\* case logs <- log
Send ==
  /\ producer = "sending" /\ sent < Len(retrieved) /\ sent - taken < LogBuffer
  /\ sent' = sent + 1
  /\ UNCHANGED <<caller, call, retrieved, producer, quit, itVars>>

\* The loop is over, or case <-quit: the subscription's error channel is closed.
ProducerEnds ==
  /\ producer = "sending"
  /\ sent = Len(retrieved) \/ quit
  /\ producer' = "ended"
  /\ UNCHANGED <<caller, call, retrieved, sent, quit, itVars>>

-----------------------------------------------------------------------------
(* Next.                                                                   *)

CallNext ==
  /\ caller = "idle"
  /\ caller' = "next"
  /\ UNCHANGED <<subVars, itVars>>

ReturnNext(b) == caller' = "idle" /\ answer' = b

\* it.fail is set: Next returns false at once.
NextFailed ==
  /\ caller = "next" /\ fail # "none"
  /\ ReturnNext("false")
  /\ UNCHANGED <<subVars, taken, done, fail, delivered>>

\* it.done is set: the second select.
NextDone ==
  /\ caller = "next" /\ fail = "none" /\ done
  /\ caller' = "drain"
  /\ UNCHANGED <<subVars, itVars>>

\* case log := <-it.logs, in either select: the log unpacks, or Next fails with it.
TakeLog ==
  LET log == retrieved[taken + 1] IN
  /\ ~BufferEmpty
  /\ taken' = taken + 1
  /\ \/ /\ Unpacks(call.query.event, log)
        /\ delivered' = Append(delivered, log)
        /\ ReturnNext("true") /\ UNCHANGED fail
     \/ /\ ~Unpacks(call.query.event, log)
        /\ fail' = "unpack"
        /\ ReturnNext("false") /\ UNCHANGED delivered
  /\ UNCHANGED <<subVars, done>>

NextReceives == caller = "next" /\ fail = "none" /\ ~done /\ TakeLog

NextSubEndsFails ==
  /\ caller = "next" /\ fail = "none" /\ ~done /\ SubErrReady
  /\ done' = TRUE /\ fail' = "ended"
  /\ UNCHANGED <<caller, subVars, taken, answer, delivered>>

NextSubEndsReturns ==
  /\ caller = "next" /\ fail = "none" /\ ~done /\ SubErrReady
  /\ done' = TRUE
  /\ ReturnNext("false")
  /\ UNCHANGED <<subVars, taken, fail, delivered>>

\* case err := <-it.sub.Err(), which may win over logs still in the channel: done is
\* set, fail stays nil, and Next calls itself.
NextSubEnds ==
  /\ caller = "next" /\ fail = "none" /\ ~done /\ SubErrReady
  /\ done' = TRUE
  /\ UNCHANGED <<caller, subVars, taken, fail, answer, delivered>>

DrainReceives == caller = "drain" /\ TakeLog

\* default: nothing is left.
DrainEmpty ==
  /\ caller = "drain" /\ BufferEmpty
  /\ ReturnNext("false")
  /\ UNCHANGED <<subVars, taken, done, fail, delivered>>

-----------------------------------------------------------------------------
(* Close.                                                                  *)

CloseWithoutQuit ==
  /\ caller = "idle"
  /\ caller' = "closing"
  /\ UNCHANGED <<call, retrieved, producer, sent, quit, itVars>>

\* it.sub.Unsubscribe closes quit, unless the producer has ended by itself, ...
Close ==
  /\ caller = "idle"
  /\ caller' = "closing"
  /\ quit' = (quit \/ producer = "sending")
  /\ UNCHANGED <<call, retrieved, producer, sent, itVars>>

\* ... and waits for the producer to end.
CloseReturns ==
  /\ caller = "closing" /\ producer = "ended"
  /\ caller' = "idle"
  /\ UNCHANGED <<subVars, itVars>>

-----------------------------------------------------------------------------
ProducerStep == Send \/ ProducerEnds

IteratorStep ==
  NextFailed \/ NextDone \/ NextReceives \/ NextSubEnds \/ DrainReceives \/ DrainEmpty
    \/ CloseReturns

Next ==
  \/ Filter \/ FilterFails
  \/ CallNext \/ Close
  \/ ProducerStep
  \/ IteratorStep

\* The scheduler runs both goroutines; the caller need not call anything.
Fairness == WF_vars(ProducerStep) /\ WF_vars(IteratorStep)

Spec == Init /\ [][Next]_vars /\ Fairness

-----------------------------------------------------------------------------
(* Properties.                                                             *)

\* The variables range over the values their comments list, and the channel holds at
\* most LogBuffer logs of those retrieved.
TypeOK ==
  /\ caller \in {"start", "idle", "next", "drain", "closing", "refused"}
  /\ call \in Calls \cup {NoCall}
  /\ retrieved \in Seq(Emittable(call.query.event))
  /\ producer \in {"off", "sending", "ended"}
  /\ sent \in 0 .. Len(retrieved)
  /\ taken \in 0 .. sent /\ sent - taken <= LogBuffer
  /\ quit \in BOOLEAN /\ done \in BOOLEAN
  /\ fail \in {"none", "unpack"}
  /\ answer \in {"none", "true", "false"}
  /\ delivered \in Seq(Emittable(call.query.event))

\* A Next that returns false without an error, and without a Close, has returned every
\* log before: the end of the subscription does not overtake the logs in the channel,
\* and the iterator delivers in order and without gaps (PancakePair.go:954-993).
Stream == INSTANCE LogStream WITH
  source <- retrieved,
  status <- IF fail # "none" THEN "failed"
            ELSE IF quit THEN "stopped"
            ELSE IF answer = "false" THEN "complete" ELSE "open"

ImplementsStream == Stream!Spec

\* The events that Next hands to the caller are those it asked for by the names of the
\* parameters, and its query leaves none of them out: each rule stands at the position
\* of its topic (PancakePair.go:962-969, 1476-1487).
DeliversWanted == AsWanted(call, delivered)

\* Every call of Next returns, whichever of the channel and the end of the
\* subscription is ready first, and Close returns although the producer is blocked on
\* a full channel (PancakePair.go:976-993, 1000-1003).
CallsReturn == caller \in {"next", "drain", "closing"} ~> caller = "idle"
=============================================================================
