------------------------- MODULE EventIteratorProofs -------------------------
(* The iterators, for any lists of addresses, any number of logs and any   *)
(* capacity of the channel; then the properties of MCEvents, with those of *)
(* the subscriptions from EventWatcherProofs.                              *)
EXTENDS MCEvents, SequenceTheorems, TLAPS

-----------------------------------------------------------------------------
(* The bindings: rules by position, and lists by name.                     *)

\* The rules of the query are the caller's lists, each at the position of its
\* parameter, and no two parameters have the same name.
Named(c) ==
  LET indexed == c.query.event.indexed IN
  /\ Len(indexed) \in Nat /\ Len(c.query.rules) = Len(indexed)
  /\ DOMAIN indexed = 1 .. Len(indexed) /\ DOMAIN c.query.rules = 1 .. Len(indexed)
  /\ DOMAIN c.wanted = ToSet(indexed)
  /\ \A i \in DOMAIN indexed : c.wanted[indexed[i]] = c.query.rules[i]
  /\ \A i, j \in DOMAIN indexed : indexed[i] = indexed[j] => i = j

LEMMA TwoParameters ==
  ASSUME NEW e, NEW f, NEW g, f # g, e.indexed = <<f, g>>,
         NEW a, NEW b, NEW w, DOMAIN w = {f, g}, w[f] = a, w[g] = b
  PROVE  Named([query |-> Query(e, <<a, b>>), wanted |-> w])
<1>1. Len(<<f, g>>) = 2 /\ DOMAIN <<f, g>> = 1 .. 2 /\ ToSet(<<f, g>>) = {f, g}
  BY DEF ToSet
<1>2. Len(<<a, b>>) = 2 /\ DOMAIN <<a, b>> = 1 .. 2 /\ \A i \in 1 .. 2 : i = 1 \/ i = 2
  OBVIOUS
<1>3. <<f, g>>[1] = f /\ <<f, g>>[2] = g /\ <<a, b>>[1] = a /\ <<a, b>>[2] = b
  OBVIOUS
<1>. QED
  BY <1>1, <1>2, <1>3 DEF Named, Query

\* The Watch functions build the same rules as the Filter functions.
LEMMA SameCalls == ASSUME NEW lists PROVE WatchCalls(lists) = FilterCalls(lists)
  BY DEF WatchCalls, FilterCalls,
         WatchPairSync, WatchPairMint, WatchPairApproval, WatchPairBurn, WatchPairSwap,
         WatchPairTransfer, WatchPairCreated, WatchTokenApproval, WatchTokenTransfer,
         WatchBscTokenApproval, WatchBscTokenTransfer,
         FilterPairSync, FilterPairMint, FilterPairApproval, FilterPairBurn, FilterPairSwap,
         FilterPairTransfer, FilterPairCreated, FilterTokenApproval, FilterTokenTransfer,
         FilterBscTokenApproval, FilterBscTokenTransfer

\* Every Filter and Watch function passes its lists on where they belong.
LEMMA BindingsAreNamed ==
  ASSUME NEW lists, NEW c \in FilterCalls(lists) \cup WatchCalls(lists)
  PROVE  Named(c)
<1>. USE DEF Event
<1>1. Named([query |-> FilterPairSync, wanted |-> <<>>])
  BY DEF Named, FilterPairSync, PairSync, Query, ToSet
<1>2. \A a : Named([query |-> FilterPairMint(a), wanted |-> [sender |-> a]])
  BY DEF Named, FilterPairMint, PairMint, Query, ToSet
<1>3. \A a, b : Named([query |-> FilterPairApproval(a, b), wanted |-> [owner |-> a, spender |-> b]])
  BY TwoParameters DEF FilterPairApproval, PairApproval
<1>4. \A a, b : Named([query |-> FilterPairBurn(a, b), wanted |-> [sender |-> a, to |-> b]])
  BY TwoParameters DEF FilterPairBurn, PairBurn
<1>5. \A a, b : Named([query |-> FilterPairSwap(a, b), wanted |-> [sender |-> a, to |-> b]])
  BY TwoParameters DEF FilterPairSwap, PairSwap
<1>6. \A a, b : Named([query |-> FilterPairTransfer(a, b), wanted |-> [from |-> a, to |-> b]])
  BY TwoParameters DEF FilterPairTransfer, PairTransfer
<1>7. \A a, b : Named([query |-> FilterPairCreated(a, b), wanted |-> [token0 |-> a, token1 |-> b]])
  BY TwoParameters DEF FilterPairCreated, PairCreated
<1>8. \A a, b : Named([query |-> FilterTokenApproval(a, b), wanted |-> [owner |-> a, spender |-> b]])
  BY TwoParameters DEF FilterTokenApproval, TokenApproval
<1>9. \A a, b : Named([query |-> FilterTokenTransfer(a, b), wanted |-> [from |-> a, to |-> b]])
  BY TwoParameters DEF FilterTokenTransfer, TokenTransfer
<1>10. \A a, b : Named([query |-> FilterBscTokenApproval(a, b), wanted |-> [owner |-> a, spender |-> b]])
  BY TwoParameters DEF FilterBscTokenApproval, BscTokenApproval
<1>11. \A a, b : Named([query |-> FilterBscTokenTransfer(a, b), wanted |-> [from |-> a, to |-> b]])
  BY TwoParameters DEF FilterBscTokenTransfer, BscTokenTransfer
<1>12. c \in FilterCalls(lists)
  BY SameCalls
<1>. QED
  BY <1>1, <1>2, <1>3, <1>4, <1>5, <1>6, <1>7, <1>8, <1>9, <1>10, <1>11, <1>12 DEF FilterCalls

\* What the node answers is what the caller asked for by name.
LEMMA MatchesAreWanted ==
  ASSUME NEW c, Named(c), NEW log, Unpacks(c.query.event, log)
  PROVE  NodeMatches(c.query, log) <=> Wants(c.wanted, UnpackLog(c.query.event, log))
<1>. DEFINE event   == c.query.event
            indexed == event.indexed
            fields  == UnpackLog(event, log)
<1>1. /\ Len(indexed) \in Nat /\ Len(c.query.rules) = Len(indexed) /\ Len(log.topics) = Len(indexed)
      /\ log.name = event.name
  BY DEF Named, Unpacks
<1>2. DOMAIN indexed = 1 .. Len(indexed) /\ DOMAIN c.query.rules = DOMAIN indexed
  BY DEF Named
<1>3. ASSUME NEW i \in DOMAIN indexed PROVE fields[indexed[i]] = log.topics[i]
  <2>1. (CHOOSE j \in DOMAIN indexed : indexed[j] = indexed[i]) = i
    BY <1>3 DEF Named
  <2>2. indexed[i] \in ToSet(indexed)
    BY <1>3 DEF ToSet
  <2>. QED BY <2>1, <2>2 DEF UnpackLog, Topic
<1>4. NodeMatches(c.query, log)
        <=> \A i \in DOMAIN indexed : c.query.rules[i] = {} \/ log.topics[i] \in c.query.rules[i]
  BY <1>1, <1>2 DEF NodeMatches
<1>5. Wants(c.wanted, fields)
        <=> \A i \in DOMAIN indexed :
              c.wanted[indexed[i]] = {} \/ fields[indexed[i]] \in c.wanted[indexed[i]]
  BY DEF Wants, Named, ToSet
<1>6. \A i \in DOMAIN indexed : c.wanted[indexed[i]] = c.query.rules[i]
  BY DEF Named
<1>. QED
  BY <1>3, <1>4, <1>5, <1>6

\* Logs that answer the query and unpack are what the call asked for.
LEMMA AnswersAreAsWanted ==
  ASSUME NEW c, Named(c), NEW logs,
         \A i \in DOMAIN logs : NodeMatches(c.query, logs[i]) /\ Unpacks(c.query.event, logs[i])
  PROVE  AsWanted(c, logs)
<1>. DEFINE event == c.query.event
<1>1. \A i \in DOMAIN logs : Wants(c.wanted, UnpackLog(event, logs[i]))
  BY MatchesAreWanted
<1>2. ASSUME NEW log \in WellFormed(event) PROVE Unpacks(event, log)
  <2>1. Len(event.indexed) \in Nat
    BY DEF Named
  <2>2. log.name = event.name /\ log.topics \in [1 .. Len(event.indexed) -> Address]
    BY <1>2 DEF WellFormed
  <2>3. log.topics \in Seq(Address)
    BY <2>1, <2>2, SeqDef
  <2>. QED
    BY <2>1, <2>2, <2>3, LenProperties DEF Unpacks
<1>. QED
  BY <1>1, <1>2, MatchesAreWanted DEF AsWanted

\* Before Filter has returned there is nothing.
Fresh ==
  caller \in {"start", "refused"} =>
    /\ retrieved = <<>> /\ delivered = <<>> /\ sent = 0 /\ producer = "off" /\ ~quit
    /\ fail = "none" /\ answer = "none"

\* Every log that Next has received is delivered, in its place, until one fails.
InPlace ==
  fail = "none" =>
    /\ Len(delivered) = taken
    /\ \A i \in 1 .. taken : delivered[i] = retrieved[i]

\* A producer that ends by itself has sent everything, and only its end sets done.
Drained ==
  /\ producer = "ended" => sent = Len(retrieved) \/ quit
  /\ done => producer = "ended"
  /\ caller = "drain" => done /\ fail = "none"

\* Next returns false on the error, or when it has found the channel empty for good.
FalseMeansOver ==
  answer = "false" /\ fail = "none" => producer = "ended" /\ taken = sent

IInv == TypeOK /\ Fresh /\ InPlace /\ Drained /\ FalseMeansOver

LEMMA InitIInv == Init => IInv
<1>1. \A S : <<>> \in Seq(S) /\ Len(<<>>) = 0
  BY EmptySeq
<1>. SUFFICES ASSUME Init PROVE IInv
  OBVIOUS
<1>2. retrieved = <<>> /\ delivered = <<>> /\ sent = 0 /\ taken = 0
  BY DEF Init
<1>3. sent \in 0 .. Len(retrieved) /\ taken \in 0 .. sent /\ sent - taken <= LogBuffer
  BY <1>1, <1>2, IteratorAssumption
<1>4. TypeOK
  BY <1>1, <1>2, <1>3 DEF Init, TypeOK
<1>. QED
  BY <1>1, <1>2, <1>4 DEF Init, IInv, Fresh, InPlace, Drained, FalseMeansOver

\* Filter holds the whole answer of the node before anything is sent.
LEMMA FilterKeeps == IInv /\ (Filter \/ FilterFails) => IInv'
<1>. SUFFICES ASSUME IInv, Filter \/ FilterFails PROVE IInv'
  OBVIOUS
<1>. USE DEF IInv, TypeOK, Fresh, InPlace, Drained, FalseMeansOver, subVars, itVars
<1>1. CASE FilterFails
  BY <1>1 DEF FilterFails
<1>2. CASE Filter
  <2>1. PICK c \in Calls :
          /\ call' = c
          /\ \E n \in 0 .. MaxLogs : retrieved' \in [1 .. n -> Answerable(c.query)]
    BY <1>2 DEF Filter
  <2>2. PICK n \in 0 .. MaxLogs : retrieved' \in [1 .. n -> Answerable(c.query)]
    BY <2>1
  <2>3. Answerable(c.query) \subseteq Emittable(c.query.event)
    BY DEF Answerable
  <2>4. retrieved' \in [1 .. n -> Emittable(c.query.event)] /\ n \in Nat
    BY <2>2, <2>3, IteratorAssumption
  <2>5. retrieved' \in Seq(Emittable(c.query.event))
    BY <2>4, SeqDef
  <2>6. Len(retrieved') \in Nat /\ sent' = 0 /\ taken' = 0 /\ delivered' = <<>> /\ sent = 0
    BY <1>2, <2>5, LenProperties DEF Filter
  <2>7. delivered' \in Seq(Emittable(call'.query.event))
    BY <2>6, EmptySeq
  <2>. QED
    BY <1>2, <2>1, <2>5, <2>6, <2>7, IteratorAssumption DEF Filter
<1>. QED BY <1>1, <1>2

LEMMA ProducerKeeps == IInv /\ ProducerStep => IInv'
<1>. SUFFICES ASSUME IInv, ProducerStep PROVE IInv'
  OBVIOUS
<1>0. Len(retrieved) \in Nat
  BY DEF IInv, TypeOK
<1>. USE <1>0, IteratorAssumption
     DEF IInv, TypeOK, Fresh, InPlace, Drained, FalseMeansOver, subVars, itVars
<1>1. CASE Send
  BY <1>1 DEF Send
<1>2. CASE ProducerEnds
  BY <1>2 DEF ProducerEnds
<1>. QED BY <1>1, <1>2 DEF ProducerStep

\* Receiving a log, in either select.
LEMMA TakeKeeps ==
  ASSUME IInv, TakeLog, caller \in {"next", "drain"}, fail = "none",
         caller = "next" => ~done
  PROVE  IInv'
<1>. DEFINE log == retrieved[taken + 1]
            E == Emittable(call.query.event)
<1>1. /\ Len(retrieved) \in Nat /\ taken + 1 \in 1 .. Len(retrieved) /\ taken + 1 <= sent
      /\ taken \in Nat /\ sent \in Nat
  BY DEF IInv, TypeOK, TakeLog, BufferEmpty
<1>2. log \in E
  BY <1>1, ElementOfSeq DEF IInv, TypeOK
<1>3. taken' = taken + 1 /\ caller' = "idle" /\ UNCHANGED <<subVars, done>>
  BY DEF TakeLog, ReturnNext
<1>. USE DEF IInv, TypeOK, Fresh, InPlace, Drained, FalseMeansOver, subVars
<1>4. CASE delivered' = Append(delivered, log) /\ answer' = "true" /\ UNCHANGED fail
  <2>1. /\ delivered' \in Seq(E) /\ Len(delivered') = taken + 1
        /\ \A i \in 1 .. taken : delivered'[i] = delivered[i]
        /\ delivered'[taken + 1] = log
    BY <1>2, <1>4, AppendProperties
  <2>2. InPlace'
    BY <1>1, <1>3, <2>1
  <2>. QED
    BY <1>1, <1>3, <1>4, <2>1, <2>2, IteratorAssumption
<1>5. CASE fail' = "unpack" /\ answer' = "false" /\ UNCHANGED delivered
  BY <1>1, <1>3, <1>5, IteratorAssumption
<1>. QED
  BY <1>4, <1>5 DEF TakeLog, ReturnNext

LEMMA IteratorKeeps == IInv /\ IteratorStep => IInv'
<1>. SUFFICES ASSUME IInv, IteratorStep PROVE IInv'
  OBVIOUS
<1>1. CASE NextReceives \/ DrainReceives
  BY <1>1, TakeKeeps DEF NextReceives, DrainReceives, IInv, Drained
<1>. USE DEF IInv, TypeOK, Fresh, InPlace, Drained, FalseMeansOver, subVars, itVars
<1>2. CASE NextFailed
  BY <1>2 DEF NextFailed, ReturnNext
<1>3. CASE NextDone
  BY <1>3 DEF NextDone
<1>4. CASE NextSubEnds
  BY <1>4 DEF NextSubEnds, SubErrReady
<1>5. CASE DrainEmpty
  BY <1>5 DEF DrainEmpty, ReturnNext, BufferEmpty
<1>6. CASE CloseReturns
  BY <1>6 DEF CloseReturns
<1>. QED BY <1>1, <1>2, <1>3, <1>4, <1>5, <1>6 DEF IteratorStep

LEMMA CallerKeeps == IInv /\ (CallNext \/ Close) => IInv'
<1>. SUFFICES ASSUME IInv, CallNext \/ Close PROVE IInv'
  OBVIOUS
<1>. USE DEF IInv, TypeOK, Fresh, InPlace, Drained, FalseMeansOver, subVars, itVars
<1>1. CASE CallNext
  BY <1>1 DEF CallNext
<1>2. CASE Close
  BY <1>2 DEF Close
<1>. QED BY <1>1, <1>2

LEMMA IInvStep == IInv /\ [Next]_vars => IInv'
<1>1. IInv /\ UNCHANGED vars => IInv'
  BY DEF vars, IInv, TypeOK, Fresh, InPlace, Drained, FalseMeansOver, subVars, itVars
<1>. QED
  BY <1>1, FilterKeeps, ProducerKeeps, IteratorKeeps, CallerKeeps DEF Next

\* The inductive invariant holds of every behaviour.
THEOREM Inductive == Spec => []IInv
  BY InitIInv, IInvStep, PTL DEF Spec

\* The channel never holds more than its capacity, nor the iterator logs that are not
\* of its query.
THEOREM TypeCorrect == Spec => []TypeOK
<1>1. IInv => TypeOK
  BY DEF IInv
<1>. QED BY <1>1, Inductive, PTL

-----------------------------------------------------------------------------
(* What reaches the caller.                                                *)

\* The logs fetched answer the query, and those delivered unpack besides.
Wanted ==
  /\ \A i \in 1 .. Len(retrieved) : NodeMatches(call.query, retrieved[i])
  /\ \A i \in 1 .. Len(delivered) :
       NodeMatches(call.query, delivered[i]) /\ Unpacks(call.query.event, delivered[i])

LEMMA WantedStep == IInv /\ Wanted /\ [Next]_vars => Wanted'
<1>. SUFFICES ASSUME IInv, Wanted, [Next]_vars PROVE Wanted'
  OBVIOUS
<1>. USE DEF subVars, itVars
<1>1. CASE Filter
  <2>1. PICK c \in Calls :
          /\ call' = c
          /\ \E n \in 0 .. MaxLogs : retrieved' \in [1 .. n -> Answerable(c.query)]
    BY <1>1 DEF Filter
  <2>2. PICK n \in 0 .. MaxLogs : retrieved' \in [1 .. n -> Answerable(c.query)]
    BY <2>1
  <2>3. n \in Nat /\ retrieved' \in Seq(Answerable(c.query))
    BY <2>2, SeqDef, IteratorAssumption
  <2>4. \A i \in 1 .. Len(retrieved') : retrieved'[i] \in Answerable(c.query)
    BY <2>3, ElementOfSeq
  <2>5. delivered' = <<>> /\ Len(<<>>) = 0
    BY <1>1 DEF Filter, IInv, Fresh
  <2>. QED
    BY <2>1, <2>4, <2>5 DEF Wanted, Answerable
<1>2. CASE TakeLog
  <2>. DEFINE log == retrieved[taken + 1]
  <2>1. /\ taken + 1 \in 1 .. Len(retrieved) /\ UNCHANGED <<call, retrieved>>
        /\ delivered \in Seq(Emittable(call.query.event))
    BY <1>2 DEF IInv, TypeOK, TakeLog, BufferEmpty
  <2>2. log \in Emittable(call.query.event) /\ NodeMatches(call.query, log)
    BY <2>1, ElementOfSeq DEF Wanted, IInv, TypeOK
  <2>3. CASE delivered' = Append(delivered, log) /\ Unpacks(call.query.event, log)
    <3>1. /\ Len(delivered') = Len(delivered) + 1 /\ Len(delivered) \in Nat
          /\ \A i \in 1 .. Len(delivered) : delivered'[i] = delivered[i]
          /\ delivered'[Len(delivered) + 1] = log
      BY <2>1, <2>2, <2>3, AppendProperties
    <3>. QED
      BY <2>1, <2>2, <2>3, <3>1 DEF Wanted
  <2>4. CASE UNCHANGED delivered
    BY <2>1, <2>4 DEF Wanted
  <2>. QED
    BY <1>2, <2>3, <2>4 DEF TakeLog
<1>3. CASE UNCHANGED <<call, retrieved, delivered>>
  BY <1>3 DEF Wanted
<1>. QED
  BY <1>1, <1>2, <1>3 DEF Next, FilterFails, CallNext, Close, ProducerStep, Send, ProducerEnds,
       IteratorStep, NextFailed, NextDone, NextReceives, NextSubEnds, DrainReceives, DrainEmpty,
       CloseReturns, vars

\* The iterator holds nothing but answers to its query.
THEOREM OnlyAnswers == Spec => []Wanted
<1>1. Init => Wanted
  BY DEF Init, Wanted
<1>. QED BY <1>1, WantedStep, Inductive, PTL DEF Spec

\* The call in hand is one of the bindings' (that of Init is FilterSync's).
LEMMA CallIsNamed ==
  ASSUME NEW c \in Calls \cup WatchesMade \cup {NoCall}
  PROVE  Named(c)
<1>1. NoCall \in FilterCalls(SUBSET Address)
  BY DEF NoCall, FilterCalls, FilterPairSync
<1>. QED
  BY <1>1, BindingsAreNamed, IteratorAssumption, WatchAssumption

LEMMA IteratorDelivers == IInv /\ Wanted => DeliversWanted
<1>. SUFFICES ASSUME IInv, Wanted PROVE AsWanted(call, delivered)
  BY DEF DeliversWanted
<1>1. Named(call)
  BY CallIsNamed DEF IInv, TypeOK
<1>2. DOMAIN delivered = 1 .. Len(delivered)
  BY DEF IInv, TypeOK
<1>. QED
  BY <1>1, <1>2, AnswersAreAsWanted DEF Wanted

-----------------------------------------------------------------------------
(* Refinement of the abstract stream.                                      *)

Status == IF fail # "none" THEN "failed"
          ELSE IF quit THEN "stopped"
          ELSE IF answer = "false" THEN "complete" ELSE "open"

LEMMA EmptyIsPrefix == \A s : \A S : s \in Seq(S) => IsPrefix(<<>>, s)
<1>. SUFFICES ASSUME NEW s, NEW S, s \in Seq(S) PROVE IsPrefix(<<>>, s)
  OBVIOUS
<1>1. Len(<<>>) = 0 /\ Len(s) \in Nat
  OBVIOUS
<1>2. SubSeq(<<>>, 1, 0) = <<>> /\ SubSeq(s, 1, 0) = <<>>
  BY SubSeqEmpty
<1>. QED BY <1>1, <1>2 DEF IsPrefix

LEMMA TakeStreams ==
  ASSUME IInv, TakeLog, fail = "none"
  PROVE  Stream!Deliver \/ Stream!Fail
<1>1. /\ taken + 1 <= sent /\ sent <= Len(retrieved) /\ Len(delivered) = taken
      /\ taken \in Nat /\ sent \in Nat /\ Len(retrieved) \in Nat
      /\ UNCHANGED <<retrieved, quit>>
  BY DEF IInv, TypeOK, InPlace, TakeLog, BufferEmpty, subVars
<1>2. Status \in {"open", "stopped"}
  BY <1>1 DEF IInv, FalseMeansOver, Status
<1>3. CASE delivered' = Append(delivered, retrieved[taken + 1]) /\ answer' = "true" /\ UNCHANGED fail
  <2>1. Status' = Status
    BY <1>1, <1>2, <1>3 DEF Status
  <2>. QED
    BY <1>1, <1>2, <1>3, <2>1 DEF Stream!Deliver, Status
<1>4. CASE fail' = "unpack" /\ UNCHANGED delivered
  BY <1>1, <1>2, <1>4 DEF Stream!Fail, Status
<1>. QED
  BY <1>3, <1>4 DEF TakeLog, ReturnNext

LEMMA StreamStep ==
  ASSUME IInv, IInv', [Next]_vars
  PROVE  [Stream!Next]_(Stream!vars)
<1>. USE DEF subVars, itVars
<1>1. CASE Filter
  <2>1. retrieved = <<>> /\ Status = "open" /\ Status' = "open" /\ UNCHANGED delivered
    BY <1>1 DEF Filter, IInv, Fresh, Status
  <2>2. IsPrefix(retrieved, retrieved')
    BY <2>1, EmptyIsPrefix DEF IInv, TypeOK
  <2>. QED
    BY <2>1, <2>2 DEF Stream!Next, Stream!Grow, Status, IsPrefix, Stream!IsPrefix
<1>2. CASE NextReceives \/ DrainReceives
  BY <1>2, TakeStreams DEF NextReceives, DrainReceives, IInv, Drained, Stream!Next
<1>3. CASE DrainEmpty
  <2>1. UNCHANGED <<retrieved, delivered, fail, quit>> /\ answer' = "false" /\ fail = "none"
    BY <1>3 DEF DrainEmpty, ReturnNext, IInv, Drained
  <2>2. CASE quit \/ answer = "false"
    BY <2>1, <2>2 DEF Stream!vars
  <2>3. CASE ~quit /\ answer # "false"
    <3>1. Len(delivered) = Len(retrieved) /\ \A i \in 1 .. Len(retrieved) : delivered[i] = retrieved[i]
      BY <1>3, <2>3 DEF DrainEmpty, BufferEmpty, IInv, InPlace, Drained
    <3>2. delivered = retrieved
      BY <3>1, SeqEqual DEF IInv, TypeOK
    <3>. QED
      BY <2>1, <2>3, <3>2 DEF Stream!Next, Stream!Complete
  <2>. QED BY <2>2, <2>3
<1>4. CASE Close
  <2>1. UNCHANGED <<retrieved, delivered, fail, answer>> /\ quit' = (quit \/ producer = "sending")
    BY <1>4 DEF Close
  <2>2. Status' = Status \/ (Status = "open" /\ Status' = "stopped")
    BY <2>1 DEF Status, IInv, FalseMeansOver, TypeOK
  <2>. QED
    BY <2>1, <2>2 DEF Stream!Next, Stream!Stop, Stream!vars, Status
<1>5. CASE NextFailed
  BY <1>5 DEF NextFailed, ReturnNext, Stream!vars
<1>6. CASE FilterFails \/ CallNext \/ ProducerStep \/ NextDone \/ NextSubEnds \/ CloseReturns
            \/ UNCHANGED vars
  BY <1>6 DEF FilterFails, CallNext, ProducerStep, Send, ProducerEnds, NextDone, NextSubEnds,
              CloseReturns, vars, Stream!vars
<1>. QED
  BY <1>1, <1>2, <1>3, <1>4, <1>5, <1>6 DEF Next, IteratorStep

\* The iterator is a stream of the logs the node answered: a Next that returns false
\* without an error or a Close has returned all of them, in order.
THEOREM IteratorStreams == Spec => ImplementsStream
<1>1. Init => Stream!Init
  BY DEF Init, Stream!Init
<1>. QED
  BY <1>1, StreamStep, Inductive, PTL DEF Spec, ImplementsStream, Stream!Spec

-----------------------------------------------------------------------------
(* The calls of the caller: never stuck, and done after a bounded number   *)
(* of steps.                                                               *)

Calling == caller \in {"next", "drain", "closing"}

\* The goroutine of the subscription exists from Filter on, and a Close that waits for it
\* has told it to stop.
Started ==
  /\ caller = "idle" \/ Calling => producer # "off"
  /\ caller = "closing" /\ producer = "sending" => quit

LEMMA StartedStep == TypeOK /\ Started /\ [Next]_vars => Started'
<1>. SUFFICES ASSUME TypeOK, Started, [Next]_vars PROVE Started'
  OBVIOUS
<1>. USE DEF TypeOK, Started, Calling, subVars, itVars
<1>1. CASE Filter \/ FilterFails \/ CallNext \/ Close \/ UNCHANGED vars
  BY <1>1 DEF Filter, FilterFails, CallNext, Close, vars
<1>2. CASE ProducerStep
  BY <1>2 DEF ProducerStep, Send, ProducerEnds
<1>3. CASE IteratorStep
  BY <1>3 DEF IteratorStep, NextFailed, NextDone, NextReceives, NextSubEnds, DrainReceives,
              DrainEmpty, TakeLog, ReturnNext, CloseReturns
<1>. QED
  BY <1>1, <1>2, <1>3 DEF Next

\* The guards of Send and ProducerEnds, and those of the steps of Next and Close.
ProducerCanStep ==
  /\ producer = "sending"
  /\ (sent < Len(retrieved) /\ sent - taken < LogBuffer) \/ sent = Len(retrieved) \/ quit

CallCanStep ==
  \/ caller = "next" /\ (fail # "none" \/ done \/ ~BufferEmpty \/ SubErrReady)
  \/ caller = "drain"
  \/ caller = "closing" /\ producer = "ended"

\* The steps that a call may still take: a log to send, the producer's end, its notice,
\* and the second select.
StepsLeft ==
  (Len(retrieved) - sent) + (IF producer = "sending" THEN 1 ELSE 0)
    + (IF done THEN 0 ELSE 1) + (IF caller = "next" THEN 1 ELSE 0)

LEMMA CallIsNotStuck ==
  ASSUME IInv, Started, Calling
  PROVE  ProducerCanStep \/ CallCanStep
<1>1. /\ sent \in Nat /\ taken \in Nat /\ Len(retrieved) \in Nat /\ sent <= Len(retrieved)
      /\ LogBuffer \in Nat \ {0} /\ producer \in {"off", "sending", "ended"}
  BY IteratorAssumption DEF IInv, TypeOK
<1>2. producer \in {"sending", "ended"}
  BY <1>1 DEF Started
<1>3. CASE caller = "next" /\ producer = "sending"
  <2>1. CASE taken = sent
    BY <1>1, <1>3, <2>1 DEF ProducerCanStep
  <2>2. CASE taken # sent
    BY <1>3, <2>2 DEF CallCanStep, BufferEmpty
  <2>. QED BY <2>1, <2>2
<1>4. CASE caller = "next" /\ producer = "ended"
  BY <1>4 DEF CallCanStep, SubErrReady
<1>5. CASE caller = "drain"
  BY <1>5 DEF CallCanStep
<1>6. CASE caller = "closing"
  BY <1>2, <1>6 DEF CallCanStep, ProducerCanStep, Started
<1>. QED
  BY <1>2, <1>3, <1>4, <1>5, <1>6 DEF Calling

LEMMA CallComesCloser ==
  ASSUME IInv, Calling, Next
  PROVE  caller' = "idle" \/ StepsLeft' < StepsLeft
<1>. DEFINE p == IF producer = "sending" THEN 1 ELSE 0
            d == IF done THEN 0 ELSE 1
            c == IF caller = "next" THEN 1 ELSE 0
<1>1. sent \in Nat /\ Len(retrieved) \in Nat /\ p \in 0 .. 1 /\ d \in 0 .. 1 /\ c \in 0 .. 1
  BY DEF IInv, TypeOK
<1>2. /\ StepsLeft  = (Len(retrieved) - sent) + p + d + c
      /\ StepsLeft' = (Len(retrieved)' - sent') + p' + d' + c'
  BY DEF StepsLeft
<1>. USE DEF subVars, itVars
<1>3. Send => UNCHANGED <<Len(retrieved), p, d, c>> /\ sent' = sent + 1
  BY DEF Send
<1>4. ProducerEnds => UNCHANGED <<Len(retrieved), sent, d, c>> /\ p = 1 /\ p' = 0
  BY DEF ProducerEnds
<1>5. /\ NextDone => UNCHANGED <<Len(retrieved), sent, p, d>> /\ c = 1 /\ c' = 0
      /\ NextSubEnds => UNCHANGED <<Len(retrieved), sent, p, c>> /\ d = 1 /\ d' = 0
  BY DEF NextDone, NextSubEnds
<1>6. CASE NextFailed \/ NextReceives \/ DrainReceives \/ DrainEmpty \/ CloseReturns
  BY <1>6 DEF NextFailed, NextReceives, DrainReceives, DrainEmpty, TakeLog, ReturnNext,
              CloseReturns
<1>7. ~Filter /\ ~FilterFails /\ ~CallNext /\ ~Close
  BY DEF Calling, Filter, FilterFails, CallNext, Close
<1>8. CASE Send \/ ProducerEnds \/ NextDone \/ NextSubEnds
  <2>. HIDE DEF p, d, c
  <2>. QED BY <1>1, <1>2, <1>3, <1>4, <1>5, <1>8
<1>. QED
  BY <1>6, <1>7, <1>8 DEF Next, ProducerStep, IteratorStep

\* A call of Next or Close never waits for a producer that waits for it: one of the two
\* can always go on, though the channel be full or the subscription over; and whatever
\* happens meanwhile is one of the StepsLeft before the call returns.  What fairness adds
\* to this is CallsReturn.
THEOREM NobodyWaitsForTheOther ==
  Spec => /\ [](Calling => ProducerCanStep \/ CallCanStep)
          /\ [](StepsLeft \in Nat)
          /\ [][Calling => caller' = "idle" \/ StepsLeft' < StepsLeft]_vars
<1>1. Init => Started
  BY DEF Init, Started, Calling
<1>2. Spec => []Started
  <2>1. IInv => TypeOK
    BY DEF IInv
  <2>. QED BY <1>1, <2>1, StartedStep, Inductive, PTL DEF Spec
<1>3. IInv /\ Started => (Calling => ProducerCanStep \/ CallCanStep)
  BY CallIsNotStuck
<1>4. IInv /\ [Next]_vars => [Calling => caller' = "idle" \/ StepsLeft' < StepsLeft]_vars
  BY CallComesCloser
<1>5. IInv => StepsLeft \in Nat
  <2>1. ASSUME IInv PROVE sent \in Nat /\ Len(retrieved) \in Nat /\ sent <= Len(retrieved)
    BY <2>1 DEF IInv, TypeOK
  <2>. QED BY <2>1 DEF StepsLeft
<1>. QED
  BY <1>2, <1>3, <1>4, <1>5, Inductive, PTL DEF Spec

-----------------------------------------------------------------------------
(* The bindings together: an iterator or a subscription, and their parsers. *)

\* The subscription's theorems, for the variables of MCEvents.
WProofs == INSTANCE EventWatcherProofs WITH
  Calls <- WatchesMade,
  caller <- wcaller, call <- wcall, emitted <- wemitted, forwarded <- wforwarded,
  inner <- winner, watcher <- wwatcher, taken <- wtaken, quit <- wquit, err <- werr,
  delivered <- wdelivered

\* WProofs has the definitions of W.
LEMMA SameInit == W!Init => WProofs!Init
  BY DEF W!Init, W!NoCall, W!Query, W!PairSync, W!Event,
         WProofs!Init, WProofs!NoCall, WProofs!Query, WProofs!PairSync, WProofs!Event

LEMMA SameStep == [W!Next]_(W!vars) => [WProofs!Next]_(WProofs!vars)
<1>. USE DEF W!vars, W!nodeVars, W!watcherVars, W!Goto,
             WProofs!vars, WProofs!nodeVars, WProofs!watcherVars, WProofs!Goto
<1>1. /\ W!Watch => WProofs!Watch
      /\ W!WatchFails => WProofs!WatchFails
      /\ W!Unsubscribe => WProofs!Unsubscribe
      /\ W!UnsubscribeReturns => WProofs!UnsubscribeReturns
  BY DEF W!Watch, W!WatchFails, W!Unsubscribe, W!UnsubscribeReturns,
         WProofs!Watch, WProofs!WatchFails, WProofs!Unsubscribe, WProofs!UnsubscribeReturns
<1>2. /\ W!TakeLog => WProofs!TakeLog
      /\ W!UnpackFails => WProofs!UnpackFails
      /\ W!InnerFails => WProofs!InnerFails
      /\ W!Quits => WProofs!Quits
      /\ W!Release => WProofs!Release
  BY DEF W!TakeLog, W!UnpackFails, W!InnerFails, W!Quits, W!Release, W!Unpacks,
         WProofs!TakeLog, WProofs!UnpackFails, WProofs!InnerFails, WProofs!Quits,
         WProofs!Release, WProofs!Unpacks
<1>3. /\ W!Deliver => WProofs!Deliver
      /\ W!Emit => WProofs!Emit
      /\ W!Forward => WProofs!Forward
      /\ W!InnerBreaks => WProofs!InnerBreaks
  BY DEF W!Deliver, W!Item, W!Emit, W!Emittable, W!WellFormed, W!OneTopicMore, W!NodeMatches,
         W!Forward, W!InnerBreaks,
         WProofs!Deliver, WProofs!Item, WProofs!Emit, WProofs!Emittable, WProofs!WellFormed,
         WProofs!OneTopicMore, WProofs!NodeMatches, WProofs!Forward, WProofs!InnerBreaks
<1>. QED
  BY <1>1, <1>2, <1>3 DEF W!Next, W!WatcherStep, WProofs!Next, WProofs!WatcherStep

\* A behaviour of MCEvents is one of each component, the other one standing still.
LEMMA EitherRuns ==
  MCSpec => /\ Spec
            /\ WProofs!Init /\ [][WProofs!Next]_(WProofs!vars)
<1>1. MCInit => Init /\ WProofs!Init
  BY SameInit DEF MCInit
<1>2. [MCNext]_allVars => [Next]_vars /\ [W!Next]_(W!vars)
  BY DEF MCNext, allVars, vars, wvars, W!vars, W!nodeVars, W!watcherVars
<1>. QED
  BY <1>1, <1>2, SameStep, PTL DEF MCSpec, Spec

LEMMA SubscriptionInv == MCSpec => []WProofs!IInv
  BY EitherRuns, WProofs!InitIInv, WProofs!IInvStep, PTL

LEMMA SubscriptionAnswers == MCSpec => []WProofs!Wanted
  BY EitherRuns, SubscriptionInv, WProofs!InitWanted, WProofs!WantedStep, PTL

LEMMA SubscriptionDelivers == WProofs!IInv /\ WProofs!Wanted => WatcherDeliversWanted
<1>. SUFFICES ASSUME WProofs!IInv, WProofs!Wanted PROVE AsWanted(wcall, wdelivered)
  <2>1. \A event, log : W!UnpackLog(event, log) = UnpackLog(event, log)
    BY Zenon DEF W!UnpackLog, W!Unpacks, W!Topic, W!ToSet, UnpackLog, Unpacks, Topic, ToSet
  <2>2. /\ \A query, log : W!NodeMatches(query, log) = NodeMatches(query, log)
        /\ \A wanted, fields : W!Wants(wanted, fields) = Wants(wanted, fields)
        /\ \A event : W!WellFormed(event) = WellFormed(event)
    BY DEF W!NodeMatches, W!Wants, W!WellFormed, NodeMatches, Wants, WellFormed
  <2>. QED
    BY <2>1, <2>2 DEF WatcherDeliversWanted, W!DeliversWanted, W!AsWanted, AsWanted
<1>1. NoCall = WProofs!NoCall
  BY DEF NoCall, Query, PairSync, Event,
         WProofs!NoCall, WProofs!Query, WProofs!PairSync, WProofs!Event
<1>2. Named(wcall)
  BY <1>1, CallIsNamed DEF WProofs!IInv, WProofs!TypeOK
<1>3. DOMAIN wdelivered = 1 .. Len(wdelivered)
  BY DEF WProofs!IInv, WProofs!TypeOK
<1>4. \A i \in DOMAIN wdelivered :
        NodeMatches(wcall.query, wdelivered[i]) /\ Unpacks(wcall.query.event, wdelivered[i])
  BY <1>3 DEF WProofs!Wanted, WProofs!NodeMatches, WProofs!Unpacks, NodeMatches, Unpacks
<1>. QED
  BY <1>2, <1>4, AnswersAreAsWanted

\* Whatever Filter or Watch call of the bindings is made, with any lists of addresses: the
\* events that Next returns, and those that reach the sink of a subscription, are the
\* events it asked for by the names of their parameters, and its query leaves none out.
THEOREM CallersGetWhatTheyWant == MCSpec => [](DeliversWanted /\ WatcherDeliversWanted)
  BY IteratorDelivers, SubscriptionDelivers, EitherRuns, Inductive, OnlyAnswers,
     SubscriptionInv, SubscriptionAnswers, PTL

\* A subscription of any binding delivers in order and without a gap until it ends.
THEOREM SubscriptionsStream == MCSpec => WatcherImplementsStream
<1>1. WProofs!Init => W!Stream!Init
  BY DEF WProofs!Init, W!Stream!Init
<1>2. WProofs!IInv /\ [WProofs!Next]_(WProofs!vars) => [W!Stream!Next]_(W!Stream!vars)
  <2>1. [WProofs!Stream!Next]_(WProofs!Stream!vars) => [W!Stream!Next]_(W!Stream!vars)
    BY DEF W!Stream!Next, W!Stream!vars, W!Stream!Grow, W!Stream!Deliver, W!Stream!Complete,
           W!Stream!Stop, W!Stream!Fail, W!Stream!IsPrefix,
           WProofs!Stream!Next, WProofs!Stream!vars, WProofs!Stream!Grow, WProofs!Stream!Deliver,
           WProofs!Stream!Complete, WProofs!Stream!Stop, WProofs!Stream!Fail,
           WProofs!Stream!IsPrefix
  <2>. QED
    BY <2>1, WProofs!StreamStep
<1>. QED
  BY <1>1, <1>2, SubscriptionInv, EitherRuns, PTL
     DEF WatcherImplementsStream, W!ImplementsStream, W!Stream!Spec
=============================================================================
