------------------------- MODULE EventWatcherProofs -------------------------
(* The subscriptions, for any event, any number of logs and any capacity   *)
(* of the channel.                                                         *)
EXTENDS EventWatcher, SequenceTheorems, TLAPS

\* Before Watch has returned there is nothing.
Fresh ==
  caller \in {"start", "refused"} =>
    /\ emitted = <<>> /\ delivered = <<>> /\ forwarded = 0 /\ taken = 0
    /\ inner = "off" /\ watcher = "off" /\ ~quit

\* What the goroutine holds is the next event after those delivered.
InPlace ==
  /\ watcher \in {"off", "select"} => Len(delivered) = taken
  /\ watcher = "offer" => taken = Len(delivered) + 1
  /\ \A i \in 1 .. Len(delivered) : delivered[i] = emitted[i]

\* The goroutine and the inner subscription end together, before Unsubscribe returns.
Over ==
  /\ watcher = "ended" => inner = "closed"
  /\ inner \in {"off", "closed"} => watcher \in {"off", "ended"}
  /\ caller = "done" => watcher = "ended"
  /\ Len(delivered) <= taken

IInv == TypeOK /\ Fresh /\ InPlace /\ Over

LEMMA InitIInv == Init => IInv
<1>. SUFFICES ASSUME Init PROVE IInv
  OBVIOUS
<1>1. \A S : <<>> \in Seq(S) /\ Len(<<>>) = 0
  BY EmptySeq
<1>2. emitted = <<>> /\ delivered = <<>> /\ forwarded = 0 /\ taken = 0
  BY DEF Init
<1>3. forwarded \in 0 .. Len(emitted) /\ taken \in 0 .. forwarded
  BY <1>1, <1>2
<1>4. TypeOK
  BY <1>1, <1>2, <1>3 DEF Init, TypeOK
<1>. QED
  BY <1>1, <1>2, <1>4 DEF Init, IInv, Fresh, InPlace, Over

-----------------------------------------------------------------------------
(* The caller.                                                             *)

LEMMA CallerKeeps == IInv /\ (Watch \/ WatchFails \/ Unsubscribe \/ UnsubscribeReturns) => IInv'
<1>. SUFFICES ASSUME IInv, Watch \/ WatchFails \/ Unsubscribe \/ UnsubscribeReturns PROVE IInv'
  OBVIOUS
<1>. USE DEF IInv, TypeOK, Fresh, InPlace, Over, nodeVars, watcherVars
<1>1. CASE Watch
  <2>1. emitted' = <<>> /\ delivered' = <<>> /\ \A S : <<>> \in Seq(S)
    BY <1>1, EmptySeq DEF Watch
  <2>. QED BY <1>1, <2>1 DEF Watch
<1>2. CASE WatchFails
  BY <1>2 DEF WatchFails
<1>3. CASE Unsubscribe
  BY <1>3 DEF Unsubscribe
<1>4. CASE UnsubscribeReturns
  BY <1>4 DEF UnsubscribeReturns
<1>. QED BY <1>1, <1>2, <1>3, <1>4

-----------------------------------------------------------------------------
(* The goroutine.                                                          *)

LEMMA WatcherKeeps == IInv /\ WatcherStep => IInv'
<1>. SUFFICES ASSUME IInv, WatcherStep PROVE IInv'
  OBVIOUS
<1>0. taken \in Nat /\ forwarded \in Nat /\ Len(delivered) \in Nat
  BY DEF IInv, TypeOK
<1>. USE <1>0 DEF IInv, TypeOK, Fresh, InPlace, Over, nodeVars, Goto
<1>1. CASE TakeLog
  BY <1>1 DEF TakeLog
<1>2. CASE UnpackFails
  BY <1>2 DEF UnpackFails
<1>3. CASE InnerFails
  BY <1>3 DEF InnerFails
<1>4. CASE Quits
  BY <1>4 DEF Quits
<1>5. CASE Release
  BY <1>5 DEF Release
<1>. QED BY <1>1, <1>2, <1>3, <1>4, <1>5 DEF WatcherStep

LEMMA DeliverKeeps == IInv /\ Deliver => IInv'
<1>. SUFFICES ASSUME IInv, Deliver PROVE IInv'
  OBVIOUS
<1>. DEFINE E == Emittable(call.query.event)
<1>1. /\ taken = Len(delivered) + 1 /\ taken \in 1 .. Len(emitted) /\ Len(emitted) \in Nat
      /\ Len(delivered) \in Nat
  BY DEF Deliver, IInv, TypeOK, InPlace
<1>2. Item \in E
  BY <1>1, ElementOfSeq DEF IInv, TypeOK, Item
<1>3. /\ delivered' \in Seq(E) /\ Len(delivered') = Len(delivered) + 1
      /\ \A i \in 1 .. Len(delivered) : delivered'[i] = delivered[i]
      /\ delivered'[Len(delivered) + 1] = Item
  BY <1>2, AppendProperties DEF Deliver, IInv, TypeOK
<1>4. \A i \in 1 .. Len(delivered') : delivered'[i] = emitted[i]
  BY <1>1, <1>3 DEF IInv, InPlace, Item
<1>. QED
  BY <1>1, <1>3, <1>4 DEF Deliver, Goto, nodeVars, IInv, TypeOK, Fresh, InPlace, Over

-----------------------------------------------------------------------------
(* The node and the RPC client.                                            *)

LEMMA NodeKeeps == IInv /\ (Emit \/ Forward \/ InnerBreaks) => IInv'
<1>. SUFFICES ASSUME IInv, Emit \/ Forward \/ InnerBreaks PROVE IInv'
  OBVIOUS
<1>0. taken \in Nat /\ forwarded \in Nat /\ Len(delivered) \in Nat /\ Len(emitted) \in Nat
  BY DEF IInv, TypeOK
<1>1. CASE Emit
  <2>. DEFINE E == Emittable(call.query.event)
  <2>1. PICK log \in E : emitted' = Append(emitted, log)
    BY <1>1 DEF Emit
  <2>2. /\ emitted' \in Seq(E) /\ Len(emitted') = Len(emitted) + 1
        /\ \A i \in 1 .. Len(emitted) : emitted'[i] = emitted[i]
    BY <2>1, AppendProperties DEF IInv, TypeOK
  <2>3. \A i \in 1 .. Len(delivered) : delivered[i] = emitted'[i]
    <3>1. Len(delivered) <= Len(emitted)
      BY <1>0 DEF IInv, TypeOK, Over
    <3>. QED BY <1>0, <2>2, <3>1 DEF IInv, InPlace
  <2>4. caller \notin {"start", "refused"}
    BY <1>1 DEF Emit, IInv, Fresh
  <2>. QED
    BY <1>0, <1>1, <2>2, <2>3, <2>4 DEF Emit, watcherVars, IInv, TypeOK, Fresh, InPlace, Over
<1>2. CASE Forward
  BY <1>0, <1>2 DEF Forward, watcherVars, IInv, TypeOK, Fresh, InPlace, Over
<1>3. CASE InnerBreaks
  BY <1>3 DEF InnerBreaks, nodeVars, watcherVars, IInv, TypeOK, Fresh, InPlace, Over
<1>. QED BY <1>1, <1>2, <1>3

LEMMA IInvStep == IInv /\ [Next]_vars => IInv'
<1>1. IInv /\ UNCHANGED vars => IInv'
  BY DEF vars, nodeVars, watcherVars, IInv, TypeOK, Fresh, InPlace, Over
<1>. QED
  BY <1>1, CallerKeeps, WatcherKeeps, DeliverKeeps, NodeKeeps DEF Next

\* The inductive invariant holds of every behaviour.
THEOREM Inductive == Spec => []IInv
  BY InitIInv, IInvStep, PTL DEF Spec

\* The goroutine receives only what the RPC client has forwarded, and that only what
\* the node has emitted.
THEOREM TypeCorrect == Spec => []TypeOK
<1>1. IInv => TypeOK
  BY DEF IInv
<1>. QED BY <1>1, Inductive, PTL

-----------------------------------------------------------------------------
(* What reaches the sink.                                                  *)

\* The logs emitted answer the query, and those on offer or delivered unpack besides.
Wanted ==
  /\ \A i \in 1 .. Len(emitted) : NodeMatches(call.query, emitted[i])
  /\ watcher = "offer" => Unpacks(call.query.event, Item)
  /\ \A i \in 1 .. Len(delivered) :
       NodeMatches(call.query, delivered[i]) /\ Unpacks(call.query.event, delivered[i])

LEMMA WantedStep == IInv /\ Wanted /\ [Next]_vars => Wanted'
<1>. SUFFICES ASSUME IInv, Wanted, [Next]_vars PROVE Wanted'
  OBVIOUS
<1>. USE DEF nodeVars, watcherVars, Goto
<1>1. CASE Watch
  <2>1. emitted' = <<>> /\ delivered' = <<>> /\ Len(<<>>) = 0
    BY <1>1 DEF Watch, IInv, Fresh
  <2>. QED BY <1>1, <2>1 DEF Watch, Wanted
<1>2. CASE Emit
  <2>1. PICK log \in Emittable(call.query.event) :
          NodeMatches(call.query, log) /\ emitted' = Append(emitted, log)
    BY <1>2 DEF Emit
  <2>2. /\ Len(emitted') = Len(emitted) + 1 /\ Len(emitted) \in Nat
        /\ \A i \in 1 .. Len(emitted) : emitted'[i] = emitted[i]
        /\ emitted'[Len(emitted) + 1] = log
    BY <2>1, AppendProperties DEF IInv, TypeOK
  <2>3. watcher = "offer" => taken \in 1 .. Len(emitted)
    BY DEF IInv, TypeOK, InPlace
  <2>4. watcher = "offer" => Item' = Item
    BY <1>2, <2>2, <2>3 DEF Emit, Item
  <2>. QED BY <1>2, <2>1, <2>2, <2>4 DEF Emit, Wanted
<1>3. CASE Deliver
  <2>1. /\ Len(delivered) \in Nat /\ taken \in 1 .. Len(emitted)
        /\ Item \in Emittable(call.query.event)
    BY <1>3, ElementOfSeq DEF Deliver, IInv, TypeOK, InPlace, Item
  <2>2. /\ Len(delivered') = Len(delivered) + 1
        /\ \A i \in 1 .. Len(delivered) : delivered'[i] = delivered[i]
        /\ delivered'[Len(delivered) + 1] = Item
    BY <1>3, <2>1, AppendProperties DEF Deliver, IInv, TypeOK
  <2>3. NodeMatches(call.query, Item) /\ Unpacks(call.query.event, Item)
    BY <1>3, <2>1 DEF Deliver, Wanted, Item
  <2>. QED BY <1>3, <2>1, <2>2, <2>3 DEF Deliver, Wanted
<1>4. CASE TakeLog
  BY <1>4 DEF TakeLog, Wanted, Item
<1>5. CASE WatchFails \/ Unsubscribe \/ UnsubscribeReturns \/ Forward \/ InnerBreaks
            \/ UNCHANGED vars
  BY <1>5 DEF WatchFails, Unsubscribe, UnsubscribeReturns, Forward, InnerBreaks, vars, Wanted, Item
<1>6. CASE UnpackFails \/ InnerFails \/ Quits \/ Release
  BY <1>6 DEF UnpackFails, InnerFails, Quits, Release, Wanted
<1>. QED
  BY <1>1, <1>2, <1>3, <1>4, <1>5, <1>6 DEF Next, WatcherStep

LEMMA InitWanted == Init => Wanted
  BY DEF Init, Wanted

\* The subscription holds nothing but answers to its query.
THEOREM OnlyAnswers == Spec => []Wanted
  BY InitWanted, WantedStep, Inductive, PTL DEF Spec

-----------------------------------------------------------------------------
(* Refinement of the abstract stream.                                      *)

Status == IF watcher = "ended" THEN "failed" ELSE IF quit THEN "stopped" ELSE "open"

LEMMA AppendExtends ==
  ASSUME NEW S, NEW s \in Seq(S), NEW e \in S
  PROVE  IsPrefix(s, Append(s, e))
<1>1. /\ Len(s) \in Nat /\ Append(s, e) \in Seq(S) /\ Len(Append(s, e)) = Len(s) + 1
      /\ \A i \in 1 .. Len(s) : Append(s, e)[i] = s[i]
  BY AppendProperties
<1>2. SubSeq(s, 1, Len(s)) = SubSeq(Append(s, e), 1, Len(s))
  BY <1>1
<1>. QED BY <1>1, <1>2 DEF IsPrefix

LEMMA StreamStep ==
  ASSUME IInv, [Next]_vars
  PROVE  [Stream!Next]_(Stream!vars)
<1>. USE DEF nodeVars, watcherVars, Status, Goto
<1>1. CASE Emit
  <2>1. IsPrefix(emitted, emitted')
    BY <1>1, AppendExtends DEF Emit, IInv, TypeOK
  <2>2. Status' = Status /\ Status # "failed" /\ UNCHANGED delivered
    BY <1>1 DEF Emit, IInv, Over
  <2>. QED
    BY <2>1, <2>2 DEF Stream!Next, Stream!Grow, IsPrefix, Stream!IsPrefix
<1>2. CASE Deliver
  <2>1. delivered' = Append(delivered, emitted[Len(delivered) + 1]) /\ Len(delivered) < Len(emitted)
    BY <1>2 DEF Deliver, Item, IInv, TypeOK, InPlace
  <2>2. Status' = Status /\ Status # "failed" /\ UNCHANGED emitted
    BY <1>2 DEF Deliver
  <2>. QED
    BY <2>1, <2>2 DEF Stream!Next, Stream!Deliver
<1>3. CASE Unsubscribe
  BY <1>3 DEF Unsubscribe, Stream!Next, Stream!Stop, Stream!vars, IInv, TypeOK
<1>4. CASE Release
  BY <1>4 DEF Release, Stream!Next, Stream!Fail, Stream!vars
<1>5. CASE Watch
  BY <1>5 DEF Watch, IInv, Fresh, Stream!vars
<1>6. CASE WatchFails \/ UnsubscribeReturns \/ TakeLog \/ UnpackFails \/ InnerFails \/ Quits \/ Forward
            \/ InnerBreaks \/ UNCHANGED vars
  BY <1>6 DEF WatchFails, UnsubscribeReturns, TakeLog, UnpackFails, InnerFails, Quits, Forward,
              InnerBreaks, vars, Stream!vars
<1>. QED
  BY <1>1, <1>2, <1>3, <1>4, <1>5, <1>6 DEF Next, WatcherStep

\* A subscription is a stream of the events the node emits: in order, without a gap,
\* and nothing after it has failed.
THEOREM WatcherStreams == Spec => ImplementsStream
<1>1. Init => Stream!Init
  BY DEF Init, Stream!Init
<1>. QED
  BY <1>1, StreamStep, Inductive, PTL DEF Spec, ImplementsStream, Stream!Spec

-----------------------------------------------------------------------------
(* The end of a subscription: the goroutine is never stuck, and over after *)
(* a bounded number of its steps.                                          *)

\* A caller that waits in Unsubscribe has told the goroutine to quit, unless it is over;
\* there is a goroutine as soon as there is a subscription, and unless it was told to quit
\* it is over with an error.
Told ==
  /\ caller = "watching" => ~quit
  /\ caller = "unsubscribing" => quit \/ watcher = "ended"
  /\ watcher \in {"release", "ended"} => err # "none" \/ quit
  /\ watcher = "off" => inner = "off" /\ caller \in {"start", "refused"}

LEMMA ToldStep == IInv /\ Told /\ [Next]_vars => Told'
<1>. SUFFICES ASSUME IInv, Told, [Next]_vars PROVE Told'
  OBVIOUS
<1>. USE DEF IInv, Over, Told, nodeVars, watcherVars, Goto
<1>1. CASE WatchFails \/ UnsubscribeReturns \/ UNCHANGED vars
  BY <1>1 DEF WatchFails, UnsubscribeReturns, vars
<1>4. CASE Watch
  BY <1>4 DEF Watch, Fresh
<1>5. CASE Unsubscribe
  BY <1>5 DEF Unsubscribe
<1>2. CASE WatcherStep \/ Deliver
  BY <1>2 DEF WatcherStep, TakeLog, UnpackFails, InnerFails, Quits, Release, Deliver
<1>3. CASE Emit \/ Forward \/ InnerBreaks
  BY <1>3 DEF Emit, Forward, InnerBreaks
<1>. QED
  BY <1>1, <1>2, <1>3, <1>4, <1>5 DEF Next

LEMMA AlwaysTold == Spec => []Told
<1>1. Init => Told
  BY DEF Init, Told
<1>. QED BY <1>1, ToldStep, Inductive, PTL DEF Spec

\* The guards of Quits, of InnerFails and of Release.
CanEnd ==
  \/ watcher \in {"select", "offer"} /\ (quit \/ inner = "failed")
  \/ watcher = "release"

\* The steps of its own that a goroutine has before it once it was told to quit ...
ToQuit == CASE watcher \in {"select", "offer"} -> 2 [] watcher = "release" -> 1 [] OTHER -> 0

\* ... and, at most, once the RPC client forwards no more logs, deliveries included.
ToFail ==
  2 * (forwarded - taken)
    + (CASE watcher = "select" -> 2 [] watcher = "offer" -> 3 [] watcher = "release" -> 1
         [] OTHER -> 0)

LEMMA QuitComesCloser ==
  ASSUME caller = "unsubscribing", [Next]_vars
  PROVE  ToQuit' <= ToQuit /\ (Quits \/ Release => ToQuit' < ToQuit)
<1>. USE DEF ToQuit, nodeVars, watcherVars, Goto
<1>1. CASE WatcherStep \/ Deliver
  BY <1>1 DEF WatcherStep, TakeLog, UnpackFails, InnerFails, Quits, Release, Deliver
<1>2. CASE UnsubscribeReturns \/ Emit \/ Forward \/ InnerBreaks \/ UNCHANGED vars
  <2>1. watcher' = watcher /\ ToQuit \in 0 .. 2
    BY <1>2 DEF UnsubscribeReturns, Emit, Forward, InnerBreaks, vars
  <2>2. ~(Quits \/ Release)
    BY <2>1 DEF Quits, Release
  <2>. QED BY <2>1, <2>2
<1>3. ~Watch /\ ~WatchFails /\ ~Unsubscribe
  BY DEF Watch, WatchFails, Unsubscribe
<1>. QED
  BY <1>1, <1>2, <1>3 DEF Next

LEMMA FailComesCloser ==
  ASSUME IInv, inner = "failed", [Next]_vars
  PROVE  /\ ToFail' <= ToFail
         /\ WatcherStep \/ Deliver => ToFail' < ToFail
<1>1. taken \in Nat /\ forwarded \in Nat /\ taken <= forwarded
  BY DEF IInv, TypeOK
<1>. USE <1>1 DEF ToFail, nodeVars, watcherVars, Goto
<1>2. CASE TakeLog
  BY <1>2 DEF TakeLog
<1>3. CASE UnpackFails \/ InnerFails \/ Quits \/ Release
  BY <1>3 DEF UnpackFails, InnerFails, Quits, Release
<1>4. CASE Deliver
  BY <1>4 DEF Deliver
<1>5. CASE WatchFails \/ Unsubscribe \/ UnsubscribeReturns \/ UNCHANGED vars
  <2>1. watcher' = watcher /\ forwarded' = forwarded /\ taken' = taken
    BY <1>5 DEF WatchFails, Unsubscribe, UnsubscribeReturns, vars
  <2>2. ~(WatcherStep \/ Deliver)
    BY <2>1 DEF WatcherStep, TakeLog, UnpackFails, InnerFails, Quits, Release, Deliver
  <2>. QED BY <2>1, <2>2
<1>6. ~Watch /\ ~Emit /\ ~Forward /\ ~InnerBreaks
  BY DEF Watch, Emit, Forward, InnerBreaks, IInv, Fresh
<1>. QED
  BY <1>2, <1>3, <1>4, <1>5, <1>6 DEF Next, WatcherStep

\* An Unsubscribe never waits for a goroutine that waits for the caller: though it be
\* offering an event that nobody receives, or that is received only for the next to come,
\* the goroutine can take its quit at every moment, has one more step to do then, and
\* nothing takes it back.  What fairness adds to this is UnsubscribeEnds.
THEOREM UnsubscribeIsNotBlocked ==
  Spec => /\ [](caller = "unsubscribing" =>
                   \/ watcher \in {"select", "offer"} /\ quit
                   \/ watcher \in {"release", "ended"})
          /\ [][caller = "unsubscribing" =>
                  ToQuit' <= ToQuit /\ (Quits \/ Release => ToQuit' < ToQuit)]_vars
<1>1. IInv /\ Told => (caller = "unsubscribing" =>
                          \/ watcher \in {"select", "offer"} /\ quit
                          \/ watcher \in {"release", "ended"})
  BY DEF IInv, TypeOK, Over, Told
<1>2. [Next]_vars => [caller = "unsubscribing" =>
                        ToQuit' <= ToQuit /\ (Quits \/ Release => ToQuit' < ToQuit)]_vars
  BY QuitComesCloser
<1>. QED
  BY <1>1, <1>2, Inductive, AlwaysTold, PTL DEF Spec

\* A failure of the inner subscription is never held up by an event on offer: the goroutine
\* can end, and has at most ToFail steps to do so, the deliveries of a caller that goes on
\* receiving included; and the error is not lost: once the goroutine is over it has one to
\* show, unless the caller has told it to quit.  What fairness adds is FailureIsShown.
THEOREM FailureIsNotHeldUp ==
  Spec => /\ [](inner = "failed" => CanEnd)
          /\ [](watcher = "ended" => err # "none" \/ quit)
          /\ [][inner = "failed" =>
                  /\ ToFail' <= ToFail
                  /\ WatcherStep \/ Deliver => ToFail' < ToFail]_vars
<1>1. IInv /\ Told =>
        /\ inner = "failed" => CanEnd
        /\ watcher = "ended" => err # "none" \/ quit
  BY DEF IInv, TypeOK, Over, Told, CanEnd
<1>2. IInv /\ [Next]_vars => [inner = "failed" =>
                                /\ ToFail' <= ToFail
                                /\ WatcherStep \/ Deliver => ToFail' < ToFail]_vars
  BY FailComesCloser
<1>. QED
  BY <1>1, <1>2, Inductive, AlwaysTold, PTL DEF Spec
=============================================================================
