-------------------------- MODULE BuyTriggerProofs --------------------------
(* The safety properties of the buy trigger, for any transactions, filter, *)
(* deadline, buffer size and node.                                         *)
EXTENDS BuyTrigger, TxFilterProofs, SequenceTheorems

\* What the node has announced, as a set: what a transaction in hand is one of.
Heard == {announced[i] : i \in DOMAIN announced}

-----------------------------------------------------------------------------
(* Type correctness.                                                       *)

LEMMA InitTyped == Init => TypeOK
  BY TriggerAssumption DEF Init, TypeOK

LEMMA MainTyped ==
  TypeOK /\ (MainStep \/ MainEnds) => TypeOK'
<1>. SUFFICES ASSUME TypeOK, MainStep \/ MainEnds PROVE TypeOK'
  OBVIOUS
<1>. USE DEF TypeOK, triggerVars, listenerVars, subVars
<1>1. CASE Set BY <1>1 DEF Set
<1>2. CASE Fire BY <1>2 DEF Fire
<1>3. CASE ReceiveClosed BY <1>3 DEF ReceiveClosed
<1>4. CASE MainEnds BY <1>4 DEF MainEnds
<1>. QED BY <1>1, <1>2, <1>3, <1>4 DEF MainStep

LEMMA TriggerTyped == TypeOK /\ TriggerStep => TypeOK'
<1>. SUFFICES ASSUME TypeOK, TriggerStep PROVE TypeOK'
  OBVIOUS
<1>. USE DEF TypeOK, triggerVars, listenerVars, subVars
<1>1. CASE StartListening BY <1>1 DEF StartListening
<1>2. CASE SelectDeadline BY <1>2 DEF SelectDeadline
<1>3. CASE SelectTx BY <1>3 DEF SelectTx
<1>4. CASE SelectClosed BY <1>4 DEF SelectClosed
<1>5. ASSUME NEW up \in NetworkAnswers, ClassifyReturns(up) PROVE TypeOK'
  BY <1>5 DEF ClassifyReturns
<1>6. ASSUME NEW up \in NetworkAnswers, ClassifyPanics(up) PROVE TypeOK'
  BY <1>6 DEF ClassifyPanics
<1>7. CASE TriggerReturns BY <1>7 DEF TriggerReturns
<1>. QED
  BY <1>1, <1>2, <1>3, <1>4, <1>5, <1>6, <1>7 DEF TriggerStep, TriggerLocal, Classify

LEMMA ListenerTyped == TypeOK /\ ListenerStep => TypeOK'
<1>. SUFFICES ASSUME TypeOK, ListenerStep PROVE TypeOK'
  OBVIOUS
<1>. USE DEF TypeOK, triggerVars, listenerVars, subVars
<1>1. CASE SubscribeSends BY <1>1 DEF SubscribeSends
<1>2. CASE Subscribed BY <1>2 DEF Subscribed
<1>3. CASE SubscribeFails BY <1>3 DEF SubscribeFails
<1>4. CASE ListenerCancelled BY <1>4 DEF ListenerCancelled
<1>5. CASE ListenerSubError BY <1>5 DEF ListenerSubError
<1>6. CASE ListenerReceives
  <2>1. Head(buffer) \in Txs /\ Tail(buffer) \in Seq(Txs)
    BY <1>6, HeadTailProperties DEF ListenerReceives
  <2>. QED BY <1>6, <2>1 DEF ListenerReceives
<1>7. CASE FetchSends BY <1>7 DEF FetchSends
<1>8. CASE FetchSucceeds BY <1>8 DEF FetchSucceeds
<1>9. CASE FetchFails BY <1>9 DEF FetchFails
<1>10. CASE CloseTxs BY <1>10 DEF CloseTxs
<1>11. CASE Unsubscribe BY <1>11 DEF Unsubscribe
<1>. QED
  BY <1>1, <1>2, <1>3, <1>4, <1>5, <1>6, <1>7, <1>8, <1>9, <1>10, <1>11
  DEF ListenerStep, ListenerLocal, CallReturns

LEMMA EnvironmentTyped == TypeOK /\ Environment => TypeOK'
<1>. SUFFICES ASSUME TypeOK, Environment PROVE TypeOK'
  OBVIOUS
<1>. USE DEF TypeOK, triggerVars, listenerVars, subVars
<1>1. ASSUME NEW tx \in Txs, Announce(tx) PROVE TypeOK'
  <2>1. announced' \in Seq(Txs)
    BY <1>1, AppendProperties DEF Announce
  <2>2. buffer' \in Seq(Txs)
    <3>1. buffer \in Seq(Txs) /\ Append(buffer, tx) \in Seq(Txs) /\ <<>> \in Seq(Txs)
      BY AppendProperties
    <3>2. buffer' = Append(buffer, tx) \/ buffer' = <<>>
      BY <1>1 DEF Announce
    <3>. QED BY <3>1, <3>2
  <2>3. sub' \in {"off", "live", "failed"}
    BY <1>1 DEF Announce
  <2>. QED BY <1>1, <2>1, <2>2, <2>3 DEF Announce
<1>2. CASE ConnectionLost BY <1>2 DEF ConnectionLost
<1>3. CASE DeadlinePasses BY <1>3 DEF DeadlinePasses
<1>4. CASE Crash BY <1>4 DEF Crash
<1>. QED BY <1>1, <1>2, <1>3, <1>4 DEF Environment

LEMMA TypeStep == TypeOK /\ [Next]_vars => TypeOK'
<1>1. TypeOK /\ UNCHANGED vars => TypeOK'
  BY DEF TypeOK, vars, triggerVars, listenerVars, subVars
<1>. QED
  BY <1>1, MainTyped, TriggerTyped, ListenerTyped, EnvironmentTyped DEF Next

\* The variables keep their types, whatever the buffer size and the transactions.
THEOREM TypeCorrect == Spec => []TypeOK
  BY TypeStep, InitTyped, PTL DEF Spec

-----------------------------------------------------------------------------
(* Where a transaction in hand comes from.                                 *)

\* Whatever is buffered, fetched, sent or classified has been announced.
Provenance ==
  /\ \A i \in DOMAIN buffer : buffer[i] \in Heard
  /\ lst \in {"fetch", "fetching", "send"} => item \in Heard
  /\ trig = "classify" /\ job # NilTx => job \in Heard

LEMMA HeardTyped == TypeOK => Heard \subseteq Txs
  BY DEF TypeOK, Heard

LEMMA HeardGrows ==
  ASSUME TypeOK, NEW tx \in Txs, announced' = Append(announced, tx)
  PROVE  Heard' = Heard \cup {tx}
<1>1. announced \in Seq(Txs)
  BY DEF TypeOK
<1>2. /\ announced' \in Seq(Txs)
      /\ Len(announced') = Len(announced) + 1
      /\ \A i \in 1 .. Len(announced) : announced'[i] = announced[i]
      /\ announced'[Len(announced) + 1] = tx
  BY <1>1, AppendProperties
<1>. QED
  BY <1>1, <1>2 DEF Heard

LEMMA ProvenanceStep ==
  ASSUME TypeOK, Provenance, [Next]_vars
  PROVE  Provenance'
<1>. USE DEF triggerVars, listenerVars, subVars
<1>1. ASSUME NEW tx \in Txs, Announce(tx) PROVE Provenance'
  <2>1. Heard' = Heard \cup {tx}
    BY <1>1, HeardGrows DEF Announce
  <2>2. CASE buffer' = <<>>
    BY <1>1, <2>1, <2>2 DEF Announce, Provenance
  <2>3. CASE buffer' = Append(buffer, tx)
    <3>1. buffer \in Seq(Txs)
      BY DEF TypeOK
    <3>2. \A i \in DOMAIN buffer' : buffer'[i] = tx \/ (i \in DOMAIN buffer /\ buffer'[i] = buffer[i])
      BY <2>3, <3>1, AppendProperties
    <3>. QED
      BY <1>1, <2>1, <3>2 DEF Announce, Provenance
  <2>. QED
    BY <1>1, <2>2, <2>3 DEF Announce
<1>2. CASE ListenerReceives
  <2>1. buffer \in Seq(Txs) /\ buffer # <<>>
    BY <1>2 DEF TypeOK, ListenerReceives
  <2>2. Head(buffer) \in Heard
    BY <2>1, HeadTailProperties DEF Provenance
  <2>3. \A i \in DOMAIN Tail(buffer) : Tail(buffer)[i] \in Heard
    BY <2>1, HeadTailProperties DEF Provenance
  <2>. QED
    BY <1>2, <2>2, <2>3 DEF ListenerReceives, Provenance, Heard
<1>3. CASE MainStep \/ MainEnds
  BY <1>3 DEF MainStep, MainEnds, Set, Fire, ReceiveClosed, Provenance, Heard
<1>4. CASE TriggerStep
  BY <1>4 DEF TriggerStep, TriggerLocal, StartListening, SelectDeadline, SelectTx, SelectClosed, Classify,
              ClassifyReturns, ClassifyPanics, TriggerReturns, Provenance, Heard
<1>5. CASE ListenerStep /\ ~ListenerReceives
  BY <1>5 DEF ListenerStep, ListenerLocal, CallReturns, SubscribeSends, Subscribed, SubscribeFails, ListenerCancelled,
              ListenerSubError, FetchSends, FetchSucceeds, FetchFails, CloseTxs,
              Unsubscribe, Provenance, Heard
<1>6. CASE ConnectionLost \/ DeadlinePasses \/ Crash
  BY <1>6 DEF ConnectionLost, DeadlinePasses, Crash, Provenance, Heard
<1>7. CASE UNCHANGED vars
  BY <1>7 DEF vars, Provenance, Heard
<1>. QED
  BY <1>1, <1>2, <1>3, <1>4, <1>5, <1>6, <1>7 DEF Next, Environment

-----------------------------------------------------------------------------
(* Who may close a channel, and when main is released.                     *)

\* Only the deadline closes txs, so a nil transaction comes after it.
Closing ==
  /\ txs = "closed" \/ lst = "closing" => deadline = "past"
  /\ trig = "classify" /\ job = NilTx => deadline = "past"

\* The trigger goroutine is at fire() only with a cause, and closes trigger only
\* after main has taken the value, or in a panic.
Release ==
  /\ trig = "fire" \/ main = "fired" => Due
  /\ trig = "return" => main = "fired"
  /\ main = "fired" => trig \in {"return", "exited"}
  /\ trigger = "closed" /\ process = "running" => main = "fired"
  /\ main = "closed" => process # "running"

IInv == TypeOK /\ Provenance /\ Closing /\ Release

LEMMA ClosingStep ==
  ASSUME TypeOK, Provenance, Closing, [Next]_vars
  PROVE  Closing'
<1>. USE DEF triggerVars, listenerVars, subVars, Closing
<1>1. CASE MainStep \/ MainEnds
  BY <1>1 DEF MainStep, MainEnds, Set, Fire, ReceiveClosed
<1>2. CASE SelectTx
  <2>1. job' # NilTx
    BY <1>2, HeardTyped, TriggerAssumption DEF SelectTx, Provenance
  <2>. QED
    BY <1>2, <2>1 DEF SelectTx
<1>3. CASE TriggerStep /\ ~SelectTx
  BY <1>3 DEF TriggerStep, TriggerLocal, StartListening, SelectDeadline, SelectClosed, Classify,
              ClassifyReturns, ClassifyPanics, TriggerReturns
<1>4. CASE ListenerStep
  BY <1>4 DEF ListenerStep, ListenerLocal, CallReturns, SubscribeSends, Subscribed, SubscribeFails, ListenerCancelled,
              ListenerSubError, ListenerReceives, FetchSends, FetchSucceeds, FetchFails,
              CloseTxs, Unsubscribe, CtxDone
<1>5. CASE Environment
  BY <1>5 DEF Environment, Announce, ConnectionLost, DeadlinePasses, Crash
<1>6. CASE UNCHANGED vars
  BY <1>6 DEF vars
<1>. QED
  BY <1>1, <1>2, <1>3, <1>4, <1>5, <1>6 DEF Next

\* The deadline does not come back, and what was announced stays announced.
LEMMA CausesStay ==
  ASSUME TypeOK, [Next]_vars
  PROVE  (deadline = "past" => deadline' = "past") /\ Heard \subseteq Heard'
<1>. USE DEF triggerVars, listenerVars, subVars
<1>2. deadline = "past" => deadline' = "past"
  BY DEF Next, MainStep, MainEnds, Set, Fire, ReceiveClosed, TriggerStep, TriggerLocal, StartListening,
         SelectDeadline, SelectTx, SelectClosed, Classify, ClassifyReturns, ClassifyPanics,
         TriggerReturns, ListenerStep, ListenerLocal, CallReturns, SubscribeSends, Subscribed, SubscribeFails,
         ListenerCancelled, ListenerSubError, ListenerReceives, FetchSends, FetchSucceeds,
         FetchFails, CloseTxs, Unsubscribe, Environment, Announce, ConnectionLost,
         DeadlinePasses, Crash, vars
<1>3. announced' = announced \/ \E tx \in Txs : announced' = Append(announced, tx)
  BY DEF Next, MainStep, MainEnds, Set, Fire, ReceiveClosed, TriggerStep, TriggerLocal, StartListening,
         SelectDeadline, SelectTx, SelectClosed, Classify, ClassifyReturns, ClassifyPanics,
         TriggerReturns, ListenerStep, ListenerLocal, CallReturns, SubscribeSends, Subscribed, SubscribeFails,
         ListenerCancelled, ListenerSubError, ListenerReceives, FetchSends, FetchSucceeds,
         FetchFails, CloseTxs, Unsubscribe, Environment, Announce, ConnectionLost,
         DeadlinePasses, Crash, vars
<1>4. Heard \subseteq Heard'
  <2>1. CASE announced' = announced BY <2>1 DEF Heard
  <2>2. ASSUME NEW tx \in Txs, announced' = Append(announced, tx) PROVE Heard \subseteq Heard'
    BY <2>2, HeardGrows
  <2>. QED BY <1>3, <2>1, <2>2
<1>. QED
  BY <1>2, <1>4

\* A cause to buy stays one.
LEMMA DueStays ==
  ASSUME TypeOK, [Next]_vars, Due
  PROVE  Due'
<1>0. Due <=> (deadline = "past" \/ \E tx \in Heard : AddsTargetLiquidity(tx))
  BY DEF Due, Heard
<1>1. Due' <=> (deadline' = "past" \/ \E tx \in Heard' : AddsTargetLiquidity(tx))
  BY DEF Due, Heard
<1>. QED
  BY <1>0, <1>1, CausesStay

\* The cause of "target" is an announced transaction (FilterExact).
LEMMA TargetIsDue ==
  ASSUME IInv, NEW up \in NetworkAnswers, trig = "classify",
         isTargetTransaction(job, up) = "target"
  PROVE  Due
<1>1. job # NilTx
  BY DEF isTargetTransaction, Panics
<1>2. job \in Heard /\ job \in Transaction
  BY <1>1, HeardTyped, TriggerAssumption DEF IInv, Provenance
<1>3. up \in BOOLEAN
  BY DEF NetworkAnswers
<1>4. AddsTargetLiquidity(job)
  BY <1>2, <1>3, FilterExact, TriggerAssumption
<1>. QED
  BY <1>2, <1>4 DEF Due, Heard

LEMMA ReleaseStep ==
  ASSUME IInv, [Next]_vars
  PROVE  Release'
<1>. USE DEF triggerVars, listenerVars, subVars
<1>0. Due => Due'
  BY DueStays DEF IInv
<1>. USE <1>0 DEF IInv, Release
<1>1. CASE MainStep \/ MainEnds
  BY <1>1 DEF MainStep, MainEnds, Set, Fire, ReceiveClosed
<1>2. CASE SelectDeadline
  BY <1>2 DEF SelectDeadline, CtxDone, Due
<1>3. ASSUME NEW up \in NetworkAnswers, ClassifyReturns(up) PROVE Release'
  <2>1. isTargetTransaction(job, up) = "target" => Due
    BY <1>3, TargetIsDue DEF ClassifyReturns
  <2>. QED
    BY <1>3, <2>1 DEF ClassifyReturns
<1>4. ASSUME NEW up \in NetworkAnswers, ClassifyPanics(up) PROVE Release'
  BY <1>4 DEF ClassifyPanics
<1>5. CASE StartListening \/ SelectTx \/ SelectClosed \/ TriggerReturns
  BY <1>5 DEF StartListening, SelectTx, SelectClosed, TriggerReturns
<1>6. CASE ListenerStep
  BY <1>6 DEF ListenerStep, ListenerLocal, CallReturns, SubscribeSends, Subscribed, SubscribeFails, ListenerCancelled,
              ListenerSubError, ListenerReceives, FetchSends, FetchSucceeds, FetchFails,
              CloseTxs, Unsubscribe
<1>7. CASE Environment
  BY <1>7 DEF Environment, Announce, ConnectionLost, DeadlinePasses, Crash
<1>8. CASE UNCHANGED vars
  BY <1>8 DEF vars
<1>. QED
  BY <1>1, <1>2, <1>3, <1>4, <1>5, <1>6, <1>7, <1>8 DEF Next, TriggerStep, TriggerLocal, Classify

LEMMA InitIInv == Init => IInv
  BY InitTyped DEF Init, IInv, Provenance, Closing, Release

\* The inductive invariant holds of every behaviour.
THEOREM Inductive == Spec => []IInv
<1>1. IInv /\ [Next]_vars => IInv'
  BY TypeStep, ProvenanceStep, ClosingStep, ReleaseStep DEF IInv
<1>. QED
  BY <1>1, InitIInv, PTL DEF Spec

-----------------------------------------------------------------------------
(* The safety properties.                                                  *)

\* main buys only after the deadline or an announced target transaction, whatever
\* the interleaving of the two goroutines, the buffer and the node.
THEOREM FiresWhenDue == Spec => []FiresOnlyWhenDue
<1>1. IInv => FiresOnlyWhenDue
  BY DEF IInv, Release, FiresOnlyWhenDue
<1>. QED BY <1>1, Inductive, PTL

\* close(trigger) does not release main, except in a panic.
THEOREM CloseDoesNotRelease == Spec => []ClosedOnlyByPanic
<1>1. IInv => ClosedOnlyByPanic
  BY DEF IInv, Release, ClosedOnlyByPanic
<1>. QED BY <1>1, Inductive, PTL

\* isTargetTransaction sees a nil transaction only after the deadline.
THEOREM NilTxAfterDeadline == Spec => []NilTxOnlyAfterDeadline
<1>1. IInv => NilTxOnlyAfterDeadline
  BY DEF IInv, Closing, NilTxOnlyAfterDeadline
<1>. QED BY <1>1, Inductive, PTL

\* A listener blocked on its send when the trigger goroutine has decided stays there
\* and cannot end the program.
THEOREM ParkedListener == Spec => ParkedListenerIsHarmless
<1>1. ASSUME TypeOK, [Next]_vars, lst = "send", trig \in {"fire", "return", "exited"}
      PROVE  (lst' = "send" /\ process' # "fatal") \/ process = "fatal"
  <2>. USE <1>1 DEF triggerVars, listenerVars, subVars
  <2>1. CASE MainStep \/ MainEnds
    BY <2>1 DEF MainStep, MainEnds, Set, Fire, ReceiveClosed
  <2>2. CASE TriggerStep
    BY <2>2 DEF TriggerStep, TriggerLocal, StartListening, SelectDeadline, SelectTx, SelectClosed, Classify,
                ClassifyReturns, ClassifyPanics, TriggerReturns
  <2>3. CASE ListenerStep
    BY <2>3 DEF ListenerStep, ListenerLocal, CallReturns, SubscribeSends, Subscribed, SubscribeFails, ListenerCancelled,
                ListenerSubError, ListenerReceives, FetchSends, FetchSucceeds, FetchFails,
                CloseTxs, Unsubscribe
  <2>4. CASE Environment
    BY <2>4 DEF Environment, Announce, ConnectionLost, DeadlinePasses, Crash
  <2>5. CASE UNCHANGED vars
    BY <2>5 DEF vars
  <2>. QED BY <2>1, <2>2, <2>3, <2>4, <2>5 DEF Next
<1>2. TypeOK /\ [Next]_vars /\ process # "fatal" =>
        [(lst = "send" /\ trig \in {"fire", "return", "exited"})
           => (lst' = "send" /\ process' # "fatal")]_vars
  BY <1>1
<1>3. [Next]_vars /\ process = "fatal" => UNCHANGED vars
  BY DEF Next, MainStep, MainEnds, Set, Fire, ReceiveClosed, TriggerStep, TriggerLocal, StartListening,
         SelectDeadline, SelectTx, SelectClosed, Classify, ClassifyReturns, ClassifyPanics,
         TriggerReturns, ListenerStep, ListenerLocal, CallReturns, SubscribeSends, Subscribed, SubscribeFails,
         ListenerCancelled, ListenerSubError, ListenerReceives, FetchSends, FetchSucceeds,
         FetchFails, CloseTxs, Unsubscribe, Environment, Announce, ConnectionLost,
         DeadlinePasses, Crash, Alive, vars
<1>4. TypeOK /\ [Next]_vars =>
        [(lst = "send" /\ trig \in {"fire", "return", "exited"})
           => (lst' = "send" /\ process' # "fatal")]_vars
  BY <1>2, <1>3
<1>. QED
  BY <1>4, TypeCorrect, PTL DEF Spec, ParkedListenerIsHarmless

-----------------------------------------------------------------------------
(* The order of the announcements.                                         *)

Holding == lst \in {"fetch", "fetching", "send"}

\* How many of the announced transactions the listener is done with.
Handled == Len(announced) - Len(buffer) - (IF Holding THEN 1 ELSE 0)

\* While the subscription lives, what the listener holds and what is buffered are
\* the last announced, and what is classified is one that was handled before.
Positions ==
  /\ lst \in {"off", "subscribe", "subscribing"} => buffer = <<>> /\ sub = "off"
  /\ sub = "live" =>
       /\ Handled >= 0
       /\ \A i \in 1 .. Len(buffer) : buffer[i] = announced[Len(announced) - Len(buffer) + i]
       /\ Holding => item = announced[Len(announced) - Len(buffer)]
       /\ trig = "classify" /\ job # NilTx => \E k \in 1 .. Handled : job = announced[k]

\* The goroutines start one after the other.
Starting ==
  /\ main = "configured" => trig = "off"
  /\ trig \in {"off", "listen"} => lst = "off"

LEMMA StartingStep ==
  ASSUME TypeOK, Starting, [Next]_vars
  PROVE  Starting'
<1>. USE DEF triggerVars, listenerVars, subVars, Starting
<1>1. CASE MainStep \/ MainEnds
  BY <1>1 DEF MainStep, MainEnds, Set, Fire, ReceiveClosed
<1>2. CASE TriggerStep
  BY <1>2 DEF TriggerStep, TriggerLocal, StartListening, SelectDeadline, SelectTx, SelectClosed, Classify,
              ClassifyReturns, ClassifyPanics, TriggerReturns
<1>3. CASE ListenerStep
  BY <1>3 DEF ListenerStep, ListenerLocal, CallReturns, SubscribeSends, Subscribed, SubscribeFails,
              ListenerCancelled, ListenerSubError, ListenerReceives, FetchSends, FetchSucceeds, FetchFails,
              CloseTxs, Unsubscribe
<1>4. CASE Environment
  BY <1>4 DEF Environment, Announce, ConnectionLost, DeadlinePasses, Crash
<1>5. CASE UNCHANGED vars
  BY <1>5 DEF vars
<1>. QED
  BY <1>1, <1>2, <1>3, <1>4, <1>5 DEF Next

LEMMA AnnouncePositions ==
  ASSUME TypeOK, Positions, NEW tx \in Txs, Announce(tx)
  PROVE  Positions'
<1>. USE DEF triggerVars, listenerVars, subVars
<1>1. /\ Len(announced') = Len(announced) + 1
      /\ \A i \in 1 .. Len(announced) : announced'[i] = announced[i]
      /\ announced'[Len(announced) + 1] = tx
      /\ Len(announced) \in Nat /\ Len(buffer) \in Nat
  BY AppendProperties DEF Announce, TypeOK
<1>2. lst \notin {"off", "subscribe", "subscribing"} /\ UNCHANGED <<lst, item, trig, job>>
  BY DEF Announce, Positions
<1>3. CASE buffer' = <<>> /\ sub' = "failed"
  BY <1>2, <1>3 DEF Positions
<1>4. CASE buffer' = Append(buffer, tx) /\ sub' = "live"
  <2>1. /\ Len(buffer') = Len(buffer) + 1
        /\ \A i \in 1 .. Len(buffer) : buffer'[i] = buffer[i]
        /\ buffer'[Len(buffer) + 1] = tx
    BY <1>4, AppendProperties DEF TypeOK
  <2>2. Holding' = Holding
    BY <1>2 DEF Holding
  <2>3. Handled' = Handled
    BY <1>1, <2>1, <2>2 DEF Handled
  <2>4. Handled \in Int /\ Handled >= 0 /\ Handled <= Len(announced) - Len(buffer)
        /\ (Holding => Handled = Len(announced) - Len(buffer) - 1)
    BY <1>1, Holding \in BOOLEAN DEF Handled, Positions, Announce, Holding
  <2>5. \A i \in 1 .. Len(buffer') :
          buffer'[i] = announced'[Len(announced') - Len(buffer') + i]
    <3>1. ASSUME NEW i \in 1 .. Len(buffer)
          PROVE  buffer'[i] = announced'[Len(announced) - Len(buffer) + i]
      BY <1>1, <2>1, <2>4 DEF Positions, Announce
    <3>2. Len(announced') - Len(buffer') = Len(announced) - Len(buffer)
      BY <1>1, <2>1
    <3>3. buffer'[Len(buffer) + 1] = announced'[Len(announced) - Len(buffer) + (Len(buffer) + 1)]
      <4>1. Len(announced) - Len(buffer) + (Len(buffer) + 1) = Len(announced) + 1
        BY <1>1
      <4>. QED BY <1>1, <2>1, <4>1
    <3>4. \A i \in 1 .. Len(buffer') : i \in 1 .. Len(buffer) \/ i = Len(buffer) + 1
      BY <1>1, <2>1
    <3>. QED BY <3>1, <3>2, <3>3, <3>4
  <2>6. Holding => item' = announced'[Len(announced') - Len(buffer')]
    BY <1>1, <1>2, <2>1, <2>4 DEF Positions, Announce
  <2>7. trig = "classify" /\ job # NilTx => \E k \in 1 .. Handled : job = announced'[k]
    BY <1>1, <2>4 DEF Positions, Announce
  <2>. QED
    BY <1>2, <2>2, <2>3, <2>4, <2>5, <2>6, <2>7 DEF Positions
<1>. QED
  BY <1>3, <1>4 DEF Announce

LEMMA ReceivePositions ==
  ASSUME TypeOK, Positions, ListenerReceives
  PROVE  Positions'
<1>. USE DEF triggerVars, listenerVars, subVars
<1>1. /\ Len(buffer') = Len(buffer) - 1
      /\ \A i \in 1 .. Len(buffer') : buffer'[i] = buffer[i + 1]
      /\ item' = buffer[1]
      /\ Len(buffer) \in Nat \ {0} /\ Len(announced) \in Nat
  BY HeadTailProperties, EmptySeq DEF ListenerReceives, TypeOK
<1>2. ~Holding /\ Holding' /\ sub = "live" /\ UNCHANGED <<sub, announced, trig, job>>
  BY DEF ListenerReceives, Holding
<1>3. Handled' = Handled /\ Handled = Len(announced) - Len(buffer)
  BY <1>1, <1>2 DEF Handled
<1>4. \A i \in 1 .. Len(buffer') : buffer'[i] = announced[Len(announced) - Len(buffer') + i]
  <2>1. \A i \in 1 .. Len(buffer') : buffer[i + 1] = announced[Len(announced) - Len(buffer) + (i + 1)]
    BY <1>1, <1>2 DEF Positions
  <2>. QED BY <1>1, <2>1
<1>5. item' = announced[Len(announced) - Len(buffer')]
  BY <1>1, <1>2 DEF Positions
<1>6. lst' = "fetch"
  BY DEF ListenerReceives
<1>. QED
  BY <1>2, <1>3, <1>4, <1>5, <1>6 DEF Positions

\* Handing a transaction over, or giving one up, makes it handled.
LEMMA HandOverPositions ==
  ASSUME TypeOK, Positions, SelectTx \/ FetchFails
  PROVE  Positions'
<1>. USE DEF triggerVars, listenerVars, subVars
<1>1. /\ UNCHANGED <<sub, buffer, announced, item>>
      /\ lst' = "select" /\ Holding'= FALSE
      /\ Len(buffer) \in Nat /\ Len(announced) \in Nat
  BY DEF SelectTx, FetchFails, Holding, TypeOK
<1>2. Holding
  BY DEF SelectTx, FetchFails, Holding
<1>3. Handled' = Handled + 1 /\ Handled' = Len(announced) - Len(buffer) /\ Handled \in Int
  BY <1>1, <1>2 DEF Handled
<1>4. sub = "live" /\ trig' = "classify" /\ job' # NilTx => \E k \in 1 .. Handled' : job' = announced[k]
  <2>. SUFFICES ASSUME sub = "live", trig' = "classify", job' # NilTx
                PROVE  \E k \in 1 .. Handled' : job' = announced[k]
    OBVIOUS
  <2>1. CASE SelectTx
    <3>1. job' = announced[Handled'] /\ Handled' \in 1 .. Handled'
      BY <1>2, <1>3, <2>1 DEF SelectTx, Positions
    <3>. QED BY <3>1
  <2>2. CASE FetchFails
    BY <1>3, <2>2 DEF FetchFails, Positions
  <2>. QED BY <2>1, <2>2
<1>. QED
  BY <1>1, <1>3, <1>4 DEF Positions

LEMMA PositionsStep ==
  ASSUME TypeOK, Provenance, Starting, Positions, [Next]_vars
  PROVE  Positions'
<1>. USE DEF triggerVars, listenerVars, subVars
<1>0. Len(<<>>) = 0 /\ Len(announced) \in Nat
  BY DEF TypeOK
<1>1. ASSUME NEW tx \in Txs, Announce(tx) PROVE Positions'
  BY <1>1, AnnouncePositions
<1>2. CASE ListenerReceives BY <1>2, ReceivePositions
<1>3. CASE SelectTx \/ FetchFails BY <1>3, HandOverPositions
<1>4. CASE Subscribed
  <2>1. buffer = <<>> /\ ~Holding' /\ UNCHANGED <<buffer, announced, trig, job>> /\ lst' = "select"
    BY <1>4 DEF Subscribed, Positions, Holding
  <2>2. Handled' = Len(announced)
    BY <1>0, <2>1 DEF Handled
  <2>3. trig = "classify" /\ job # NilTx => \E k \in 1 .. Len(announced) : job = announced[k]
    BY DEF Provenance, Heard, TypeOK
  <2>. QED
    BY <1>0, <2>1, <2>2, <2>3 DEF Positions
<1>5. CASE Unsubscribe \/ ConnectionLost
  BY <1>5 DEF Unsubscribe, ConnectionLost, Positions
<1>6. CASE UNCHANGED <<lst, item, subVars>> /\ (trig' = "classify" => UNCHANGED <<trig, job>> \/ job' = NilTx)
  BY <1>6 DEF Positions, Handled, Holding
<1>7. CASE MainStep \/ MainEnds
  BY <1>6, <1>7 DEF MainStep, MainEnds, Set, Fire, ReceiveClosed
<1>8. CASE TriggerStep /\ ~SelectTx /\ ~StartListening
  BY <1>6, <1>8 DEF TriggerStep, TriggerLocal, SelectDeadline, SelectClosed,
                    Classify, ClassifyReturns, ClassifyPanics, TriggerReturns
<1>9. CASE DeadlinePasses \/ Crash \/ UNCHANGED vars \/ ListenerSubError \/ SubscribeFails
  BY <1>6, <1>9 DEF DeadlinePasses, Crash, vars, ListenerSubError, SubscribeFails
<1>10. CASE UNCHANGED <<item, subVars, trig, job, Holding>>
            /\ (lst' \in {"off", "subscribe", "subscribing"} => lst \in {"off", "subscribe", "subscribing"})
  BY <1>10 DEF Positions, Handled
<1>11. CASE FetchSends \/ FetchSucceeds \/ SubscribeSends \/ ListenerCancelled \/ CloseTxs
  BY <1>10, <1>11 DEF FetchSends, FetchSucceeds, SubscribeSends, ListenerCancelled, CloseTxs, Holding
<1>12. CASE StartListening
  BY <1>12 DEF StartListening, Starting, Positions
<1>. QED
  BY <1>1, <1>2, <1>3, <1>4, <1>5, <1>7, <1>8, <1>9, <1>11, <1>12
  DEF Next, Environment, TriggerStep, TriggerLocal, ListenerStep, ListenerLocal, CallReturns

LEMMA InitOrdered == Init => Starting /\ Positions
  BY DEF Init, Starting, Positions

\* Positions, in terms of the sequences.
LEMMA OrderFromPositions == TypeOK /\ Positions => InOrder
<1>. SUFFICES ASSUME TypeOK, Positions, sub = "live"
     PROVE  InOrder
  BY DEF InOrder
<1>1. /\ buffer \in Seq(Txs \cup {NilTx}) /\ announced \in Seq(Txs \cup {NilTx})
      /\ InHand \in Seq(Txs \cup {NilTx}) /\ Len(InHand) = IF Holding THEN 1 ELSE 0
      /\ Len(buffer) \in Nat /\ Len(announced) \in Nat
      /\ Holding => InHand[1] = item
  <2>1. buffer \in Seq(Txs) /\ announced \in Seq(Txs) /\ item \in Txs \cup {NilTx}
    BY DEF TypeOK
  <2>2. buffer \in Seq(Txs \cup {NilTx}) /\ announced \in Seq(Txs \cup {NilTx})
    BY <2>1, SeqMonotonic
  <2>3. CASE Holding
    BY <2>1, <2>2, <2>3 DEF InHand, Holding
  <2>4. CASE ~Holding
    BY <2>1, <2>2, <2>4 DEF InHand, Holding
  <2>. QED BY <2>3, <2>4
<1>2. /\ Queue \in Seq(Txs \cup {NilTx})
      /\ Len(Queue) = Len(InHand) + Len(buffer)
      /\ \A i \in 1 .. Len(Queue) :
           Queue[i] = IF i <= Len(InHand) THEN InHand[i] ELSE buffer[i - Len(InHand)]
  BY <1>1, ConcatProperties DEF Queue
<1>3. Handled = Len(announced) - Len(Queue) /\ Len(Queue) \in Nat /\ Len(Queue) <= Len(announced)
  BY <1>1, <1>2 DEF Handled, Positions
<1>4. \A i \in 1 .. Len(Queue) : Queue[i] = announced[Len(announced) - Len(Queue) + i]
  <2>. TAKE i \in 1 .. Len(Queue)
  <2>1. CASE ~Holding
    BY <1>1, <1>2, <2>1 DEF Positions
  <2>2. CASE Holding /\ i = 1
    BY <1>1, <1>2, <2>2 DEF Positions
  <2>3. CASE Holding /\ i # 1
    <3>1. i - 1 \in 1 .. Len(buffer) /\ Queue[i] = buffer[i - 1]
      BY <1>1, <1>2, <2>3
    <3>2. buffer[i - 1] = announced[Len(announced) - Len(buffer) + (i - 1)]
      BY <3>1 DEF Positions
    <3>. QED BY <1>1, <1>2, <2>3, <3>1, <3>2
  <2>. QED BY <2>1, <2>2, <2>3
<1>5. IsSuffix(Queue, announced)
  <2>. DEFINE r == Reverse(Queue)
              a == Reverse(announced)
  <2>1. /\ Len(r) = Len(Queue) /\ Len(a) = Len(announced)
        /\ \A i \in 1 .. Len(Queue) : r[i] = Queue[Len(Queue) - i + 1]
        /\ \A i \in 1 .. Len(announced) : a[i] = announced[Len(announced) - i + 1]
    BY <1>3, <1>1 DEF Reverse
  <2>2. \A i \in 1 .. Len(Queue) : r[i] = a[i]
    <3>. TAKE i \in 1 .. Len(Queue)
    <3>1. Len(Queue) - i + 1 \in 1 .. Len(Queue) /\ i \in 1 .. Len(announced)
      BY <1>3, <1>1
    <3>2. Queue[Len(Queue) - i + 1] = announced[Len(announced) - Len(Queue) + (Len(Queue) - i + 1)]
      BY <1>4, <3>1
    <3>. QED BY <1>1, <1>3, <2>1, <3>1, <3>2
  <2>3. SubSeq(r, 1, Len(r)) = SubSeq(a, 1, Len(r))
    BY <1>1, <1>3, <2>1, <2>2
  <2>. QED BY <1>3, <2>1, <2>3 DEF IsSuffix, IsPrefix
<1>6. trig = "classify" /\ job # NilTx =>
        job \in ToSet(SubSeq(announced, 1, Len(announced) - Len(Queue)))
  <2>. SUFFICES ASSUME trig = "classify", job # NilTx
       PROVE  job \in ToSet(SubSeq(announced, 1, Handled))
    BY <1>3
  <2>. DEFINE s == SubSeq(announced, 1, Handled)
  <2>1. PICK k \in 1 .. Handled : job = announced[k]
    BY DEF Positions
  <2>2. DOMAIN s = 1 .. Handled /\ s[k] = announced[k]
    BY <1>1, <1>3
  <2>. QED BY <2>1, <2>2 DEF ToSet
<1>. QED
  BY <1>5, <1>6 DEF InOrder

\* Transactions reach the filter in the order of their announcement, for any size of
\* the buffer and whatever fetches fail.
THEOREM Ordered == Spec => []InOrder
<1>1. Init => IInv /\ Starting /\ Positions
  BY InitIInv, InitOrdered
<1>2. (IInv /\ Starting /\ Positions) /\ [Next]_vars => (IInv /\ Starting /\ Positions)'
  BY TypeStep, ProvenanceStep, ClosingStep, ReleaseStep, StartingStep, PositionsStep DEF IInv
<1>3. IInv /\ Positions => InOrder
  BY OrderFromPositions DEF IInv
<1>. QED
  BY <1>1, <1>2, <1>3, PTL DEF Spec

-----------------------------------------------------------------------------
(* Who waits for whom.                                                     *)

\* The guards of the steps that main and the trigger goroutine take without an answer of
\* the node, while main receives ...
TriggerRuns ==
  \/ trig \in {"listen", "fire", "return"}
  \/ trigger = "closed"
  \/ trig = "select" /\ (CtxDone \/ lst = "send" \/ txs = "closed")

\* ... and those of the listener, a call whose context is done included.
ListenerRuns ==
  \/ lst \in {"subscribe", "fetch", "closing", "unsubscribe"}
  \/ lst = "select" /\ (CtxDone \/ sub = "failed" \/ (sub = "live" /\ buffer # <<>>))
  \/ lst \in {"subscribing", "fetching"} /\ CtxDone

AwaitsAnswer == trig = "classify" \/ lst \in {"subscribing", "fetching"}

AwaitsAnnouncement == lst = "select" /\ sub = "live" /\ buffer = <<>>

\* Where each goroutine is tells what has happened to the channels and the subscription.
Standing ==
  /\ Starting
  /\ trig = "off" => main = "configured"
  /\ trig \notin {"off", "listen"} => lst # "off"
  /\ trig = "exited" => trigger = "closed"
  /\ lst \in {"unsubscribe", "exited"} => txs = "closed"
  /\ lst \in {"select", "fetch", "fetching", "send", "closing"} => sub # "off"
  /\ lst \in {"off", "subscribe", "subscribing", "exited"} => sub = "off"
  /\ lst \in {"off", "subscribe", "subscribing"} => announced = <<>>

LEMMA StandingStep ==
  ASSUME TypeOK, Standing, [Next]_vars
  PROVE  Standing'
<1>0. Starting'
  BY StartingStep DEF Standing
<1>. USE <1>0 DEF triggerVars, listenerVars, subVars, Standing
<1>1. CASE MainStep \/ MainEnds
  BY <1>1 DEF MainStep, MainEnds, Set, Fire, ReceiveClosed
<1>2. CASE TriggerStep
  BY <1>2 DEF Starting, TriggerStep, TriggerLocal, StartListening, SelectDeadline, SelectTx, SelectClosed, Classify,
              ClassifyReturns, ClassifyPanics, TriggerReturns
<1>3. CASE ListenerStep
  BY <1>3 DEF ListenerStep, ListenerLocal, CallReturns, SubscribeSends, Subscribed, SubscribeFails,
              ListenerCancelled, ListenerSubError, ListenerReceives, FetchSends, FetchSucceeds, FetchFails,
              CloseTxs, Unsubscribe
<1>4. CASE Environment
  BY <1>4 DEF Environment, Announce, ConnectionLost, DeadlinePasses, Crash
<1>5. CASE UNCHANGED vars
  BY <1>5 DEF vars
<1>. QED
  BY <1>1, <1>2, <1>3, <1>4, <1>5 DEF Next

LEMMA AlwaysStanding == Spec => []Standing
<1>1. Init => Standing
  BY DEF Init, Starting, Standing
<1>. QED
  BY <1>1, StandingStep, TypeCorrect, PTL DEF Spec

\* While main waits for its release the goroutines never all wait for each other: one of
\* them can go on, or the wait ends at the node, in a call or for the next hash.  After the
\* deadline only the call inside isTargetTransaction can still hold main up, whatever the
\* listener does.  What fairness adds to this is DeadlineEndsTheWait.
THEOREM NoCircularWait ==
  Spec => /\ [](Alive /\ main = "receiving" =>
                  TriggerRuns \/ ListenerRuns \/ AwaitsAnswer \/ AwaitsAnnouncement)
          /\ [](Alive /\ main = "receiving" /\ deadline = "past" =>
                  TriggerRuns \/ trig = "classify")
<1>1. TypeOK /\ Standing =>
        (Alive /\ main = "receiving" =>
           TriggerRuns \/ ListenerRuns \/ AwaitsAnswer \/ AwaitsAnnouncement)
  BY DEF TypeOK, Standing, TriggerRuns, ListenerRuns, AwaitsAnswer, AwaitsAnnouncement
<1>2. TypeOK /\ Standing =>
        (Alive /\ main = "receiving" /\ deadline = "past" => TriggerRuns \/ trig = "classify")
  BY DEF TypeOK, Standing, TriggerRuns, CtxDone
<1>. QED
  BY <1>1, <1>2, TypeCorrect, AlwaysStanding, PTL

\* After the deadline a listener with a live subscription can go on to its end, unless it
\* is parked on a send that nobody receives.  What fairness adds to this is
\* ListenerWindsDown.
THEOREM ListenerCanEnd ==
  Spec => [](Alive /\ deadline = "past" /\ sub = "live" => ListenerRuns \/ lst = "send")
<1>1. TypeOK /\ Standing =>
        (Alive /\ deadline = "past" /\ sub = "live" => ListenerRuns \/ lst = "send")
  BY DEF TypeOK, Standing, ListenerRuns, CtxDone
<1>. QED
  BY <1>1, TypeCorrect, AlwaysStanding, PTL

-----------------------------------------------------------------------------
(* What becomes of an announced target transaction.                        *)

\* On its way to the filter, or in it.
OnItsWay(tx) ==
  \/ \E i \in DOMAIN buffer : buffer[i] = tx
  \/ lst \in {"fetch", "fetching", "send"} /\ item = tx
  \/ trig = "classify" /\ job = tx

IsTarget(tx) == isTargetTransaction(tx, TRUE) = "target"

\* With a node that answers, the program drops an announced target transaction only when
\* it is decided anyhow, or at the deadline or the end of the subscription.
Kept ==
  node = "answers" /\ sub = "live" /\ deadline # "past" /\ trig \notin {"fire", "return", "exited"} =>
    \A tx \in Heard : IsTarget(tx) => OnItsWay(tx)

LEMMA KeptStep ==
  ASSUME IInv, Standing, Kept, [Next]_vars
  PROVE  Kept'
<1>. USE DEF triggerVars, listenerVars, subVars
<1>. SUFFICES ASSUME node' = "answers", sub' = "live", deadline' # "past",
                     trig' \notin {"fire", "return", "exited"},
                     NEW tx \in Heard', IsTarget(tx)
              PROVE  OnItsWay(tx)'
  BY DEF Kept
<1>1. node = "answers" /\ deadline # "past"
  <2>. USE DEF TriggerLocal, Classify, Environment, ListenerLocal, CallReturns
  <2>1. UNCHANGED node
    BY DEF Next, MainStep, MainEnds, Set, Fire, ReceiveClosed, TriggerStep, StartListening,
         SelectDeadline, SelectTx, SelectClosed, ClassifyReturns, ClassifyPanics,
         TriggerReturns, ListenerStep, SubscribeSends, Subscribed, SubscribeFails,
         ListenerCancelled, ListenerSubError, ListenerReceives, FetchSends, FetchSucceeds,
         FetchFails, CloseTxs, Unsubscribe, Announce, ConnectionLost, DeadlinePasses, Crash, vars
  <2>2. UNCHANGED deadline \/ deadline = "future"
    BY DEF Next, MainStep, MainEnds, Set, Fire, ReceiveClosed, TriggerStep, StartListening,
         SelectDeadline, SelectTx, SelectClosed, ClassifyReturns, ClassifyPanics,
         TriggerReturns, ListenerStep, SubscribeSends, Subscribed, SubscribeFails,
         ListenerCancelled, ListenerSubError, ListenerReceives, FetchSends, FetchSucceeds,
         FetchFails, CloseTxs, Unsubscribe, Announce, ConnectionLost, DeadlinePasses, Crash, vars
  <2>. QED BY <2>1, <2>2
<1>2. ASSUME NEW new \in Txs, Announce(new) PROVE OnItsWay(tx)'
  <2>1. buffer' = Append(buffer, new) /\ UNCHANGED <<lst, item, trig, job>> /\ sub = "live"
    BY <1>2 DEF Announce
  <2>2. /\ \A i \in DOMAIN buffer : i \in DOMAIN buffer' /\ buffer'[i] = buffer[i]
        /\ Len(buffer) + 1 \in DOMAIN buffer' /\ buffer'[Len(buffer) + 1] = new
    BY <2>1, AppendProperties DEF IInv, TypeOK
  <2>3. tx = new \/ tx \in Heard
    BY <1>2, HeardGrows DEF Announce, IInv
  <2>. QED
    BY <1>1, <2>1, <2>2, <2>3 DEF Kept, OnItsWay
<1>3. CASE ListenerReceives
  <2>1. tx \in Heard /\ UNCHANGED <<trig, job>> /\ sub = "live" /\ lst = "select"
    BY <1>3 DEF ListenerReceives, Heard
  <2>2. /\ \A i \in DOMAIN buffer : i = 1 \/ (i - 1 \in DOMAIN Tail(buffer) /\ Tail(buffer)[i - 1] = buffer[i])
        /\ Head(buffer) = buffer[1]
    BY <1>3, HeadTailProperties DEF ListenerReceives, IInv, TypeOK
  <2>. QED
    BY <1>1, <1>3, <2>1, <2>2 DEF Kept, OnItsWay, ListenerReceives
<1>4. CASE SelectTx
  <2>1. tx \in Heard
    BY <1>4 DEF SelectTx, Heard
  <2>. QED
    BY <1>1, <1>4, <2>1 DEF SelectTx, Kept, OnItsWay
<1>5. ASSUME NEW up \in NetworkAnswers, ClassifyReturns(up) PROVE OnItsWay(tx)'
  <2>1. up = TRUE
    BY <1>1, <1>5 DEF NetworkAnswers, Unreliable
  <2>2. tx \in Heard /\ isTargetTransaction(job, up) # "target"
    BY <1>5 DEF ClassifyReturns, Heard
  <2>. QED
    BY <1>1, <1>5, <2>1, <2>2 DEF ClassifyReturns, Kept, OnItsWay, IsTarget
<1>6. CASE Subscribed
  BY <1>6 DEF Subscribed, Standing, Heard
<1>7. CASE SelectClosed
  BY <1>1, <1>7 DEF SelectClosed, IInv, Closing
<1>8. CASE FetchFails
  BY <1>1, <1>8 DEF FetchFails, CtxDone, Unreliable
<1>9. CASE MainStep \/ MainEnds \/ StartListening
  <2>1. UNCHANGED <<buffer, item, job, announced, sub>>
    BY <1>9 DEF MainStep, MainEnds, StartListening, Set, Fire, ReceiveClosed
  <2>. QED
    BY <1>1, <1>9, <2>1 DEF MainStep, MainEnds, Set, Fire, ReceiveClosed, StartListening, Kept,
                            OnItsWay, Heard, IInv, Standing, Starting
<1>10. CASE SelectDeadline \/ TriggerReturns \/ (\E up \in NetworkAnswers : ClassifyPanics(up))
  BY <1>10 DEF SelectDeadline, TriggerReturns, ClassifyPanics
<1>11. CASE SubscribeSends \/ SubscribeFails \/ ListenerCancelled \/ ListenerSubError \/ FetchSends
              \/ FetchSucceeds \/ CloseTxs \/ DeadlinePasses \/ Crash \/ UNCHANGED vars
  <2>1. tx \in Heard /\ UNCHANGED <<buffer, item, trig, job, sub>>
    BY <1>11 DEF SubscribeSends, SubscribeFails, ListenerCancelled, ListenerSubError, FetchSends,
                 FetchSucceeds, CloseTxs, DeadlinePasses, Crash, vars, Heard
  <2>2. lst \in {"fetch", "fetching", "send"} => lst' \in {"fetch", "fetching", "send"}
    BY <1>11 DEF SubscribeSends, SubscribeFails, ListenerCancelled, ListenerSubError, FetchSends,
                 FetchSucceeds, CloseTxs, DeadlinePasses, Crash, vars
  <2>. QED
    BY <1>1, <2>1, <2>2 DEF Kept, OnItsWay
<1>12. CASE Unsubscribe \/ ConnectionLost
  BY <1>12 DEF Unsubscribe, ConnectionLost
<1>. QED
  BY <1>2, <1>3, <1>4, <1>5, <1>6, <1>7, <1>8, <1>9, <1>10, <1>11, <1>12
  DEF Next, TriggerStep, TriggerLocal, Classify, ListenerStep, ListenerLocal, CallReturns, Environment

\* While main waits, an announced target transaction is on its way to the filter or in it,
\* unless the trigger is about to fire, the deadline has passed, the subscription has failed
\* (which is fatal) or a panic is under way: no buffer, channel or select loses it.  What
\* fairness adds to this is AnnouncedTargetReleases.
THEOREM NoTargetIsLost ==
  Spec => [](node = "answers" /\ main = "receiving" =>
               \A i \in DOMAIN announced : IsTarget(announced[i]) =>
                 \/ OnItsWay(announced[i])
                 \/ trig = "fire" \/ trigger = "closed"
                 \/ deadline = "past" \/ sub = "failed")
<1>1. Init => Kept
  BY DEF Init, Kept
<1>2. Spec => []Kept
  BY <1>1, KeptStep, Inductive, AlwaysStanding, PTL DEF Spec
<1>3. IInv /\ Standing /\ Kept =>
        (node = "answers" /\ main = "receiving" =>
           \A i \in DOMAIN announced : IsTarget(announced[i]) =>
             \/ OnItsWay(announced[i])
             \/ trig = "fire" \/ trigger = "closed"
             \/ deadline = "past" \/ sub = "failed")
  BY DEF Kept, IInv, TypeOK, Closing, Release, Standing, Heard
<1>. QED
  BY <1>2, <1>3, Inductive, AlwaysStanding, PTL

\* Calls are answered and nothing has been decided yet.
Undecided ==
  /\ Alive /\ node = "answers" /\ sub = "live" /\ deadline # "past"
  /\ trig \in {"select", "classify"}

\* How far the two goroutines have come, in steps: five for each transaction handled, those
\* of the listener with the next one, and one when the last has been classified.
Progress ==
  5 * Handled + [select |-> 0, fetch |-> 1, fetching |-> 2, send |-> 3][lst]
              + (IF trig = "select" THEN 1 ELSE 0)

LEMMA ProgressIsMade ==
  ASSUME IInv, Standing, Undecided, Undecided', [Next]_vars
  PROVE  Progress' >= Progress /\ (TriggerStep \/ ListenerStep => Progress' > Progress)
<1>. DEFINE l == [select |-> 0, fetch |-> 1, fetching |-> 2, send |-> 3][lst]
            t == IF trig = "select" THEN 1 ELSE 0
<1>1. /\ lst \in {"select", "fetch", "fetching", "send"}
      /\ txs # "closed" /\ ~CtxDone /\ ~Unreliable
  BY DEF Undecided, IInv, TypeOK, Closing, Standing, CtxDone, Unreliable
<1>2. Handled \in Int /\ l \in 0 .. 3 /\ t \in 0 .. 1
  <2>1. Len(announced) \in Nat /\ Len(buffer) \in Nat
    BY DEF IInv, TypeOK
  <2>. QED BY <1>1, <2>1 DEF Handled
<1>3. /\ Progress  = 5 * Handled + l + t
      /\ Progress' = 5 * Handled' + l' + t'
  BY DEF Progress
<1>. USE DEF triggerVars, listenerVars, subVars
<1>4. CASE ListenerReceives \/ FetchSends \/ FetchSucceeds
  <2>1. UNCHANGED <<Handled, t>> /\ l' = l + 1
    <3>1. CASE ListenerReceives
      <4>1. Len(buffer') = Len(buffer) - 1 /\ Len(buffer) \in Nat /\ Len(announced) \in Nat
        BY <3>1, HeadTailProperties, EmptySeq DEF ListenerReceives, IInv, TypeOK
      <4>. QED BY <3>1, <4>1 DEF ListenerReceives, Handled, Holding
    <3>2. CASE FetchSends \/ FetchSucceeds
      BY <3>2 DEF FetchSends, FetchSucceeds, Handled, Holding
    <3>. QED BY <1>4, <3>1, <3>2
  <2>. HIDE DEF l, t
  <2>. QED BY <1>2, <1>3, <2>1
<1>5. CASE SelectTx
  <2>1. Handled' = Handled + 1 /\ l = 3 /\ l' = 0 /\ t = 1 /\ t' = 0
    <3>1. Len(buffer) \in Nat /\ Len(announced) \in Nat
      BY DEF IInv, TypeOK
    <3>. QED BY <1>5, <3>1 DEF SelectTx, Handled, Holding
  <2>. HIDE DEF l, t
  <2>. QED BY <1>2, <1>3, <2>1
<1>6. CASE Classify
  <2>1. UNCHANGED <<Handled, l>> /\ t = 0 /\ t' = 1
    BY <1>6 DEF Classify, ClassifyReturns, ClassifyPanics, Undecided, Handled, Holding
  <2>. HIDE DEF l, t
  <2>. QED BY <1>2, <1>3, <2>1
<1>7. ASSUME NEW tx \in Txs, Announce(tx)
      PROVE  UNCHANGED <<Handled, l, t>>
  <2>1. buffer' = Append(buffer, tx)
    BY <1>7 DEF Announce, Undecided
  <2>2. /\ Len(announced') = Len(announced) + 1 /\ Len(buffer') = Len(buffer) + 1
        /\ Len(announced) \in Nat /\ Len(buffer) \in Nat
    BY <1>7, <2>1, AppendProperties DEF Announce, IInv, TypeOK
  <2>. QED BY <1>7, <2>2 DEF Announce, Handled, Holding
<1>8. MainStep \/ MainEnds \/ Crash \/ UNCHANGED vars => UNCHANGED <<Handled, l, t>>
  BY DEF MainStep, MainEnds, Crash, vars, Set, Fire, ReceiveClosed, Undecided, Handled, Holding
<1>9. ~(\/ ConnectionLost \/ DeadlinePasses \/ StartListening \/ SelectDeadline \/ SelectClosed
        \/ TriggerReturns \/ SubscribeSends \/ Subscribed \/ SubscribeFails \/ ListenerCancelled
        \/ ListenerSubError \/ FetchFails \/ CloseTxs \/ Unsubscribe)
  BY <1>1 DEF Undecided, ConnectionLost, DeadlinePasses, StartListening, SelectDeadline, SelectClosed,
        TriggerReturns, SubscribeSends, Subscribed, SubscribeFails, ListenerCancelled,
        ListenerSubError, FetchFails, CloseTxs, Unsubscribe
<1>10. (TriggerStep \/ ListenerStep) => ListenerReceives \/ FetchSends \/ FetchSucceeds \/ SelectTx \/ Classify
  BY <1>9 DEF TriggerStep, ListenerStep, TriggerLocal, ListenerLocal, CallReturns
<1>11. CASE UNCHANGED <<Handled, l, t>> /\ ~(TriggerStep \/ ListenerStep)
  <2>1. Progress' = Progress /\ Progress \in Int
    <3>. HIDE DEF l, t
    <3>. QED BY <1>2, <1>3, <1>11
  <2>. QED BY <1>11, <2>1
<1>. QED
  BY <1>4, <1>5, <1>6, <1>7, <1>8, <1>9, <1>10, <1>11 DEF Next, Environment

\* An announced target transaction comes closer with every step of the two goroutines, and
\* there is always one to take, if only that the call in the filter returns: the listener
\* never waits for an announcement while a target is on its way, and Progress has reached
\* five times its number when it is handed over, whatever is announced behind it.
THEOREM TargetComesCloser ==
  Spec => /\ [](Undecided /\ main = "receiving" /\ (\E tx \in Heard : IsTarget(tx)) =>
                  TriggerRuns \/ ListenerRuns \/ AwaitsAnswer)
          /\ [](Undecided => \A i \in DOMAIN announced : i <= Handled \/ Progress < 5 * i)
          /\ [][Undecided /\ Undecided' =>
                  Progress' >= Progress /\ (TriggerStep \/ ListenerStep => Progress' > Progress)]_vars
<1>1. Init => Kept
  BY DEF Init, Kept
<1>2. Spec => []Kept
  BY <1>1, KeptStep, Inductive, AlwaysStanding, PTL DEF Spec
<1>3. IInv /\ Standing /\ Kept =>
        (Undecided /\ main = "receiving" /\ (\E tx \in Heard : IsTarget(tx)) =>
           TriggerRuns \/ ListenerRuns \/ AwaitsAnswer)
  <2>. SUFFICES ASSUME IInv, Standing, Kept, Undecided, main = "receiving",
                       NEW tx \in Heard, IsTarget(tx)
                PROVE  TriggerRuns \/ ListenerRuns \/ AwaitsAnswer
    OBVIOUS
  <2>1. OnItsWay(tx)
    BY DEF Kept, Undecided
  <2>2. CASE \E i \in DOMAIN buffer : buffer[i] = tx
    <3>1. buffer # <<>>
      BY <2>2, EmptySeq
    <3>. QED
      BY <3>1 DEF Undecided, IInv, TypeOK, Closing, Standing, TriggerRuns, ListenerRuns, AwaitsAnswer
  <2>3. CASE lst \in {"fetch", "fetching", "send"}
    BY <2>3 DEF Undecided, TriggerRuns, ListenerRuns, AwaitsAnswer
  <2>4. CASE trig = "classify"
    BY <2>4 DEF AwaitsAnswer
  <2>. QED BY <2>1, <2>2, <2>3, <2>4 DEF OnItsWay
<1>4. IInv /\ Standing => (Undecided => \A i \in DOMAIN announced : i <= Handled \/ Progress < 5 * i)
  <2>. SUFFICES ASSUME IInv, Standing, Undecided, NEW i \in DOMAIN announced, ~(i <= Handled)
                PROVE  Progress < 5 * i
    OBVIOUS
  <2>. DEFINE l == [select |-> 0, fetch |-> 1, fetching |-> 2, send |-> 3][lst]
              t == IF trig = "select" THEN 1 ELSE 0
  <2>1. Len(announced) \in Nat /\ Len(buffer) \in Nat /\ i \in Nat
    BY DEF IInv, TypeOK
  <2>2. lst \in {"select", "fetch", "fetching", "send"}
    BY DEF Undecided, IInv, TypeOK, Closing, Standing
  <2>3. Handled \in Int /\ l \in 0 .. 3 /\ t \in 0 .. 1
    BY <2>1, <2>2 DEF Handled
  <2>4. Progress = 5 * Handled + l + t
    BY DEF Progress
  <2>5. Handled + 1 <= i
    BY <2>1, <2>3
  <2>. HIDE DEF l, t
  <2>. QED BY <2>1, <2>3, <2>4, <2>5
<1>5. IInv /\ Standing /\ [Next]_vars =>
        [Undecided /\ Undecided' =>
           Progress' >= Progress /\ (TriggerStep \/ ListenerStep => Progress' > Progress)]_vars
  BY ProgressIsMade
<1>. QED
  BY <1>2, <1>3, <1>4, <1>5, Inductive, AlwaysStanding, PTL DEF Spec

-----------------------------------------------------------------------------
(* Refinement of the abstract trigger.                                     *)

Status == CASE process = "running" /\ main \in {"fired", "closed"}    -> "fired"
            [] process = "running" /\ main \notin {"fired", "closed"} -> "armed"
            [] process = "unwinding"                                  -> "broken"
            [] OTHER                                                  -> "down"

\* A reason never becomes weaker.
LEMMA ReasonGrows ==
  ASSUME IInv, IInv', [Next]_vars
  PROVE  /\ Reason \in {"no", "may", "must"} /\ Reason' \in {"no", "may", "must"}
         /\ Reason = "must" => Reason' = "must"
         /\ Reason # "no" => Reason' # "no"
         /\ Due => Reason # "no"
<1>. DEFINE Must == deadline = "past" \/ \E tx \in Heard : IsTarget(tx)
<1>1. Reason = IF Must THEN "must" ELSE IF Due THEN "may" ELSE "no"
  BY DEF Reason, Heard, IsTarget
<1>2. Reason' = IF Must' THEN "must" ELSE IF Due' THEN "may" ELSE "no"
  BY DEF Reason, Heard, IsTarget
<1>3. Must => Must'
  BY CausesStay DEF IInv, IsTarget
<1>4. Due => Due'
  BY DueStays DEF IInv
<1>5. Must => Due
  <2>1. ASSUME NEW tx \in Heard, IsTarget(tx) PROVE AddsTargetLiquidity(tx)
    BY <2>1, HeardTyped, TriggerAssumption, FilterExact DEF IInv, IsTarget
  <2>. QED
    BY <2>1 DEF Due, Heard
<1>6. Must' => Due'
  <2>1. ASSUME NEW tx \in Heard', IsTarget(tx) PROVE AddsTargetLiquidity(tx)
    <3>1. tx \in Transaction
      BY <2>1, TriggerAssumption DEF IInv, TypeOK, Heard
    <3>. QED
      BY <2>1, <3>1, TriggerAssumption, FilterExact DEF IsTarget
  <2>. QED
    BY <2>1 DEF Due, Heard, IsTarget
<1>. HIDE DEF Must
<1>. QED
  BY <1>1, <1>2, <1>3, <1>4, <1>5, <1>6

LEMMA AbstractStep ==
  ASSUME IInv, IInv', [Next]_vars
  PROVE  [Abstract!Next]_(Abstract!vars)
<1>1. \/ Status' = Status
      \/ Status # "down" /\ Status' = "down" /\ Reason' = Reason
      \/ Status = "armed" /\ Status' = "broken" /\ Reason' = Reason
      \/ Status = "armed" /\ Status' = "fired" /\ Due /\ Reason' = Reason
  <2>. USE DEF triggerVars, listenerVars, subVars, Status
  <2>1. CASE Fire
    BY <2>1 DEF Fire, IInv, Release, Due, Reason
  <2>2. CASE ReceiveClosed
    BY <2>2 DEF ReceiveClosed, IInv, Release
  <2>3. CASE Set \/ MainEnds
    BY <2>3 DEF Set, MainEnds, Reason, Due, Alive
  <2>4. CASE TriggerStep /\ ~Classify
    BY <2>4 DEF TriggerStep, TriggerLocal, StartListening, SelectDeadline, SelectTx, SelectClosed,
                TriggerReturns, Alive
  <2>8. CASE Classify
    <3>1. main \notin {"fired", "closed"} \/ process # "running"
      BY <2>8 DEF Classify, ClassifyReturns, ClassifyPanics, IInv, Release, TypeOK
    <3>2. Reason' = Reason
      BY <2>8 DEF Classify, ClassifyReturns, ClassifyPanics, Reason, Due
    <3>. QED
      BY <2>8, <3>1, <3>2 DEF Classify, ClassifyReturns, ClassifyPanics, Alive
  <2>5. CASE ListenerStep
    BY <2>5 DEF ListenerStep, ListenerLocal, CallReturns, SubscribeSends, Subscribed, SubscribeFails, ListenerCancelled,
                ListenerSubError, ListenerReceives, FetchSends, FetchSucceeds, FetchFails,
                CloseTxs, Unsubscribe, Reason, Due, Alive
  <2>6. CASE Environment
    BY <2>6 DEF Environment, Announce, ConnectionLost, DeadlinePasses, Crash, Reason, Due
  <2>7. CASE UNCHANGED vars
    BY <2>7 DEF vars
  <2>. QED
    BY <2>1, <2>2, <2>3, <2>4, <2>5, <2>6, <2>7, <2>8 DEF Next, MainStep
<1>. QED
  BY <1>1, ReasonGrows
  DEF Abstract!Next, Abstract!BecomeDue, Abstract!Fire, Abstract!Break, Abstract!GoDown, Abstract!vars, Status

\* The goroutines, channels and deadline together are a one-shot trigger: main is
\* released at most once and never before it is due, but by a panic (buy_trigger.go:40-59).
THEOREM OneShot == Spec => ImplementsOneShot
<1>1. Init => Abstract!Init
  BY DEF Init, Abstract!Init, Reason
<1>. QED
  BY <1>1, AbstractStep, Inductive, PTL DEF Spec, ImplementsOneShot, Abstract!Spec
=============================================================================
