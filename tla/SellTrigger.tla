----------------------------- MODULE SellTrigger -----------------------------
(***************************************************************************)
(* The sell trigger (SellTrigger.Set, pkg/triggers/sell_trigger.go) and a  *)
(* main that receives once from the channel it returns.                    *)
(***************************************************************************)
CONSTANT InitialDeadlines   \* what st.Deadline may be: "nil", "future", "past"

VARIABLES
  deadline,  \* st.Deadline against the clock
  main,      \* "configured", "receiving", "fired", "closed"
  trig,      \* the goroutine: "off", "select", "fire", "return", "exited"
  trigger    \* the channel: "open" or "closed"

vars == <<deadline, main, trig, trigger>>

Init ==
  /\ deadline \in InitialDeadlines
  /\ main = "configured" /\ trig = "off" /\ trigger = "open"

Set ==
  /\ main = "configured"
  /\ main' = "receiving" /\ trig' = "select"
  /\ UNCHANGED <<deadline, trigger>>

\* case <-deadline.Done()
SelectDeadline ==
  /\ trig = "select" /\ deadline = "past"
  /\ trig' = "fire"
  /\ UNCHANGED <<deadline, main, trigger>>

\* default, when the deadline is not done: it fires as well.
SelectDefault ==
  /\ trig = "select" /\ deadline # "past"
  /\ trig' = "fire"
  /\ UNCHANGED <<deadline, main, trigger>>

\* fire() meets the receive in main.
Fire ==
  /\ trig = "fire" /\ main = "receiving"
  /\ main' = "fired" /\ trig' = "return"
  /\ UNCHANGED <<deadline, trigger>>

\* The deferred close(trigger).
TriggerReturns ==
  /\ trig = "return"
  /\ trigger' = "closed" /\ trig' = "exited"
  /\ UNCHANGED <<deadline, main>>

ReceiveClosed ==
  /\ main = "receiving" /\ trigger = "closed"
  /\ main' = "closed"
  /\ UNCHANGED <<deadline, trig, trigger>>

DeadlinePasses ==
  /\ deadline = "future"
  /\ deadline' = "past"
  /\ UNCHANGED <<main, trig, trigger>>

Next ==
  \/ Set \/ SelectDeadline \/ SelectDefault \/ Fire \/ TriggerReturns \/ ReceiveClosed
  \/ DeadlinePasses

Spec == Init /\ [][Next]_vars

-----------------------------------------------------------------------------
\* "Set deadline to sell at %s" (sell_trigger.go:25): a sell trigger with a deadline
\* releases main when the deadline has passed, not before.
SellsAtDeadline == main = "fired" => deadline = "past"
=============================================================================
