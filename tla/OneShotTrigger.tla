--------------------------- MODULE OneShotTrigger ---------------------------
(***************************************************************************)
(* What a trigger promises to the program that waits on it: it releases    *)
(* the waiting main goroutine at most once, and never before it is due.    *)
(* A reason to fire either may or must release it in the end, as long as   *)
(* no call to the node fails.  The trigger may break, by a panic that      *)
(* closes its channel before it ends the program: then main may go on with *)
(* no reason at all.                                                       *)
(***************************************************************************)
VARIABLES
  due,     \* "no" reason to fire, one that "may" fire the trigger (a transaction
           \* that the filter can pass over), or one that "must"
  status   \* "armed", "fired", "broken", or "down" when the program has ended

vars == <<due, status>>

TypeOK ==
  due \in {"no", "may", "must"} /\ status \in {"armed", "fired", "broken", "down"}

Init == due \in {"no", "may", "must"} /\ status = "armed"

BecomeDue ==
  /\ \/ due = "no" /\ due' \in {"may", "must"}
     \/ due = "may" /\ due' = "must"
  /\ UNCHANGED status

Fire == due # "no" /\ status = "armed" /\ status' = "fired" /\ UNCHANGED due

Break == status = "armed" /\ status' = "broken" /\ UNCHANGED due

GoDown == status # "down" /\ status' = "down" /\ UNCHANGED due

Next == BecomeDue \/ Fire \/ Break \/ GoDown

Spec == Init /\ [][Next]_vars
=============================================================================
