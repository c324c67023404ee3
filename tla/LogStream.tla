------------------------------ MODULE LogStream ------------------------------
(***************************************************************************)
(* What an event iterator and an event subscription promise to the program *)
(* that reads them: the events of a growing source, in order and without a *)
(* gap, for as long as the stream is open.  A complete stream has handed   *)
(* over the whole source; a stopped one may still hand over what it holds, *)
(* a failed or complete one nothing.                                       *)
(***************************************************************************)
EXTENDS Naturals, Sequences, SequencesExt

VARIABLES
  source,     \* the events there are for this stream
  delivered,  \* those handed over
  status      \* "open", "complete", "stopped" or "failed"

vars == <<source, delivered, status>>

Init == source = <<>> /\ delivered = <<>> /\ status = "open"

Grow ==
  /\ status \in {"open", "stopped"} /\ IsPrefix(source, source')
  /\ UNCHANGED <<delivered, status>>

Deliver ==
  /\ status \in {"open", "stopped"}
  /\ Len(delivered) < Len(source)
  /\ delivered' = Append(delivered, source[Len(delivered) + 1])
  /\ UNCHANGED <<source, status>>

Complete ==
  /\ status = "open" /\ delivered = source
  /\ status' = "complete"
  /\ UNCHANGED <<source, delivered>>

Stop ==
  /\ status = "open" /\ status' = "stopped"
  /\ UNCHANGED <<source, delivered>>

Fail ==
  /\ status \in {"open", "stopped"} /\ status' = "failed"
  /\ UNCHANGED <<source, delivered>>

Next == Grow \/ Deliver \/ Complete \/ Stop \/ Fail

Spec == Init /\ [][Next]_vars
=============================================================================
