--------------------------- MODULE ResponseStream ---------------------------
(***************************************************************************)
(* What a response produced by a generator promises: a document that grows *)
(* is delivered in pieces, in order, each part of it once, and the end is  *)
(* announced when the whole document is complete and delivered.            *)
(***************************************************************************)
EXTENDS Sequences, SequencesExt

VARIABLES document, sent, state

vars == <<document, sent, state>>

Init == sent = <<>> /\ state = "open"

Produce ==
  /\ state = "open"
  /\ IsPrefix(document, document')
  /\ state' \in {"open", "complete"}
  /\ UNCHANGED sent

Deliver ==
  /\ state # "ended"
  /\ IsPrefix(sent, sent') /\ IsPrefix(sent', document)
  /\ UNCHANGED <<document, state>>

End ==
  /\ state = "complete" /\ sent = document
  /\ state' = "ended"
  /\ UNCHANGED <<document, sent>>

Next == Produce \/ Deliver \/ End

Spec == Init /\ [][Next]_vars
=============================================================================
