----------------------------- MODULE MCSpanQueue -----------------------------
(* Small instances of SpanQueue for TLC. *)
EXTENDS SpanQueue, TLC

Symmetry == Permutations(Producers) \cup Permutations(Chunks)
==============================================================================
