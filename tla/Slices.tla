------------------------------- MODULE Slices -------------------------------
(* What a loop that appends some elements of a slice to another yields.     *)
EXTENDS Naturals, Sequences, SequencesExt

\* The elements of s at the positions in I, in their order.
Keep(s, I) == FlattenSeq([i \in DOMAIN s |-> IF i \in I THEN <<s[i]>> ELSE << >>])
==============================================================================
