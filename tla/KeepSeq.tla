--------------------------------- MODULE KeepSeq ---------------------------------
(***************************************************************************)
(* What is left of a queue when groove_queue_purge has gone through it: the *)
(* objects of which the purge hook does not ask to be rid, in their order.  *)
(* A sequence filter, with the set of what is kept in the place of the hook *)
(* and as a function on the places of the sequence, which is what makes it  *)
(* a thing one can prove about (KeepSeqProofs).                             *)
(***************************************************************************)
EXTENDS Naturals, Sequences

\* What is kept of the first n, for every n up to the length.
Kept(seq, S) ==
  LET kept[n \in 0 .. Len(seq)] ==
        IF n = 0 THEN <<>>
        ELSE LET x == seq[n] IN IF x \in S THEN Append(kept[n - 1], x) ELSE kept[n - 1]
  IN  kept

Keep(seq, S) == Kept(seq, S)[Len(seq)]
================================================================================
