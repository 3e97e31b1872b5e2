---------------------------- MODULE ArrayFilter ----------------------------
(***************************************************************************)
(* Array.prototype.filter, with the elements that pass as a set.  It is    *)
(* what SelectSeq is with a predicate, but the prover has no rules for it. *)
(***************************************************************************)
EXTENDS Naturals, Sequences

(* The elements of seq that are in S, in their order.                       *)
Filter(seq, S) ==
    LET kept[n \in 0 .. Len(seq)] ==
            IF n = 0 THEN <<>>
            ELSE IF seq[n] \in S THEN Append(kept[n - 1], seq[n]) ELSE kept[n - 1]
    IN  kept[Len(seq)]
=============================================================================
