----------------------------- MODULE Filtering -----------------------------
(* Iterator::filter, as the parser and the export use it.                  *)
EXTENDS Naturals, Sequences

(* The elements of a sequence that are in a set, in their order.           *)
Kept(s, wanted) ==
    LET kept[n \in 0 .. Len(s)] ==
            IF n = 0 THEN <<>>
            ELSE IF s[n] \in wanted THEN Append(kept[n - 1], s[n]) ELSE kept[n - 1]
    IN  kept[Len(s)]
=============================================================================
