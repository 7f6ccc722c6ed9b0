--------------------------- MODULE FinalizeManager ---------------------------
(***************************************************************************)
(* The list of FinalizeManager: final blocks in the order they arrived,    *)
(* each a record with its height among other fields.                       *)
(***************************************************************************)
EXTENDS Integers, Sequences

CONSTANT NoBlock    \* "no block"

\* clear: drop what is not above height h.
Cleared(q, h) ==
    LET kept[i \in 0..Len(q)] ==
            IF i = 0 THEN <<>>
            ELSE IF q[i].height > h THEN Append(kept[i - 1], q[i])
            ELSE kept[i - 1]
    IN  kept[Len(q)]

Outcome(q, h) ==
    [blk |-> Head(q), rest |-> Tail(q),
     raised |-> IF Head(q).height = h THEN "nothing" ELSE "FinalizeError"]

\* get: pop a block; if it is stale, clear and pop once more.
Get(q, h) ==
    LET newer == IF q # <<>> /\ Head(q).height < h
                 THEN Cleared(Tail(q), Head(q).height) ELSE q
    IN  IF newer = <<>> THEN [blk |-> NoBlock, rest |-> <<>>, raised |-> "IndexError"]
        ELSE Outcome(newer, h)

=============================================================================
