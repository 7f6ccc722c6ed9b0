----------------------------- MODULE MCFinality -----------------------------
(***************************************************************************)
(* An instance of Finality for TLC: three validators, two of which confirm *)
(* a block, two candidates, and a bounded number of final blocks.          *)
(***************************************************************************)
EXTENDS Finality, TLC

CONSTANT MaxFinals  \* bound: final blocks

\* Neither validators nor blocks are distinguished, and no temporal property is checked.
Symmetry == Permutations(Validators) \cup Permutations(Block)

MCNext == Next /\ Cardinality(finals') <= MaxFinals

MCSpec == Init /\ [][MCNext]_vars
=============================================================================
