---------------------------- MODULE MCChainStore ----------------------------
(***************************************************************************)
(* An instance of ChainStore for TLC.                                      *)
(***************************************************************************)
EXTENDS ChainStore, TLC

\* Transactions are not distinguished, and no temporal property is checked.
Symmetry == Permutations(Tx)
=============================================================================
