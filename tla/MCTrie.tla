------------------------------- MODULE MCTrie -------------------------------
(***************************************************************************)
(* An instance of Trie for TLC: four keys that share none to three of      *)
(* their nibbles, so that leaves and extensions of every length are split. *)
(***************************************************************************)
EXTENDS Trie, TLC

MCKey == {<<0, 0, 0, 0>>, <<0, 0, 1, 0>>, <<0, 1, 0, 0>>, <<1, 0, 0, 0>>}

\* The trie does nothing with a value but store and return it.
Symmetry == Permutations(Value)

=============================================================================
