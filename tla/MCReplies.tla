------------------------------ MODULE MCReplies ------------------------------
(***************************************************************************)
(* Two threads and a cache of one, so that showing one evicts the other.   *)
(***************************************************************************)
EXTENDS Replies, TLC

Symmetry == Permutations(Threads) \cup Permutations(Answers) \cup Permutations(Texts)

=============================================================================
