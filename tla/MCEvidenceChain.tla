-------------------------- MODULE MCEvidenceChain --------------------------
(***************************************************************************)
(* Small instances of EvidenceChain for TLC.                               *)
(***************************************************************************)
EXTENDS EvidenceChain, TLC

\* Threads and request ids of one kind are interchangeable.
Symmetry == Permutations(Threads) \union Permutations(Requests)
=============================================================================
