-------------------------- MODULE MCApprovalGrant --------------------------
(***************************************************************************)
(* Small instances of ApprovalGrant for TLC.                               *)
(***************************************************************************)
EXTENDS ApprovalGrant, TLC

\* Threads, requests and contents of one kind are interchangeable.
Symmetry == Permutations(Redeemers) \union Permutations(Operators)
            \union Permutations(Requests) \union Permutations(Contents)
=============================================================================
