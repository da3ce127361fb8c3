------------------------------ MODULE MCDispatch ------------------------------
(***************************************************************************)
(* Small instances of Dispatch for TLC.                                    *)
(***************************************************************************)
EXTENDS Dispatch, TLC

\* Requests, and calls, are interchangeable.
Symmetry == Permutations(Requests) \union Permutations(Deliveries)
=============================================================================
