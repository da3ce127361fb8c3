--------------------------- MODULE MCContractStore ---------------------------
(***************************************************************************)
(* Small instances of ContractStore for TLC.                               *)
(***************************************************************************)
EXTENDS ContractStore, TLC

\* Handlers of one kind, and contract ids, are interchangeable.
Symmetry == Permutations(Operators) \union Permutations(Gateways)
            \union Permutations(Contracts)
=============================================================================
