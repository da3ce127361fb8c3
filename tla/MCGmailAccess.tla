---------------------------- MODULE MCGmailAccess -----------------------------
(***************************************************************************)
(* Instances of GmailAccess for TLC.                                       *)
(***************************************************************************)
EXTENDS GmailAccess

CONSTANTS t1, t2, a1, b1, b2, b3

\* The second tenant has no agent: it is there to write the shared file.
MCOrgOf == [a \in {a1} |-> t1]
MCAccountsOf == [t \in Tenants |-> IF t = t1 THEN {b1, b2} ELSE {b3}]
=============================================================================
