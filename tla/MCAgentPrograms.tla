---------------------------- MODULE MCAgentPrograms ----------------------------
(***************************************************************************)
(* Instances of AgentPrograms for TLC.                                     *)
(***************************************************************************)
EXTENDS AgentPrograms

CONSTANTS m1, m2, m3  \* the mail agent's request ids

MCRequestOf == <<<<m1, m2>>, <<m3>>>>

\* The mail agent's calls may be decided any way.
MCDecisionOf == [r \in Requests |->
    IF r \in MyRequests THEN {Provisioned(r)} ELSE {"ALLOW", "APPROVAL", "BLOCK"}]
=============================================================================
