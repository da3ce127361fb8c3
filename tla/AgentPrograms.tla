----------------------------- MODULE AgentPrograms -----------------------------
(***************************************************************************)
(* An agent, run by either of the two programs of this repository, with    *)
(* the gateway that answers it and the operators who review its requests   *)
(* and may take its token away meanwhile.                                  *)
(***************************************************************************)
EXTENDS AgentLoop, ReferenceWorkflow

vars == <<gatewayVars, loopVars, flow>>

Init == GatewayInit /\ LoopInit /\ WorkflowInit

Start ==
    /\ loop.pc = "off" /\ flow.pc = "off"
    /\ \/ StartLoop /\ UNCHANGED flow
       \/ StartWorkflow /\ UNCHANGED loopVars

\* Only one of them was started.
Proceed ==
    \/ LoopStep /\ UNCHANGED flow
    \/ WorkflowStep /\ UNCHANGED loopVars

Served(g) == Serve(g) /\ UNCHANGED <<loopVars, flow>>
TimesOut == LoseAnswer /\ UNCHANGED <<loopVars, flow>>

Next ==
    \/ Outside /\ UNCHANGED <<loopVars, flow>>
    \/ HumanApproves /\ UNCHANGED loopVars
    \/ \E g \in Threads : Served(g)
    \/ TimesOut
    \/ Start
    \/ Proceed

Spec == Init /\ [][Next]_vars

\* The programs go on when they can, every thread of the gateway comes to an
\* end (Dispatch: its waits have time-outs), and so does every wait for it.
FairSpec ==
    /\ Spec
    /\ WF_vars(Proceed) /\ WF_vars(TimesOut)
    /\ \A g \in Threads : WF_vars(Served(g))

-----------------------------------------------------------------------------

\* Gateway and programs keep their types.
TypeOK == GatewayTypeOK /\ LoopTypeOK /\ WorkflowTypeOK

\* A program that was started comes to an end, with its bounds on turns, on
\* retries and on the wait for a human, whatever is lost or never decided.
ProgramEnds ==
    loop.pc # "off" \/ flow.pc # "off" ~> loop.pc = "done" \/ flow.pc = "done"

\* The inductive invariant: at most one of the programs was started, and what is kept
\* while that one runs.
IInv ==
    /\ TypeOK /\ ThreadInv
    /\ loop.pc = "off" => LoopInit /\ RunInv /\ EarnedInv /\ CalmInv
    /\ loop.pc # "off" => WorkflowInit /\ LoopInv
    /\ loop.pc = "off" /\ flow.pc = "off" => GatewayInit /\ WorkflowInit
=============================================================================
