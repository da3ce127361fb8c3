--------------------------- MODULE ReferenceWorkflow ---------------------------
(***************************************************************************)
(* The reference agent (infra/reference-agent/agent.py) and the harness    *)
(* that runs it against a live deployment (run_reference_workflow.py): a   *)
(* fixed sequence of calls, a thread that plays the human and approves one *)
(* of them, and a verdict on the answers.  The probes of the network, and  *)
(* the checks on them, are left out.                                       *)
(***************************************************************************)
EXTENDS GatewayCalls, Sequences

CONSTANTS
    Read, Delete, Update, Extract, Foreign, Denied,  \* its request ids
    Proper, Forged,  \* payloads
    Deadline         \* how often it polls until APPROVAL_WAIT_SECONDS have passed

\* What the permissions, the contract and the policy of provision decide; of an
\* execution of another agent, the gateway.
Provisioned(r) ==
    CASE r \in {Read, Extract} -> "ALLOW"
      [] r = Update -> "APPROVAL"
      [] r \in {Delete, Denied} -> "BLOCK"
      [] r = Foreign -> "FORBIDDEN"

MyRequests == {Read, Delete, Update, Extract, Foreign, Denied}

ASSUME WorkflowAssumption ==
    /\ MyRequests \subseteq Requests
    /\ \A r \in MyRequests : DecisionOf[r] = {Provisioned(r)}
    /\ LET id == <<Read, Delete, Update, Extract, Foreign, Denied>>
       IN \A i, j \in DOMAIN id : id[i] = id[j] => i = j
    /\ {Proper, Forged} \subseteq Contents /\ Proper # Forged
    /\ Deadline \in Nat

VARIABLE flow  \* the run: the call it is at, its polls left, whether its checks
               \* were passed so far

Answers == {"RAN", "ALLOW", "APPROVAL", "BLOCK", "DENIED", "FORBIDDEN", "ERROR"}

\* One call of run_workflow (its second extraction, of which no check asks
\* anything, is left out) and the answers with which evaluate is content.
Call(name, r, content, good) == [name |-> name, req |-> r, content |-> content, good |-> good]

NotRun == Answers \ {"RAN"}

BeforeApproval == <<
    Call("read", Read, Proper, {"RAN"}),
    Call("delete", Delete, Proper, {"BLOCK"}),
    Call("requested", Update, Proper, {"APPROVAL"}),
    Call("mutation", Update, Forged, NotRun) >>

Granted == Call("granted", Update, Proper, {"RAN"})

AfterApproval == <<
    Call("replay", Update, Proper, NotRun),
    Call("extraction", Extract, Forged, Answers),
    Call("foreign", Foreign, Proper, {"FORBIDDEN"}),
    Call("denied", Denied, Forged, {"BLOCK"}) >>

Plan == BeforeApproval \o <<Granted>> \o AfterApproval

Now == Plan[flow.at]

WorkflowInit ==
    flow = [pc |-> "off", at |-> 1, left |-> Deadline, ok |-> TRUE, verdict |-> "none"]

Expected(answer) == answer \in Now.good

\* The loop of step 6 ends on a decision that is not APPROVAL; an error has none.
Settles(answer) == answer \in {"RAN", "ALLOW", "BLOCK"}

OnePollLess(n) == n - 1

\* The harness logs in, provisions the agent, starts the human's thread and the
\* program.
StartWorkflow ==
    /\ flow.pc = "off"
    /\ flow' = [flow EXCEPT !.pc = "ready"]
    /\ UNCHANGED gatewayVars

\* The thread that plays the human, until it gives up.
HumanApproves ==
    /\ flow.pc # "off"
    /\ Review(Update, "approved")
    /\ UNCHANGED flow

Checked(ok) ==
    [flow EXCEPT !.pc = "ready", !.at = @ + 1, !.ok = @ /\ ok]

\* The polls stop at the deadline.
SendCall ==
    /\ flow.pc = "ready" /\ flow.at =< Len(Plan)
    /\ Now.name = "granted" => flow.left > 0
    /\ Post(Now.req, Now.content)
    /\ flow' = [flow EXCEPT !.pc = "sent",
                            !.left = IF Now.name = "granted" THEN OnePollLess(@) ELSE @]

TakeReply ==
    /\ flow.pc = "sent" /\ client.answer # "none"
    /\ flow' = IF Now.name = "granted" /\ ~Settles(client.answer)
               THEN [flow EXCEPT !.pc = "ready"]
               ELSE Checked(Expected(client.answer))
    /\ client' = Quiet
    /\ UNCHANGED <<request, runs, thread, trouble>>

\* No decision came in time; the transcript says so.  That is a cause when the
\* approval was not there, or came after the last poll.
DeadlinePasses ==
    /\ flow.pc = "ready" /\ flow.at =< Len(Plan) /\ Now.name = "granted" /\ flow.left = 0
    /\ flow' = Checked(FALSE)
    /\ trouble' = (trouble \/ request[Update].approval \in {"pending", "approved"})
    /\ UNCHANGED <<request, runs, thread, client>>

\* The harness found no other agent, or could not make an execution of it: the
\* step is left out.
SkipForeign ==
    /\ flow.pc = "ready" /\ flow.at =< Len(Plan) /\ Now.name = "foreign"
    /\ flow' = Checked(TRUE)
    /\ UNCHANGED gatewayVars

\* evaluate.
Conclude ==
    /\ flow.pc = "ready" /\ flow.at > Len(Plan)
    /\ flow' = [flow EXCEPT !.pc = "done", !.verdict = IF flow.ok THEN "PASS" ELSE "FAIL"]
    /\ UNCHANGED gatewayVars

WorkflowStep ==
    SendCall \/ TakeReply \/ DeadlinePasses \/ SkipForeign \/ Conclude

-----------------------------------------------------------------------------

\* The workflow's part of the state keeps its types.
WorkflowTypeOK ==
    flow \in [pc : {"off", "ready", "sent", "done"},
              at : 1..Len(Plan) + 1, left : 0..Deadline, ok : BOOLEAN,
              verdict : {"none", "PASS", "FAIL"}]

\* PASS is earned: whatever was lost on the way, the permitted actions ran once,
\* the update with the payload that was approved, and nothing else ran.
PassIsEarned ==
    flow.verdict = "PASS" =>
        /\ runs[Read] = 1 /\ runs[Update] = 1
        /\ request[Update].content = Proper /\ request[Update].approval = "consumed"
        /\ \A r \in {Delete, Foreign, Denied} : runs[r] = 0

\* FAIL has a cause: an answer that was lost, a call that failed, a token or an
\* approval that was refused or came too late, never the order of events alone.
FailsForCause == flow.verdict = "FAIL" => trouble

\* Where the run is, and that it waits for, or heard, the answer to its call.
RunInv ==
    /\ flow.pc = "sent" =>
           /\ flow.at =< Len(Plan)
           /\ IF client.waits # None
              THEN thread[client.waits].req = Now.req /\ thread[client.waits].content = Now.content
              ELSE client.answer # "none"
    /\ flow.pc # "sent" => client = Quiet
    /\ flow.verdict # "none" <=> flow.pc = "done"
    /\ flow.pc = "done" =>
           flow.at > Len(Plan) /\ flow.verdict = IF flow.ok THEN "PASS" ELSE "FAIL"

\* The call at position p of the plan has not been sent.
Unsent(p) == flow.at < p \/ (flow.at = p /\ flow.pc # "sent")

\* The strengthening of PassIsEarned: the update that is approved is the proper one, for
\* the forged one is sent when the first is on record, and what was heard to have run did.
EarnedInv ==
    /\ \A r \in MyRequests : GrantInv(r)
    /\ OnceInv(Read) /\ (Unsent(1) => Untouched(Read))
    /\ Unsent(3) => request[Update].event = "none" /\ \A g \in Threads : ~Serves(g, Update)
    /\ flow.at =< 3 =>
           /\ \A g \in Threads : Serves(g, Update) => thread[g].content = Proper
           /\ request[Update].event # "none" => request[Update].content = Proper
    /\ flow.pc = "sent" /\ client.answer = "RAN" => runs[Now.req] # 0
    /\ flow.pc = "sent" /\ client.answer = "APPROVAL" => request[Now.req].event # "none"
    /\ flow.ok =>
           /\ flow.at > 1 => runs[Read] # 0
           /\ flow.at > 3 => request[Update].event # "none" /\ request[Update].content = Proper
           /\ flow.at > 5 => runs[Update] # 0

Waits(approvals) == request[Update].approval \in approvals

\* The strengthening of FailsForCause: while nothing has gone wrong, one thread at most
\* is busy and each call gets the answer that the plan expects.
CalmInv ==
    ~trouble =>
        /\ flow.ok
        /\ \A g \in Threads : thread[g].pc # "rest" => g = client.waits
        /\ \A p \in {1, 2, 3, 7, 8, 9} : Unsent(p) => request[Plan[p].req].event = "none"
        /\ flow.at > 3 => request[Update].event = "APPROVAL" /\ request[Update].content = Proper
        /\ flow.at = 4 \/ (flow.at = 5 /\ flow.pc # "sent") => Waits({"pending", "approved"})
        /\ flow.at > 5 => Waits({"consumed"})
        /\ flow.pc = "sent" /\ client.waits # None =>
               LET pc == thread[client.waits].pc IN
               IF flow.at \in {4, 5, 6}
               THEN \/ pc = "arrived" /\ (flow.at = 5 => Waits({"pending", "approved"}))
                    \/ pc = "dispatch" /\ flow.at = 5 /\ Waits({"consumed"})
               ELSE \/ pc \in {"arrived", "decide"} /\ request[Now.req].event = "none"
                    \/ pc = "dispatch" /\ flow.at \in {1, 7}
        /\ flow.pc = "sent" /\ client.waits = None =>
               \/ client.answer \in Now.good
                  /\ (flow.at = 3 => /\ request[Update].event = "APPROVAL"
                                     /\ request[Update].content = Proper
                                     /\ Waits({"pending", "approved"}))
                  /\ (flow.at = 5 => Waits({"consumed"}))
               \/ client.answer = "APPROVAL" /\ flow.at = 5 /\ Waits({"pending", "approved"})
=============================================================================
