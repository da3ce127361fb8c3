----------------------------- MODULE GatewayCalls -----------------------------
(***************************************************************************)
(* The gateway as an agent's program meets it: a call is authenticated,    *)
(* decided or matched with an earlier decision of its request id, and      *)
(* dispatched, in a thread that goes on when the program has stopped       *)
(* waiting for the answer.  How a decision is taken, recorded and          *)
(* dispatched is the matter of other modules; here a request id has its    *)
(* first decision, its approval and the times that its action ran.         *)
(***************************************************************************)
EXTENDS Integers

CONSTANTS
    Requests,    \* request ids
    Contents,    \* what the payload of a request can be
    DecisionOf,  \* DecisionOf[r]: what the rules may decide about request r
    Threads,     \* gateway threads
    None         \* no request, no content, no thread

ASSUME GatewayAssumption ==
    /\ DecisionOf \in [Requests -> SUBSET {"ALLOW", "APPROVAL", "BLOCK", "FORBIDDEN"}]
    /\ None \notin Requests \union Contents \union Threads

VARIABLES
    request,  \* request[r]: the event of request id r and its approval
    runs,     \* runs[r]: how often the tool took effect for r
    thread,   \* thread[g]: the call that gateway thread g serves
    client,   \* the thread that the program waits for, the answer it got, and whether
              \* that names an approval
    trouble   \* history: something failed, expired or was withdrawn

gatewayVars == <<request, runs, thread, client, trouble>>

NoRequest == [event |-> "none", content |-> None, approval |-> "none"]
Resting == [pc |-> "rest", req |-> None, content |-> None, approval |-> FALSE]
Quiet == [waits |-> None, answer |-> "none", approval |-> FALSE]

GatewayInit ==
    /\ request = [r \in Requests |-> NoRequest]
    /\ runs = [r \in Requests |-> 0]
    /\ thread = [g \in Threads |-> Resting]
    /\ client = Quiet
    /\ trouble = FALSE

\* Faulty variants, each a plausible slip in the definition it is named after.
AnyContent(r, content) == TRUE
ApprovedOnce(r) == request[r].approval \in {"approved", "consumed"}

\* _idempotent_payload_matches.
SameContent(r, content) == request[r].content = content

\* evaluate_grant and claim: approved, not lapsed, not consumed.
Redeemable(r) == request[r].approval = "approved"

-----------------------------------------------------------------------------

\* The program posts a request, which a free thread takes, whichever it is, and
\* waits.
Post(r, content) ==
    LET g == CHOOSE h \in Threads : thread[h].pc = "rest" IN
    /\ \E h \in Threads : thread[h].pc = "rest"
    /\ client = Quiet
    /\ thread' = [thread EXCEPT ![g] =
           [pc |-> "arrived", req |-> r, content |-> content, approval |-> FALSE]]
    /\ client' = [Quiet EXCEPT !.waits = g]
    /\ UNCHANGED <<request, runs, trouble>>

\* Its time-out, or a lost connection: the thread goes on.
LoseAnswer ==
    /\ client.waits # None
    /\ client' = [Quiet EXCEPT !.answer = "ERROR"]
    /\ trouble' = TRUE
    /\ UNCHANGED <<request, runs, thread>>

Goto(g, pc) == thread' = [thread EXCEPT ![g].pc = pc] /\ UNCHANGED client

\* The thread answers, and the program hears it if it still waits.  The answer
\* names an approval if outcome.approval_id is set; an error names none.
Reply(g, answer, approval) ==
    /\ thread' = [thread EXCEPT ![g] = Resting]
    /\ client' = IF client.waits = g
                 THEN [waits |-> None, answer |-> answer, approval |-> approval]
                 ELSE client

Answer(g, answer) == Reply(g, answer, FALSE)

\* get_agent_from_token finds no valid token: it was rotated, revoked with its
\* agent, or has expired (AgentCredential).
Refuse(g) ==
    /\ thread[g].pc = "arrived"
    /\ Answer(g, "DENIED")
    /\ trouble' = TRUE
    /\ UNCHANGED <<request, runs>>

\* authorize_request finds no event of the request id ...
Lookup(g) ==
    /\ thread[g].pc = "arrived" /\ request[thread[g].req].event = "none"
    /\ Goto(g, "decide")
    /\ UNCHANGED <<request, runs, trouble>>

\* ... and decides.  The mailbox gate may turn the decision into BLOCK; an
\* execution of another agent is forbidden, without an event.  Of two events of
\* one id, later look-ups return the first.
Decide(g, decision) ==
    LET r == thread[g].req IN
    /\ thread[g].pc = "decide" /\ decision \in DecisionOf[r]
    /\ request' = IF decision = "FORBIDDEN" \/ request[r].event # "none" THEN request
           ELSE [request EXCEPT ![r] =
               [event |-> decision, content |-> thread[g].content,
                approval |-> IF decision = "APPROVAL" THEN "pending" ELSE "none"]]
    /\ IF decision = "ALLOW" THEN Goto(g, "dispatch")
       ELSE Reply(g, decision, decision = "APPROVAL")
    /\ UNCHANGED <<runs, trouble>>

\* A known request id with another payload.
Mismatch(g) ==
    LET r == thread[g].req IN
    /\ thread[g].pc = "arrived" /\ request[r].event # "none"
    /\ ~SameContent(r, thread[g].content)
    /\ Answer(g, "DENIED")
    /\ UNCHANGED <<request, runs, trouble>>

\* The approval that a decision given again names: that of its event, which a
\* decision withdrawn to BLOCK may have, too.
NamesApproval(event) ==
    CASE event = "APPROVAL" -> {TRUE} [] event = "BLOCK" -> BOOLEAN [] OTHER -> {FALSE}

\* A re-submission: an approved request is cleared, once; otherwise the first
\* decision is given again and nothing runs.
Resubmit(g) ==
    LET r == thread[g].req IN
    /\ thread[g].pc = "arrived" /\ request[r].event # "none"
    /\ SameContent(r, thread[g].content)
    /\ IF Redeemable(r)
       THEN /\ request' = [request EXCEPT ![r].approval = "consumed"]
            /\ thread' = [thread EXCEPT ![g].pc = "dispatch", ![g].approval = TRUE]
            /\ UNCHANGED client
       ELSE /\ \E named \in NamesApproval(request[r].event) : Reply(g, request[r].event, named)
            /\ UNCHANGED request
    /\ UNCHANGED <<runs, trouble>>

\* The contract is no longer valid, or the mailbox gate refuses.  The answer to
\* a redemption names the approval all the same.
Withdraw(g) ==
    LET r == thread[g].req IN
    /\ thread[g].pc = "dispatch"
    /\ request' = [request EXCEPT ![r].event = IF @ = "ALLOW" THEN "BLOCK" ELSE @]
    /\ Reply(g, "BLOCK", thread[g].approval)
    /\ trouble' = TRUE
    /\ UNCHANGED <<runs>>

\* The tool takes effect, and the gateway hears of it, or times out and
\* answers an error as it does when nothing ran.
Run(g) ==
    /\ thread[g].pc = "dispatch"
    /\ runs' = [runs EXCEPT ![thread[g].req] = @ + 1]
    /\ \/ Reply(g, "RAN", thread[g].approval) /\ UNCHANGED trouble
       \/ Answer(g, "DENIED") /\ trouble' = TRUE
    /\ UNCHANGED <<request>>

\* Broker or tool refuse, or do not answer.
DispatchFails(g) ==
    /\ thread[g].pc = "dispatch"
    /\ Answer(g, "DENIED")
    /\ trouble' = TRUE
    /\ UNCHANGED <<request, runs>>

\* The gateway restarts, or the request never reached it.
Drop(g) ==
    /\ thread[g].pc # "rest"
    /\ Answer(g, "ERROR")
    /\ trouble' = TRUE
    /\ UNCHANGED <<request, runs>>

\* An operator decides a pending approval, from the dashboard or, for the
\* reference workflow, from the thread that plays the human.
Review(r, verdict) ==
    /\ request[r].approval = "pending"
    /\ request' = [request EXCEPT ![r].approval = verdict]
    /\ trouble' = (trouble \/ verdict = "denied")
    /\ UNCHANGED <<runs, thread, client>>

\* Its time to live ends before it is redeemed.
Lapse(r) ==
    /\ request[r].approval \in {"pending", "approved"}
    /\ request' = [request EXCEPT ![r].approval = "lapsed"]
    /\ trouble' = TRUE
    /\ UNCHANGED <<runs, thread, client>>

Serve(g) ==
    \/ Refuse(g) \/ Lookup(g)
    \/ \E decision \in {"ALLOW", "APPROVAL", "BLOCK", "FORBIDDEN"} : Decide(g, decision)
    \/ Mismatch(g) \/ Resubmit(g) \/ Withdraw(g) \/ Run(g) \/ DispatchFails(g) \/ Drop(g)

\* What the operators and the time do.
Outside ==
    \E r \in Requests : Lapse(r) \/ \E v \in {"approved", "denied"} : Review(r, v)

-----------------------------------------------------------------------------

\* The gateway's part of the state keeps its types.
GatewayTypeOK ==
    /\ request \in [Requests ->
           [event : {"none", "ALLOW", "APPROVAL", "BLOCK"}, content : Contents \union {None},
            approval : {"none", "pending", "approved", "denied", "consumed", "lapsed"}]]
    /\ runs \in [Requests -> Nat]
    /\ thread \in [Threads ->
           [pc : {"rest", "arrived", "decide", "dispatch"}, req : Requests \union {None},
            content : Contents \union {None}, approval : BOOLEAN]]
    /\ client \in [waits : Threads \union {None},
                   answer : {"none", "RAN", "ALLOW", "APPROVAL", "BLOCK", "DENIED",
                             "FORBIDDEN", "ERROR"},
                   approval : BOOLEAN]
    /\ trouble \in BOOLEAN

(***************************************************************************)
(* What every step of the gateway keeps: the parts of the inductive        *)
(* invariants of the programs that use it.                                 *)
(***************************************************************************)

Serves(g, r) == thread[g].pc # "rest" /\ thread[g].req = r

Dispatches(g, r) == thread[g].pc = "dispatch" /\ thread[g].req = r

Untouched(r) == runs[r] = 0 /\ \A g \in Threads : ~Serves(g, r)

\* A thread rests or serves a call, and the program waits for one that does.
ThreadInv ==
    /\ \A g \in Threads :
           IF thread[g].pc = "rest" THEN thread[g] = Resting
           ELSE thread[g].req \in Requests /\ thread[g].content \in Contents
    /\ client.waits # None => thread[client.waits].pc # "rest" /\ client.answer = "none"

\* A request that one thread serves at a time, and only before it runs.
OnceInv(r) ==
    /\ runs[r] \in {0, 1}
    /\ \A g \in Threads : Serves(g, r) => runs[r] = 0
    /\ \A g, h \in Threads : Serves(g, r) /\ Serves(h, r) => g = h

\* A request that is not allowed outright runs by its approval, which is consumed once.
GrantInv(r) ==
    /\ request[r].event = "none" => request[r].approval = "none"
    /\ "ALLOW" \notin DecisionOf[r] =>
           /\ request[r].approval # "none" => "APPROVAL" \in DecisionOf[r]
           /\ runs[r] # 0 => runs[r] = 1 /\ request[r].approval = "consumed"
           /\ \A g \in Threads :
                  Dispatches(g, r) => runs[r] = 0 /\ request[r].approval = "consumed"
           /\ \A g, h \in Threads : Dispatches(g, r) /\ Dispatches(h, r) => g = h
=============================================================================
