------------------------------- MODULE AgentLoop -------------------------------
(***************************************************************************)
(* The email agent (infra/ai-agent/agent.py): it asks a model what to do,  *)
(* sends each tool call of the answer through the gateway, waits a bounded *)
(* time for a human where one is asked, and tells the model what became of *)
(* the call.                                                               *)
(***************************************************************************)
EXTENDS GatewayCalls, Sequences

CONSTANTS
    MaxTurns,    \* MAX_TURNS
    MaxRetries,  \* MAX_RETRIES of the model client
    Patience,    \* how often it polls until APPROVAL_WAIT_SECONDS have passed
    RequestOf,   \* RequestOf[i][j]: the request id of call j in turn i; bound: their
                 \* number is the most that one answer of the model asks for
    Payload      \* what it sends: the same in every submission of a call

ASSUME LoopAssumption ==
    /\ MaxTurns \in Nat \ {0} /\ MaxRetries \in Nat /\ Patience \in Nat
    /\ RequestOf \in [1..MaxTurns -> Seq(Requests) \ {<<>>}]
    /\ Payload \in Contents
    /\ \A i, k \in 1..MaxTurns : \A j \in DOMAIN RequestOf[i], l \in DOMAIN RequestOf[k] :
           RequestOf[i][j] = RequestOf[k][l] => i = k /\ j = l

VARIABLES
    loop,  \* the run of the agent
    told,  \* told[r]: what the model was told of request r, "none" if nothing
    noted  \* the requests of which it was also told that they have not happened,
           \* for a human must approve them before they can run

loopVars == <<loop, told, noted>>

LoopInit ==
    /\ loop = [pc |-> "off", turn |-> 0, tries |-> 0,
               calls |-> 0, index |-> 0, left |-> 0]
    /\ told = [r \in Requests |-> "none"]
    /\ noted = {}

Index == UNION {DOMAIN RequestOf[i] : i \in 1..MaxTurns}

Current == RequestOf[loop.turn][loop.index]

\* Faulty variants, each a plausible slip in the definition it is named after.
UntilDecided(answer) == answer \in {"APPROVAL", "ERROR"}
DeadlineMoves(n) == n
OneTurnMore == loop.turn > MaxTurns
NotedAlways(approval) == TRUE

\* _await_approval polls again.
StillPending(answer) == answer = "APPROVAL"

\* Time passes between two polls.
Waited(n) == n - 1

\* The loop over the turns ends.
LastTurn == loop.turn = MaxTurns

\* The operator starts the program with a token that was issued to the agent.
StartLoop ==
    /\ loop.pc = "off"
    /\ loop' = [loop EXCEPT !.pc = "model", !.turn = 1]
    /\ UNCHANGED <<told, noted, gatewayVars>>

\* complete: a failed attempt is repeated, up to MaxRetries times.
ModelFails ==
    /\ loop.pc = "model"
    /\ loop' = IF loop.tries < MaxRetries THEN [loop EXCEPT !.tries = @ + 1]
                                          ELSE [loop EXCEPT !.pc = "done"]
    /\ UNCHANGED <<told, noted, gatewayVars>>

\* The provider refuses, or the model calls no tool.
ModelEnds ==
    /\ loop.pc = "model"
    /\ loop' = [loop EXCEPT !.pc = "done"]
    /\ UNCHANGED <<told, noted, gatewayVars>>

ModelCalls(n) ==
    /\ loop.pc = "model" /\ n =< Len(RequestOf[loop.turn])
    /\ loop' = [loop EXCEPT !.pc = "call", !.tries = 0, !.calls = n, !.index = 1]
    /\ UNCHANGED <<told, noted, gatewayVars>>

\* The next tool call, else the next turn, else the end.
Advanced ==
    IF loop.index < loop.calls THEN [loop EXCEPT !.pc = "call", !.index = @ + 1, !.left = 0]
    ELSE IF LastTurn THEN [loop EXCEPT !.pc = "done", !.left = 0]
    ELSE [loop EXCEPT !.pc = "model", !.turn = @ + 1, !.calls = 0, !.index = 0, !.left = 0]

\* for_model writes the note whenever the answer names an approval.
Noted(approval) == approval

Tell(answer, approval) ==
    /\ told' = [told EXCEPT ![Current] = answer]
    /\ noted' = IF Noted(approval) THEN noted \union {Current} ELSE noted
    /\ loop' = Advanced

\* build_request knows no such tool: nothing is sent.
UnknownTool ==
    /\ loop.pc = "call"
    /\ Tell("DENIED", FALSE)
    /\ UNCHANGED gatewayVars

Submit ==
    /\ loop.pc = "call"
    /\ Post(Current, Payload)
    /\ loop' = [loop EXCEPT !.pc = "sent"]
    /\ UNCHANGED <<told, noted>>

Hear == client' = Quiet /\ UNCHANGED <<request, runs, thread, trouble>>

\* The answer to the first submission.
TakeAnswer ==
    /\ loop.pc = "sent" /\ client.answer # "none"
    /\ IF client.answer = "APPROVAL"
       THEN loop' = [loop EXCEPT !.pc = "wait", !.left = Patience] /\ UNCHANGED <<told, noted>>
       ELSE Tell(client.answer, client.approval)
    /\ Hear

\* _await_approval: the same request again, ...
Poll ==
    /\ loop.pc = "wait" /\ loop.left > 0
    /\ Post(Current, Payload)
    /\ loop' = [loop EXCEPT !.pc = "polled", !.left = Waited(@)]
    /\ UNCHANGED <<told, noted>>

\* ... until the answer is another, an error of the transport included, ...
TakePoll ==
    /\ loop.pc = "polled" /\ client.answer # "none"
    /\ IF StillPending(client.answer)
       THEN loop' = [loop EXCEPT !.pc = "wait"] /\ UNCHANGED <<told, noted>>
       ELSE Tell(client.answer, client.approval)
    /\ Hear

\* ... or the deadline has passed: the first answer, which names the approval.
StopWaiting ==
    /\ loop.pc = "wait" /\ loop.left = 0
    /\ Tell("APPROVAL", TRUE)
    /\ UNCHANGED gatewayVars

LoopStep ==
    \/ ModelFails \/ ModelEnds \/ UnknownTool \/ Submit \/ TakeAnswer
    \/ Poll \/ TakePoll \/ StopWaiting
    \/ \E n \in Index : ModelCalls(n)

-----------------------------------------------------------------------------

\* The agent's part of the state keeps its types.
LoopTypeOK ==
    /\ loop \in [pc : {"off", "model", "call", "sent", "wait", "polled", "done"},
                 turn : 0..MaxTurns, tries : 0..MaxRetries,
                 calls : Index \union {0}, index : Index \union {0}, left : 0..Patience]
    /\ told \in [Requests -> {"none", "RAN", "ALLOW", "APPROVAL", "BLOCK", "DENIED",
                              "FORBIDDEN", "ERROR"}]
    /\ noted \in SUBSET Requests

\* What the model is told of a request is true, then and later: that it ran,
\* once, or that it has not happened, for a human must approve it or it is not
\* permitted; and so is the note, but for the requests of which it is told that
\* they ran (NoteIsTrue).  A thread that the agent no longer waits for does not
\* belie it.
ToldTruly ==
    \A r \in Requests :
        /\ told[r] = "RAN" => runs[r] = 1
        /\ told[r] \in {"APPROVAL", "BLOCK"} => runs[r] = 0
        /\ r \in noted /\ told[r] # "RAN" => runs[r] = 0

\* The note is true: "This has NOT happened. A human must approve it before it
\* can run." (infra/ai-agent/agent.py:112).
NoteIsTrue == \A r \in noted : runs[r] = 0

InCourse(r) == loop.pc \in {"call", "sent", "wait", "polled"} /\ r = Current

\* Where the agent is, and that it has told nothing yet of the calls to come.
PositionInv ==
    /\ loop.pc \notin {"off", "done"} => loop.turn \in 1..MaxTurns
    /\ loop.pc = "model" => loop.index = 0
    /\ loop.pc \in {"call", "sent", "wait", "polled"} =>
           /\ loop.index \in 1..loop.calls
           /\ loop.calls =< Len(RequestOf[loop.turn])
           /\ told[Current] = "none"
    /\ \A i \in 1..MaxTurns : \A j \in DOMAIN RequestOf[i] :
           loop.turn < i \/ (loop.turn = i /\ loop.index < j) => told[RequestOf[i][j]] = "none"

\* What it was told, and is about to be told, agrees with what its requests did.
AnswerInv ==
    /\ loop.pc \in {"sent", "polled"} =>
           IF client.waits # None THEN Serves(client.waits, Current)
           ELSE /\ client.answer # "none"
                /\ client.answer = "RAN" => runs[Current] = 1
                /\ client.answer \in {"APPROVAL", "BLOCK"} => Untouched(Current)
                /\ client.approval => client.answer \in {"RAN", "APPROVAL", "BLOCK"}
    /\ loop.pc \notin {"sent", "polled"} => client = Quiet
    /\ loop.pc \in {"call", "wait"} => Untouched(Current)

ToldInv(r) ==
    /\ told[r] = "none" /\ ~InCourse(r) => Untouched(r)
    /\ told[r] = "RAN" => runs[r] = 1
    /\ told[r] \in {"APPROVAL", "BLOCK"} => Untouched(r)
    /\ r \in noted => told[r] \in {"RAN", "APPROVAL", "BLOCK"}

\* The strengthening of ToldTruly.
LoopInv == PositionInv /\ AnswerInv /\ \A r \in Requests : OnceInv(r) /\ ToldInv(r)
=============================================================================
