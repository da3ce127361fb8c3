------------------------------- MODULE Dispatch -------------------------------
(***************************************************************************)
(* From an ALLOW decision to the protected tool: the gateway re-checks the *)
(* contract, signs an execution authorization token (eat.py) and posts it  *)
(* to the credential broker, which verifies it, consumes it once           *)
(* (replay.py) and calls the tool (routers/gateway.py, remote.py,          *)
(* routers/broker.py).  Each hop is an HTTP call with a timeout, so the    *)
(* caller may be gone when the work is done.                               *)
(*                                                                         *)
(* The clocks of the containers agree (they share a host).                 *)
(***************************************************************************)
EXTENDS Integers

CONSTANTS
    Requests,    \* request ids, each decided once
    Deliveries,  \* calls that reach the broker
    TTL,         \* config.EAT_TTL_SECONDS
    MaxTime,     \* bound: the last instant of the clock
    MaxRestarts, \* bound: how often the broker restarts
    None         \* no request, or no token

ASSUME ConstantsAssumption ==
    /\ TTL \in Nat \ {0} /\ MaxTime \in Nat /\ MaxRestarts \in Nat
    /\ None \notin Requests /\ None \notin Nat

VARIABLES
    now,       \* the clock
    contract,  \* the agent's contract: its status and its window
    gate,      \* gate[r]: the gateway's handler of request r, and its event
    token,     \* token[r]: when r's token was signed, or None
    delivery,  \* delivery[d]: the broker's handler of one call
    seen,      \* seen[r]: the expiry ReplayStore keeps for r's token, 0 if none
    restarts,  \* how often the broker process has been restarted
    rows       \* rows[r]: result_status of r's connector_calls rows

vars == <<now, contract, gate, token, delivery, seen, restarts, rows>>

\* Faulty variants, each a plausible slip in the definition it is named after.
PurgedEarly(r) == IF seen[r] <= now + 1 THEN 0 ELSE seen[r]
StaleToo(r) == TRUE
NeverGivesUp(r) == FALSE
DispatchAnyway(r) == TRUE
AnyAnswerIsOk(pc) == IF pc = "checked" THEN "not_executed" ELSE "ok"

InWindow == contract.from <= now /\ now < contract.until

Exp(r) == token[r] + TTL

\* assert_contract_current_for_dispatch; a run without a contract is not checked.
CurrentForDispatch(r) == gate[r].bound => contract.status = "ACTIVE" /\ InWindow

\* Only what is ALLOW after the checks goes to the broker.
Dispatchable(r) == gate[r].decision = "ALLOW"

\* What connector_evidence.record writes of a dispatch that was answered with
\* success, one that was not, and a request that was not dispatched.
ResultStatus(pc) == CASE pc = "ok"     -> "ok"
                      [] pc = "failed" -> "error"
                      [] OTHER         -> "not_executed"

\* The gateway stops waiting for the broker when REMOTE_TIMEOUT_SECONDS are over.
MayTimeOut(r) == gate[r].pc = "sent"

\* verify_eat and _enforce_contract_currency, which trusts the signed status.
Valid(r) == token[r] <= now /\ now < Exp(r) /\ (gate[r].bound => InWindow)

\* ReplayStore._purge.
Purged(r) == IF seen[r] <= now THEN 0 ELSE seen[r]

\* The broker's response, if the gateway is still waiting for it.
Responded(d, outcome) ==
    [gate EXCEPT ![delivery[d].req] =
        IF delivery[d].own /\ @.pc = "sent" THEN [@ EXCEPT !.pc = outcome] ELSE @]

-----------------------------------------------------------------------------

NewGate == [pc |-> "idle", decision |-> "none", bound |-> FALSE]

NewDelivery == [pc |-> "none", req |-> None, own |-> FALSE, used |-> FALSE, ran |-> FALSE]

Init ==
    /\ now = 0
    /\ contract \in [status : {"ACTIVE"}, from : {0}, until : 1..(MaxTime + 1)]
    /\ gate = [r \in Requests |-> NewGate]
    /\ token = [r \in Requests |-> None]
    /\ delivery = [d \in Deliveries |-> NewDelivery]
    /\ seen = [r \in Requests |-> 0]
    /\ restarts = 0
    /\ rows = [r \in Requests |-> {}]

Tick ==
    /\ now < MaxTime
    /\ now' = now + 1
    /\ UNCHANGED <<contract, gate, token, delivery, seen, restarts, rows>>

\* transition_contract_status, on the control plane.
Revoke ==
    /\ contract.status = "ACTIVE"
    /\ contract' = [contract EXCEPT !.status = "REVOKED"]
    /\ UNCHANGED <<now, gate, token, delivery, seen, restarts, rows>>

(***************************************************************************)
(* The gateway's handler, invoke_tool.                                     *)
(***************************************************************************)

GateStep(r, pc, decision) ==
    /\ gate' = [gate EXCEPT ![r].pc = pc, ![r].decision = decision]
    /\ UNCHANGED <<now, contract, delivery, seen, restarts>>

\* authorize_request sealed ALLOW, with or without a contract behind it.
Allow(r, bound) ==
    /\ gate[r].pc = "idle"
    /\ bound => contract.status = "ACTIVE" /\ InWindow
    /\ gate' = [gate EXCEPT ![r] = [pc |-> "allowed", decision |-> "ALLOW",
                                    bound |-> bound]]
    /\ UNCHANGED <<now, contract, token, delivery, seen, restarts, rows>>

\* It sealed BLOCK, or APPROVAL, which dispatches nothing either.
Refuse(r) ==
    /\ gate[r].pc = "idle"
    /\ GateStep(r, "checked", "BLOCK")
    /\ UNCHANGED <<token, rows>>

Recheck(r) ==
    /\ gate[r].pc = "allowed"
    /\ GateStep(r, "checked", IF CurrentForDispatch(r) THEN "ALLOW" ELSE "BLOCK")
    /\ UNCHANGED <<token, rows>>

\* sign_eat and the POST to the broker.
Sign(r) ==
    /\ gate[r].pc = "checked" /\ Dispatchable(r)
    /\ token' = [token EXCEPT ![r] = now]
    /\ GateStep(r, "sent", gate[r].decision)
    /\ UNCHANGED rows

\* No answer in time, or no connection: HTTP 503.
TimeOut(r) ==
    /\ MayTimeOut(r)
    /\ GateStep(r, "failed", gate[r].decision)
    /\ UNCHANGED <<token, rows>>

\* connector_evidence.record, from what this handler saw of the dispatch.
Record(r) ==
    /\ \/ gate[r].pc \in {"ok", "failed"}
       \/ gate[r].pc = "checked" /\ ~Dispatchable(r)
    /\ rows' = [rows EXCEPT ![r] = @ \union {ResultStatus(gate[r].pc)}]
    /\ GateStep(r, "done", gate[r].decision)
    /\ UNCHANGED token

\* The process dies, or the database refuses the row.
Crash(r) ==
    /\ gate[r].pc \notin {"idle", "done", "lost"}
    /\ GateStep(r, "lost", gate[r].decision)
    /\ UNCHANGED <<token, rows>>

\* The agent sends the request again: its event is replayed, nothing dispatched.
Retry(r) ==
    /\ gate[r].decision # "none"
    /\ rows' = [rows EXCEPT ![r] = @ \union {"not_executed"}]
    /\ UNCHANGED <<now, contract, gate, token, delivery, seen, restarts>>

(***************************************************************************)
(* The broker's handler, execute.                                          *)
(***************************************************************************)

Handle(d, from, to) ==
    /\ delivery[d].pc = from
    /\ delivery' = [delivery EXCEPT ![d].pc = to]
    /\ UNCHANGED <<now, contract, token, restarts, rows>>

\* A call with r's token arrives: the gateway's own, or the same call again.
Deliver(d, r, own) ==
    /\ delivery[d].pc = "none" /\ token[r] # None
    /\ own => \A e \in Deliveries : ~(delivery[e].own /\ delivery[e].req = r)
    /\ delivery' = [delivery EXCEPT ![d] =
                      [NewDelivery EXCEPT !.pc = "received", !.req = r, !.own = own]]
    /\ UNCHANGED <<now, contract, gate, token, seen, restarts, rows>>

Verify(d) ==
    /\ Handle(d, "received", "verified")
    /\ Valid(delivery[d].req)
    /\ UNCHANGED <<gate, seen>>

\* HTTP 401.
Reject(d) ==
    /\ Handle(d, "received", "over")
    /\ ~Valid(delivery[d].req)
    /\ gate' = Responded(d, "failed")
    /\ UNCHANGED seen

\* ReplayStore.consume, under its lock: one clock reading for all tokens.
Consume(d) ==
    LET r == delivery[d].req
        purged == [q \in Requests |-> Purged(q)]
    IN  /\ delivery[d].pc = "verified"
        /\ IF purged[r] = 0
           THEN /\ seen' = [purged EXCEPT ![r] = Exp(r)]
                /\ delivery' = [delivery EXCEPT ![d].pc = "consumed", ![d].used = TRUE]
                /\ UNCHANGED gate
           ELSE /\ seen' = purged
                /\ delivery' = [delivery EXCEPT ![d].pc = "over"]
                /\ gate' = Responded(d, "failed")
        /\ UNCHANGED <<now, contract, token, restarts, rows>>

\* broker.issue, then the POST to the tool.
CallTool(d) ==
    /\ Handle(d, "consumed", "calling")
    /\ UNCHANGED <<gate, seen>>

\* The connector takes effect, whether or not anyone is still waiting.
ToolRuns(d) ==
    /\ delivery[d].pc \in {"calling", "orphan"} /\ ~delivery[d].ran
    /\ delivery' = [delivery EXCEPT ![d].ran = TRUE]
    /\ UNCHANGED <<now, contract, gate, token, seen, restarts, rows>>

ToolAnswers(d) ==
    /\ delivery[d].ran
    /\ Handle(d, "calling", "over")
    /\ gate' = Responded(d, "ok")
    /\ UNCHANGED seen

\* The tool refuses, or fails after taking effect (HTTP 502).
ToolFails(d) ==
    /\ Handle(d, "calling", "over")
    /\ gate' = Responded(d, "failed")
    /\ UNCHANGED seen

\* The broker stops waiting for the tool (HTTP 503).
BrokerTimesOut(d) ==
    /\ Handle(d, "calling", "orphan")
    /\ gate' = Responded(d, "failed")
    /\ UNCHANGED seen

\* The broker's process is restarted; the gateway's connections time out or drop.
Restart ==
    /\ restarts < MaxRestarts
    /\ restarts' = restarts + 1
    /\ seen' = [r \in Requests |-> 0]
    /\ delivery' = [d \in Deliveries |->
          [delivery[d] EXCEPT !.pc = CASE @ = "calling" -> "orphan"
                                       [] @ \in {"received", "verified", "consumed"} -> "over"
                                       [] OTHER -> @]]
    /\ UNCHANGED <<now, contract, gate, token, rows>>

-----------------------------------------------------------------------------

Gateway(r) == \/ \E bound \in BOOLEAN : Allow(r, bound)
              \/ Refuse(r) \/ Recheck(r) \/ Sign(r) \/ TimeOut(r) \/ Record(r)
              \/ Crash(r) \/ Retry(r)

Broker(d) == \/ \E r \in Requests, own \in BOOLEAN : Deliver(d, r, own)
             \/ Verify(d) \/ Reject(d) \/ Consume(d) \/ CallTool(d) \/ ToolRuns(d)
             \/ ToolAnswers(d) \/ ToolFails(d) \/ BrokerTimesOut(d)

Next == \/ Tick \/ Revoke \/ Restart
        \/ \E r \in Requests : Gateway(r)
        \/ \E d \in Deliveries : Broker(d)

Spec == Init /\ [][Next]_vars

\* The gateway's threads run, and httpx gives up waiting: no answer is waited
\* for beyond REMOTE_TIMEOUT_SECONDS.
FairSpec ==
    /\ Spec
    /\ \A r \in Requests : /\ WF_vars(Recheck(r)) /\ WF_vars(Sign(r))
                           /\ WF_vars(TimeOut(r)) /\ WF_vars(Record(r))

-----------------------------------------------------------------------------

ContractType == [status : {"ACTIVE", "REVOKED"}, from : Nat, until : Nat]

GateType == [pc : {"idle", "allowed", "checked", "sent", "ok", "failed", "done",
                   "lost"},
             decision : {"none", "ALLOW", "BLOCK"},
             bound : BOOLEAN]

DeliveryType == [pc : {"none", "received", "verified", "consumed", "calling",
                       "orphan", "over"},
                 req : Requests \union {None},
                 own : BOOLEAN, used : BOOLEAN, ran : BOOLEAN]

\* Every variable keeps its type.
TypeOK ==
    /\ now \in Nat /\ restarts \in Nat
    /\ contract \in ContractType
    /\ gate \in [Requests -> GateType]
    /\ token \in [Requests -> Nat \union {None}]
    /\ delivery \in [Deliveries -> DeliveryType]
    /\ seen \in [Requests -> Nat]
    /\ rows \in [Requests -> SUBSET {"ok", "error", "not_executed"}]

\* As long as the broker runs, no two calls consume one token before it expires,
\* though each call verifies it before it consumes it (replay.py:10-18).
UsedOnceUntilExpiry ==
    \A d, e \in Deliveries :
        (d # e /\ delivery[d].used /\ delivery[e].used /\ delivery[d].req = delivery[e].req)
            => restarts > 0 \/ now >= Exp(delivery[d].req)

\* A row that says a connector ran is true: the tool took effect for the call the
\* gateway made itself (routers/gateway.py:248, connector_evidence.py:72-95).
ExecutedMeansRan ==
    \A r \in Requests : "ok" \in rows[r] =>
        \E d \in Deliveries : delivery[d].req = r /\ delivery[d].own /\ delivery[d].ran

\* Whatever runs was allowed, and its event stays ALLOW: no later re-check or
\* retry of the request takes the decision back (routers/gateway.py:200-221).
RunsAreAllowed ==
    \A d \in Deliveries : delivery[d].ran => gate[delivery[d].req].decision = "ALLOW"

\* A request whose contract is revoked before its dispatch check never reaches
\* the tool, whatever is retried or delivered later (contract_store.py:258-284).
RevokedNeverRuns ==
    \A r \in Requests :
        []((gate[r].pc = "allowed" /\ gate[r].bound /\ contract.status = "REVOKED")
             => [](\A d \in Deliveries : delivery[d].req = r => ~delivery[d].ran))

\* Every handler that waits for the broker stops waiting, and its request ends
\* (config.REMOTE_TIMEOUT_SECONDS).
DispatchEnds ==
    \A r \in Requests : gate[r].pc = "allowed" ~> gate[r].pc \in {"done", "lost"}

(***************************************************************************)
(* The inductive strengthening the proofs use.                             *)
(***************************************************************************)

\* A token is signed once, for an allowed request, and never signed again.
TokensInv ==
    \A r \in Requests : token[r] # None =>
        /\ gate[r].pc \in {"sent", "ok", "failed", "done", "lost"}
        /\ gate[r].decision = "ALLOW"

\* What reaches the broker bears a token; only a call that reached the tool runs.
DeliveriesInv ==
    \A d \in Deliveries :
        /\ delivery[d].pc # "none" =>
              delivery[d].req \in Requests /\ token[delivery[d].req] # None
        /\ delivery[d].pc = "none" => ~delivery[d].used /\ ~delivery[d].ran

\* A consumed token stays in the store until it expires.
SeenInv ==
    \A d \in Deliveries :
        (delivery[d].used /\ restarts = 0 /\ now < Exp(delivery[d].req))
            => seen[delivery[d].req] = Exp(delivery[d].req)

AnsweredInv ==
    \A r \in Requests : gate[r].pc = "ok" =>
        \E d \in Deliveries : delivery[d].req = r /\ delivery[d].own /\ delivery[d].ran

IInv == /\ TypeOK /\ TokensInv /\ DeliveriesInv /\ SeenInv /\ AnsweredInv
        /\ ExecutedMeansRan /\ UsedOnceUntilExpiry
=============================================================================
