--------------------------- MODULE RuntimeDecision ----------------------------
(***************************************************************************)
(* What the gateway decides: the engines for permissions, policies,        *)
(* contracts, workflows and behaviour patterns (engines/), put together by *)
(* authorize_request and _resume_approved_request (engines/enforcement.py),*)
(* over the history of one execution while operators change the rules, and *)
(* the dry run of the same rules (routers/simulate.py).                    *)
(*                                                                         *)
(* A handler is one step here: EvidenceChain shows that the decisions of   *)
(* an execution come out as if made one at a time.  A glob pattern is the  *)
(* set of values it matches, Any for "*" and for a pattern left out.       *)
(***************************************************************************)
EXTENDS Integers, Sequences, FiniteSets

CONSTANTS
    Requests,           \* what the agent may ask
    InitialPermissions, \* the permissions the agent was created with
    MorePermissions,    \* those an operator may add
    Policies,           \* the policies of the organization
    Contracts,          \* the contract versions of the agent
    Patterns,           \* the enabled behaviour patterns
    RequireContract,    \* config.REQUIRE_RUNTIME_CONTRACT
    Any,                \* the pattern every value matches
    None,               \* a field left out; no contract was ever stored
    NoneActive,         \* contracts are stored and none is ACTIVE
    MaxEvents,          \* bound on the events of the execution
    MaxChanges          \* bound on the operators' changes

VARIABLES
    events,       \* the events of the execution, and the approvals they raised
    permissions,  \* the permissions of the agent
    enabled,      \* the policies that are enabled
    contract,     \* the ACTIVE contract
    retired,      \* versions that were ACTIVE and never will be again
    mailbox,      \* the agent may use the tenant's mailbox (services/gmail_access.py)
    signals,      \* rows of behavior_signals: pattern, index of the event
    changes       \* number of changes by operators so far

vars == <<events, permissions, enabled, contract, retired, mailbox, signals, changes>>

-----------------------------------------------------------------------------
(***************************************************************************)
(* Permissions and policies.                                               *)
(***************************************************************************)

Decisions == {"BLOCK", "APPROVAL", "ALLOW"}

\* policy.PRIORITY.
Rank == [BLOCK |-> 0, APPROVAL |-> 1, ALLOW |-> 2]

\* _matches: nothing but Any matches a value that is missing.
Matches(pattern, value) == pattern = Any \/ (value # None /\ value \in pattern)

Covers(p, r) ==
    Matches(p.kind, r.kind) /\ Matches(p.action, r.action) /\ Matches(p.scope, r.scope)

\* permission.allows: a denial outweighs every permission.
Permitted(r) ==
    /\ \E p \in permissions : p.effect = "allow" /\ Covers(p, r)
    /\ ~ \E p \in permissions : p.effect = "deny" /\ Covers(p, r)

MatchedPolicies(r) ==
    {p \in enabled : Covers(p, r) /\ Matches(p.destination, r.destination)}

\* min(matched, key=PRIORITY): the strictest decision wins, whatever the priorities.
Strictest(decisions) ==
    CHOOSE d \in decisions \union {"ALLOW"} : \A e \in decisions : Rank[d] =< Rank[e]

PolicyDecision(r) == Strictest({p.decision : p \in MatchedPolicies(r)})

Baseline(r) == IF Permitted(r) THEN PolicyDecision(r) ELSE "BLOCK"

-----------------------------------------------------------------------------
(***************************************************************************)
(* The clauses of a contract.                                              *)
(***************************************************************************)

CapabilityMatches(cap, r) ==
    /\ cap.actions # None => r.action \in cap.actions
    /\ \/ cap.kind = r.kind /\ cap.actions # None
       \/ cap.kind \in {None, r.kind} /\ cap.name = <<r.kind, r.action>>
       \/ cap.kind = None /\ cap.name = <<r.kind>> /\ cap.actions # None

\* An identifier may name the scope instead of the destination, and then the
\* destination is not looked at.
ResourceMatches(res, r) ==
    /\ res.kind = r.kind /\ Matches(res.scope, r.scope)
    /\ \/ /\ res.identifier # None => r.destination # None /\ Matches(res.identifier, r.destination)
          /\ Matches(res.destination, r.destination)
       \/ /\ res.identifier # None
          /\ ~(r.destination # None /\ Matches(res.identifier, r.destination))
          /\ Matches(res.identifier, r.scope)

\* Faulty variant of WithinConstraints: the limit is compared before counting the request.
LimitOffByOne(c, r, n) == c.verifiable /\ (c.maxCalls # None => n - 1 =< c.maxCalls)

\* n counts the request and every event before it, refused or not.
WithinConstraints(c, r, n) ==
    /\ c.verifiable
    /\ r.destination # None =>
         /\ ~Matches(c.deny, r.destination)
         /\ c.allow # None => Matches(c.allow, r.destination)
    /\ c.maxBytes # None => r.size =< c.maxBytes
    /\ c.maxCalls # None => n =< c.maxCalls

WithinData(c, r) ==
    /\ r.fields \intersect c.deniedFields = {}
    /\ c.allowedFields # None => r.fields \subseteq c.allowedFields

HasSelector(s) == s.kind # None \/ s.action # None

StepMatches(s, r) ==
    /\ HasSelector(s)
    /\ s.kind \in {None, r.kind} /\ s.action \in {None, r.action}
    /\ Matches(s.scope, r.scope) /\ Matches(s.destination, r.destination)

\* Faulty variant of FollowsWorkflow: any step may come first.
StartsAnywhere(w, requests) ==
    LET matching(i) == {s \in DOMAIN w.steps : StepMatches(w.steps[s], requests[i])}
        possible[i \in 1..Len(requests)] ==
            IF i = 1 THEN matching(i)
            ELSE {t \in matching(i) : \E s \in possible[i - 1] : <<s, t>> \in w.transitions}
    IN possible[Len(requests)] # {}

\* possible[i]: the steps the workflow may be in after the first i requests.
FollowsWorkflow(w, requests) ==
    LET matching(i) == {s \in DOMAIN w.steps : StepMatches(w.steps[s], requests[i])}
        possible[i \in 1..Len(requests)] ==
            IF i = 1 THEN matching(i) \intersect w.initial
            ELSE {t \in matching(i) : \E s \in possible[i - 1] : <<s, t>> \in w.transitions}
    IN possible[Len(requests)] # {}

\* Faulty variant of WorkflowAllows: looks at the latest step only.
LatestStepOnly(c, authorized, r) ==
    c.workflow # None =>
        \E t \in DOMAIN c.workflow.steps :
            /\ StepMatches(c.workflow.steps[t], r)
            /\ authorized = <<>> => t \in c.workflow.initial
            /\ authorized # <<>> =>
                 \E s \in DOMAIN c.workflow.steps :
                     /\ StepMatches(c.workflow.steps[s], authorized[Len(authorized)])
                     /\ <<s, t>> \in c.workflow.transitions

WorkflowAllows(c, authorized, r) ==
    c.workflow # None =>
        /\ \A s \in DOMAIN c.workflow.steps : HasSelector(c.workflow.steps[s])
        /\ FollowsWorkflow(c.workflow, Append(authorized, r))

\* requires_human: a rule without selector matches nothing.
RequiresHuman(c, r) ==
    \E rule \in c.rules :
        /\ HasSelector(rule)
        /\ rule.kind \in {None, r.kind} /\ rule.action \in {None, r.action}
        /\ rule.decision \in {None, "APPROVAL"}

\* authorized_trajectory, after each event: the requests of those that were allowed.
Trajectory(history) ==
    LET upTo[i \in 0..Len(history)] ==
            IF i = 0 THEN <<>>
            ELSE IF history[i].decision = "ALLOW" THEN Append(upTo[i - 1], history[i].request)
            ELSE upTo[i - 1]
    IN upTo

Authorized(history) == Trajectory(history)[Len(history)]

WithinContract(c, r, history) ==
    /\ \E cap \in c.capabilities : CapabilityMatches(cap, r)
    /\ \E res \in c.resources : ResourceMatches(res, r)
    /\ WithinConstraints(c, r, Len(history) + 1)
    /\ WithinData(c, r)
    /\ WorkflowAllows(c, Authorized(history), r)

\* validate_runtime_contract: what create_contract accepts.
ValidWorkflow(w) ==
    /\ DOMAIN w.steps # {}
    /\ w.initial # {} /\ w.initial \subseteq DOMAIN w.steps
    /\ w.terminal # {} /\ w.terminal \subseteq DOMAIN w.steps
    /\ w.transitions \subseteq (DOMAIN w.steps) \X (DOMAIN w.steps)

ValidContract(c) ==
    /\ c.version \in Nat \ {0}
    /\ c.maxBytes = None \/ c.maxBytes \in Nat \ {0}
    /\ c.maxCalls = None \/ c.maxCalls \in Nat \ {0}
    /\ c.workflow = None \/ ValidWorkflow(c.workflow)

-----------------------------------------------------------------------------
(***************************************************************************)
(* Behaviour patterns.                                                     *)
(***************************************************************************)

\* _step_matches.
PatternStepMatches(s, r) ==
    /\ Matches(s.kind, r.kind) /\ Matches(s.action, r.action)
    /\ Matches(s.scope, r.scope) /\ Matches(s.destination, r.destination)

\* Faulty variant of MatchSequence: the steps must be adjacent.
AdjacentSteps(p, requests) ==
    \E i \in 0..(Len(requests) - Len(p.steps)) :
        \A k \in DOMAIN p.steps : PatternStepMatches(p.steps[k], requests[i + k])

\* after[k]: where the search for the first k steps ended, past the end if it failed.
MatchSequence(p, requests) ==
    LET n == Len(requests)
        hits(k, from) == {j \in from..n : PatternStepMatches(p.steps[k], requests[j])} \union {n + 1}
        after[k \in 0..Len(p.steps)] ==
            IF k = 0 THEN 0
            ELSE CHOOSE j \in hits(k, after[k - 1] + 1) :
                     \A h \in hits(k, after[k - 1] + 1) : j =< h
    IN after[Len(p.steps)] =< n

MatchThreshold(p, requests) ==
    LET n == Len(requests)
        first == IF p.window = None \/ p.window > n THEN 1 ELSE n - p.window + 1
    IN Cardinality({j \in first..n : PatternStepMatches(p.steps[1], requests[j])}) >= p.count

PatternMatches(p, requests) ==
    IF p.type = "SEQUENCE" THEN MatchSequence(p, requests) ELSE MatchThreshold(p, requests)

\* validate_definition.
ValidPattern(p) ==
    /\ DOMAIN p.steps = 1..Len(p.steps) /\ Len(p.steps) \in Nat
    /\ \A k \in DOMAIN p.steps : p.steps[k].kind # Any \/ p.steps[k].action # Any
    /\ IF p.type = "SEQUENCE" THEN Len(p.steps) \in 2..20
       ELSE /\ Len(p.steps) = 1 /\ p.count \in Nat \ {0}
            /\ p.window = None \/ p.window \in Nat \ {0}

-----------------------------------------------------------------------------
(***************************************************************************)
(* Decisions.                                                              *)
(***************************************************************************)

ASSUME ConstantsAssumption ==
    /\ RequireContract \in BOOLEAN /\ MaxEvents \in Nat /\ MaxChanges \in Nat
    /\ {None, NoneActive} \intersect Contracts = {} /\ None # NoneActive
    /\ \A p \in Policies : p.decision \in Decisions

ASSUME ValidAssumption ==
    (\A c \in Contracts : ValidContract(c)) /\ (\A p \in Patterns : ValidPattern(p))

\* The contract part of authorize_request, after the permissions and policies
\* have given a baseline.
Decision(r, history) ==
    CASE contract = None ->
             IF r.claims # None \/ RequireContract THEN "BLOCK" ELSE Baseline(r)
      [] contract = NoneActive -> "BLOCK"
      [] OTHER ->
             IF r.claims \notin {None, contract.id} \/ ~WithinContract(contract, r, history)
             THEN "BLOCK"
             ELSE IF Baseline(r) = "ALLOW" /\ RequiresHuman(contract, r) THEN "APPROVAL"
             ELSE Baseline(r)

\* The gateway withdraws a decision for a mailbox that the agent may not use.
Gated(r, decision) ==
    IF r.kind = "gmail" /\ ~mailbox THEN "BLOCK" ELSE decision

\* The approval that is queued with a decision, and denied again with it.
GrantFor(decision, gated) ==
    IF gated = "APPROVAL" THEN "pending" ELSE IF decision = "APPROVAL" THEN "denied" ELSE "none"

\* Faulty variant of Simulated: without the mailbox, as before Phase 19.1.
SimulatedUngated(r) == Decision(r, <<>>)

\* simulate: the same rules without history and without a declared contract.
Simulated(r) ==
    LET withContract ==
            CASE contract = None -> IF RequireContract THEN "BLOCK" ELSE Baseline(r)
              [] contract = NoneActive -> "BLOCK"
              [] OTHER ->
                     IF ~WithinContract(contract, r, <<>>) THEN "BLOCK"
                     ELSE IF Baseline(r) = "ALLOW" /\ RequiresHuman(contract, r) THEN "APPROVAL"
                     ELSE Baseline(r)
    IN Gated(r, withContract)

\* What resolve_active_contract_for_agent returns, None when it raises.
Resolved == IF contract \in Contracts THEN contract ELSE None

RequestsOf(history) == [i \in DOMAIN history |-> history[i].request]

\* persist_signals: one row per pattern and execution.
NewSignals(requests) ==
    {<<p, Len(requests)>> : p \in {q \in Patterns :
        PatternMatches(q, requests) /\ ~ \E s \in signals : s[1] = q}}

\* Faulty variant of Grants: a consumed approval still counts.
GrantsAgain(i) == events[i].grant \in {"approved", "consumed"} /\ events[i].contract = Resolved

\* evaluate_grant: approved, not consumed, and bound to the contract in force.
Grants(i) ==
    /\ events[i].grant = "approved"
    /\ events[i].contract = Resolved

Redeemable(i) == Grants(i) /\ (Resolved = None => ~RequireContract)

-----------------------------------------------------------------------------

Init ==
    /\ events = <<>>
    /\ permissions = InitialPermissions
    /\ enabled \in SUBSET Policies
    /\ contract \in Contracts \union {None, NoneActive}
    /\ retired = {}
    /\ mailbox \in BOOLEAN
    /\ signals = {}
    /\ changes = 0

\* A new request at the gateway: decided, recorded, gated.
Submit(r) ==
    LET decision == Decision(r, events)
        event == [request |-> r, decision |-> Gated(r, decision), contract |-> Resolved,
                  origin |-> Len(events) + 1, grant |-> GrantFor(decision, Gated(r, decision))]
    IN /\ Len(events) < MaxEvents
       /\ events' = Append(events, event)
       /\ signals' = signals \union NewSignals(Append(RequestsOf(events), r))
       /\ UNCHANGED <<permissions, enabled, contract, retired, mailbox, changes>>

\* decide (routers/approvals.py).
Decide(i) ==
    /\ events[i].grant = "pending"
    /\ \E verdict \in {"approved", "denied"} : events' = [events EXCEPT ![i].grant = verdict]
    /\ UNCHANGED <<permissions, enabled, contract, retired, mailbox, signals, changes>>

\* An approved request is sent again: _resume_approved_request consumes the grant
\* and appends an event of its own.
Redeem(i) ==
    LET event == [request |-> events[i].request, decision |-> Gated(events[i].request, "ALLOW"),
                  contract |-> Resolved, origin |-> i, grant |-> "none"]
    IN /\ Len(events) < MaxEvents
       /\ Redeemable(i)
       /\ events' = Append([events EXCEPT ![i].grant = "consumed"], event)
       /\ UNCHANGED <<permissions, enabled, contract, retired, mailbox, signals, changes>>

\* Operators: add_permission, toggle_policy, the contract's transitions, the mailbox.
Change ==
    changes < MaxChanges /\ changes' = changes + 1 /\ UNCHANGED <<events, signals>>

AddPermission(p) ==
    /\ p \notin permissions /\ permissions' = permissions \union {p}
    /\ Change /\ UNCHANGED <<enabled, contract, retired, mailbox>>

TogglePolicy(p) ==
    /\ enabled' = IF p \in enabled THEN enabled \ {p} ELSE enabled \union {p}
    /\ Change /\ UNCHANGED <<permissions, contract, retired, mailbox>>

ActivateContract(c) ==
    /\ c \notin retired \union {contract} /\ contract' = c
    /\ retired' = retired \union ({contract} \intersect Contracts)
    /\ Change /\ UNCHANGED <<permissions, enabled, mailbox>>

RetireContract ==
    /\ contract \in Contracts /\ contract' = NoneActive
    /\ retired' = retired \union {contract}
    /\ Change /\ UNCHANGED <<permissions, enabled, mailbox>>

ToggleMailbox ==
    /\ mailbox' = ~mailbox
    /\ Change /\ UNCHANGED <<permissions, enabled, contract, retired>>

Next ==
    \/ \E r \in Requests : Submit(r)
    \/ \E i \in DOMAIN events : Decide(i) \/ Redeem(i)
    \/ \E p \in MorePermissions : AddPermission(p)
    \/ \E p \in Policies : TogglePolicy(p)
    \/ \E c \in Contracts : ActivateContract(c)
    \/ RetireContract
    \/ ToggleMailbox

Spec == Init /\ [][Next]_vars

-----------------------------------------------------------------------------
(***************************************************************************)
(* Properties.                                                             *)
(***************************************************************************)

Grantings == {"none", "pending", "approved", "denied", "consumed"}

EventType ==
    [request : Requests, decision : Decisions, contract : Contracts \union {None},
     origin : Nat, grant : Grantings]

\* Every variable has its type.
TypeOK ==
    /\ events \in Seq(EventType)
    /\ Len(events) =< MaxEvents
    /\ permissions \subseteq InitialPermissions \union MorePermissions
    /\ enabled \subseteq Policies
    /\ contract \in Contracts \union {None, NoneActive}
    /\ retired \subseteq Contracts
    /\ mailbox \in BOOLEAN
    /\ signals \subseteq Patterns \X (1..MaxEvents)
    /\ changes \in 0..MaxChanges

Allowed == {i \in DOMAIN events : events[i].decision = "ALLOW"}

\* A contract never lets more requests run than its max_calls, although a resumed
\* request is not counted again when it runs (_evaluate_constraints,
\* _resume_approved_request).
WithinLimit ==
    \A c \in Contracts :
        c.maxCalls # None =>
            Cardinality({i \in Allowed : events[i].contract = c}) =< c.maxCalls

\* A path through the workflow that the requests take, one step each.
IsPath(w, requests) ==
    \E path \in [DOMAIN requests -> DOMAIN w.steps] :
        /\ \A i \in DOMAIN requests : StepMatches(w.steps[path[i]], requests[i])
        /\ requests # <<>> => path[1] \in w.initial
        /\ \A i \in DOMAIN requests :
               i > 1 => <<path[i - 1], path[i]>> \in w.transitions

\* What runs under a contract with a workflow follows it, as long as the
\* contract stays and nothing is resumed (_evaluate_workflow).
FollowsItsWorkflow ==
    (/\ contract \in Contracts /\ contract.workflow # None
     /\ \A i \in Allowed : events[i].contract = contract /\ events[i].origin = i)
        => IsPath(contract.workflow, Authorized(events))

\* An execution that has left its workflow, which a resumed request or a change
\* of contract can bring about, gets nothing more decided than BLOCK.
OffWorkflowIsBlocked ==
    (/\ contract \in Contracts /\ contract.workflow # None
     /\ ~IsPath(contract.workflow, Authorized(events)))
        => \A r \in Requests : Decision(r, events) = "BLOCK"

\* What the dry run answers is what a new execution would get, and without a
\* workflow no execution gets more (simulate, which says that it uses the very
\* engines of the gateway and leaves out only what depends on history).
SimulationAgrees ==
    \A r \in Requests :
        r.claims = None =>
            /\ Simulated(r) = Gated(r, Decision(r, <<>>))
            /\ (contract \in Contracts => contract.workflow = None)
                 => Rank[Gated(r, Decision(r, events))] =< Rank[Simulated(r)]

\* A sequence pattern matches when its steps occur in this order, others in between.
Occurs(p, requests) ==
    IF p.type = "SEQUENCE"
    THEN \E at \in [DOMAIN p.steps -> DOMAIN requests] :
            /\ \A k \in DOMAIN p.steps : PatternStepMatches(p.steps[k], requests[at[k]])
            /\ \A k, l \in DOMAIN p.steps : k < l => at[k] < at[l]
    ELSE \E hits \in SUBSET DOMAIN requests :
            /\ Cardinality(hits) >= p.count
            /\ \A j \in hits : PatternStepMatches(p.steps[1], requests[j])
            /\ p.window # None => \A j \in hits : j + p.window > Len(requests)

\* A pattern raises one signal in an execution, at the first new request by which
\* it occurs (evaluate, persist_signals).
OneSignalPerPattern ==
    LET occursAt(p) == {i \in DOMAIN events :
            events[i].origin = i /\ Occurs(p, SubSeq(RequestsOf(events), 1, i))}
    IN signals = {s \in Patterns \X DOMAIN events :
                    s[2] \in occursAt(s[1]) /\ \A i \in occursAt(s[1]) : s[2] =< i}

\* Event i runs, or may be made to run, within the limit of its contract.
LimitedInv(i) ==
    (/\ events[i].decision # "BLOCK" /\ events[i].contract # None
     /\ events[i].contract.maxCalls # None)
        => events[i].origin =< events[i].contract.maxCalls

\* Only a decision of its own raises an approval, and what is resumed consumed one.
OriginInv(i) ==
    /\ events[i].origin \in 1..i
    /\ events[i].grant \in {"pending", "approved", "consumed"}
         => events[i].decision = "APPROVAL" /\ events[i].origin = i
    /\ events[i].origin # i => events[events[i].origin].grant = "consumed"

ResumedOnce ==
    \A i, j \in DOMAIN events :
        (events[i].origin = events[j].origin /\ i # j)
            => i = events[i].origin \/ j = events[j].origin

\* A grant lets one request run: what is resumed consumed the grant of its origin and
\* shares it with no other, and an approval waits, stands or was spent only with a
\* decision that asked for one (_resume_approved_request; gateway.py:176-195).
OneRunPerGrant == ResumedOnce /\ \A i \in DOMAIN events : OriginInv(i)

\* The strengthening of WithinLimit: every event that runs has a decision of its own
\* behind it, made while the contract's limit was not reached.
IInv ==
    TypeOK /\ ResumedOnce /\ \A i \in DOMAIN events : LimitedInv(i) /\ OriginInv(i)

\* What a contract with a workflow let run continued a path of that workflow.
FollowedInv(i) ==
    (/\ events[i].decision = "ALLOW" /\ events[i].origin = i
     /\ events[i].contract # None /\ events[i].contract.workflow # None)
        => IsPath(events[i].contract.workflow, Trajectory(events)[i])

\* The strengthening of FollowsItsWorkflow and OneSignalPerPattern.
HistoryInv == OneSignalPerPattern /\ \A i \in DOMAIN events : FollowedInv(i)

=============================================================================
