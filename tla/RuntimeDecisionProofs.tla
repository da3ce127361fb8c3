------------------------ MODULE RuntimeDecisionProofs -------------------------
(***************************************************************************)
(* For any requests, rules, contracts and histories:                       *)
(*                                                                         *)
(* no contract lets more requests run than its max_calls.  A resumed       *)
(* request runs without being counted, so the proof follows each event     *)
(* that runs back to the decision behind it: those decisions differ, and   *)
(* each had its place within the limit (IInv);                             *)
(*                                                                         *)
(* what runs under a workflow follows it, and a pattern raises one signal, *)
(* when it first occurs (HistoryInv).  That needs what the engines'        *)
(* searches over a history compute, which is by induction on its length:   *)
(* SetInduction is induction over the naturals in the form of a set, and   *)
(* StepwiseFunction says that a function defined step by step along an     *)
(* interval exists and is what its definition says.                        *)
(***************************************************************************)
EXTENDS RuntimeDecision, FiniteSetTheorems, TLAPS

USE ConstantsAssumption

\* The strictest of some decisions is a decision.
LEMMA StrictestType ==
  ASSUME NEW D \in SUBSET Decisions PROVE Strictest(D) \in Decisions
<1> DEFINE S == D \union {"ALLOW"}
           P(d) == \A e \in D : Rank[d] =< Rank[e]
<1>1. \E d \in S : P(d)
  <2>1. CASE "BLOCK" \in D
    BY <2>1 DEF Decisions, Rank
  <2>2. CASE "BLOCK" \notin D /\ "APPROVAL" \in D
    BY <2>2 DEF Decisions, Rank
  <2>3. CASE D \subseteq {"ALLOW"}
    BY <2>3 DEF Decisions, Rank
  <2> QED BY <2>1, <2>2, <2>3 DEF Decisions
<1>2. Strictest(D) = CHOOSE d \in S : P(d)
  BY DEF Strictest
<1>3. Strictest(D) \in S
  BY <1>1, <1>2
<1> QED BY <1>3 DEF Decisions

\* What the permissions and policies decide is a decision.
LEMMA BaselineType ==
  ASSUME TypeOK, NEW r PROVE Baseline(r) \in Decisions
<1>1. {p.decision : p \in MatchedPolicies(r)} \in SUBSET Decisions
  BY DEF MatchedPolicies, TypeOK
<1>2. PolicyDecision(r) \in Decisions
  BY <1>1, StrictestType DEF PolicyDecision
<1> QED BY <1>2 DEF Baseline, Decisions

\* What authorize_request decides is a decision, and not to block means that the
\* contract had room for one more event.
LEMMA DecisionFacts ==
  ASSUME TypeOK, NEW r
  PROVE  /\ Decision(r, events) \in Decisions
         /\ (/\ Decision(r, events) # "BLOCK" /\ contract \in Contracts
             /\ contract.maxCalls # None)
                => Len(events) + 1 =< contract.maxCalls
<1>0. Baseline(r) \in Decisions
  BY BaselineType
<1>1. CASE contract = None
  BY <1>0, <1>1 DEF Decision, Decisions
<1>2. CASE contract = NoneActive
  BY <1>2 DEF Decision, Decisions
<1>3. CASE contract \notin {None, NoneActive}
  <2> DEFINE refused == r.claims \notin {None, contract.id} \/ ~WithinContract(contract, r, events)
  <2>1. Decision(r, events) =
          IF refused THEN "BLOCK"
          ELSE IF Baseline(r) = "ALLOW" /\ RequiresHuman(contract, r) THEN "APPROVAL"
          ELSE Baseline(r)
    BY <1>3 DEF Decision
  <2>2. Decision(r, events) \in Decisions
    BY <1>0, <2>1 DEF Decisions
  <2>3. Decision(r, events) # "BLOCK" => WithinContract(contract, r, events)
    BY <2>1
  <2>4. WithinContract(contract, r, events) /\ contract.maxCalls # None
          => Len(events) + 1 =< contract.maxCalls
    BY DEF WithinContract, WithinConstraints
  <2> QED BY <2>2, <2>3, <2>4
<1> QED BY <1>1, <1>2, <1>3

\* The mailbox gate only ever blocks.
LEMMA GatedFacts ==
  ASSUME NEW r, NEW d \in Decisions
  PROVE  /\ Gated(r, d) \in Decisions
         /\ Gated(r, d) # "BLOCK" => Gated(r, d) = d
BY DEF Gated, Decisions

\* A grant is pending only with a decision that waits for it.
LEMMA GrantFacts ==
  ASSUME NEW d, NEW g
  PROVE  /\ GrantFor(d, g) \in {"pending", "denied", "none"}
         /\ GrantFor(d, g) = "pending" => g = "APPROVAL"
<1>1. CASE g = "APPROVAL"
  BY <1>1 DEF GrantFor
<1>2. CASE g # "APPROVAL" /\ d = "APPROVAL"
  BY <1>2 DEF GrantFor
<1>3. CASE g # "APPROVAL" /\ d # "APPROVAL"
  BY <1>3 DEF GrantFor
<1> QED BY <1>1, <1>2, <1>3

LEMMA ResolvedType == Resolved \in Contracts \union {None}
BY DEF Resolved

\* The fields of an event.
LEMMA ElementType ==
  ASSUME events \in Seq(EventType), NEW i \in DOMAIN events
  PROVE  /\ events[i] \in EventType
         /\ events[i].request \in Requests /\ events[i].decision \in Decisions
         /\ events[i].contract \in Contracts \union {None}
         /\ events[i].origin \in Nat /\ events[i].grant \in Grantings
<1>1. events[i] \in EventType
  OBVIOUS
<1> QED BY <1>1 DEF EventType

\* The events with the grant of one of them changed.
LEMMA GrantUpdate ==
  ASSUME events \in Seq(EventType), NEW i \in DOMAIN events, NEW v \in Grantings,
         NEW s, s = [events EXCEPT ![i].grant = v]
  PROVE  /\ s \in Seq(EventType) /\ DOMAIN s = DOMAIN events /\ Len(s) = Len(events)
         /\ \A j \in DOMAIN events :
              /\ s[j].decision = events[j].decision /\ s[j].contract = events[j].contract
              /\ s[j].origin = events[j].origin /\ s[j].request = events[j].request
              /\ s[j].grant = IF j = i THEN v ELSE events[j].grant
<1>1. DOMAIN s = DOMAIN events /\ DOMAIN events = 1..Len(events) /\ Len(events) \in Nat
  OBVIOUS
<1>2. ASSUME NEW j \in DOMAIN events
      PROVE  /\ s[j] \in EventType
             /\ s[j].decision = events[j].decision /\ s[j].contract = events[j].contract
             /\ s[j].origin = events[j].origin /\ s[j].request = events[j].request
             /\ s[j].grant = IF j = i THEN v ELSE events[j].grant
  <2>1. events[j] \in EventType
    OBVIOUS
  <2>2. CASE j = i
    <3>1. s[j] = [events[j] EXCEPT !.grant = v]
      BY <2>2
    <3> QED BY <2>1, <2>2, <3>1 DEF EventType
  <2>3. CASE j # i
    BY <2>1, <2>3
  <2> QED BY <2>2, <2>3
<1>3. s \in [1..Len(events) -> EventType]
  BY <1>1, <1>2
<1>4. s \in Seq(EventType) /\ Len(s) = Len(events)
  BY <1>1, <1>3
<1> QED BY <1>1, <1>2, <1>4

LEMMA InitInv == ASSUME Init PROVE IInv
<1>1. TypeOK
  BY DEF Init, TypeOK
<1> QED BY <1>1 DEF Init, IInv, ResumedOnce

\* A new request: its event counts itself and everything before it.
LEMMA SubmitInv == ASSUME IInv, NEW r \in Requests, Submit(r) PROVE IInv'
<1> DEFINE d == Decision(r, events)
           n == Len(events) + 1
           e == [request |-> r, decision |-> Gated(r, d), contract |-> Resolved,
                 origin |-> n, grant |-> GrantFor(d, Gated(r, d))]
<1>0. /\ TypeOK /\ ResumedOnce /\ events \in Seq(EventType) /\ n \in Nat
      /\ \A i \in DOMAIN events : LimitedInv(i) /\ OriginInv(i)
  BY DEF IInv, TypeOK
<1>1. events' = Append(events, e) /\ Len(events) < MaxEvents
  BY DEF Submit
<1>2. /\ d \in Decisions /\ Gated(r, d) \in Decisions
      /\ Gated(r, d) # "BLOCK" => Gated(r, d) = d
  BY <1>0, DecisionFacts, GatedFacts
<1>3. /\ GrantFor(d, Gated(r, d)) \in {"pending", "denied", "none"}
      /\ GrantFor(d, Gated(r, d)) = "pending" => Gated(r, d) = "APPROVAL"
  BY GrantFacts
<1>4. e \in EventType
  BY <1>0, <1>2, <1>3, ResolvedType DEF EventType, Grantings
<1>5. /\ events' \in Seq(EventType) /\ Len(events') = n /\ DOMAIN events' = 1..n
      /\ events'[n] = e /\ \A i \in DOMAIN events : i \in 1..n /\ i < n /\ events'[i] = events[i]
      /\ \A i \in 1..n : i \in DOMAIN events \/ i = n
  BY <1>0, <1>1, <1>4
<1>6. TypeOK'
  <2>1. NewSignals(Append(RequestsOf(events), r)) \subseteq Patterns \X (1..MaxEvents)
    <3>1. Len(Append(RequestsOf(events), r)) = n
      <4>1. \A i \in DOMAIN events : events[i].request \in Requests
        BY <1>0, ElementType
      <4>2. RequestsOf(events) \in [1..Len(events) -> Requests]
        BY <1>0, <4>1 DEF RequestsOf
      <4>3. RequestsOf(events) \in Seq(Requests) /\ Len(RequestsOf(events)) = Len(events)
        BY <1>0, <4>2
      <4> QED BY <4>3
    <3>2. n \in 1..MaxEvents
      BY <1>0, <1>1
    <3> QED BY <3>1, <3>2 DEF NewSignals
  <2> QED BY <1>0, <1>1, <1>5, <2>1 DEF Submit, TypeOK
<1>7. ASSUME NEW i \in DOMAIN events' PROVE LimitedInv(i)' /\ OriginInv(i)'
  <2>1. CASE i = n
    <3>1. LimitedInv(i)'
      <4>1. (d # "BLOCK" /\ contract \in Contracts /\ contract.maxCalls # None)
              => n =< contract.maxCalls
        BY <1>0, DecisionFacts
      <4>2. Resolved # None => contract \in Contracts /\ Resolved = contract
        BY DEF Resolved
      <4> QED BY <1>2, <1>5, <2>1, <4>1, <4>2 DEF LimitedInv
    <3>2. OriginInv(i)'
      BY <1>0, <1>3, <1>5, <2>1 DEF OriginInv
    <3> QED BY <3>1, <3>2
  <2>2. CASE i \in DOMAIN events
    <3>1. events[i].origin \in DOMAIN events
      BY <1>0, <2>2 DEF OriginInv
    <3> QED BY <1>0, <1>5, <2>2, <3>1 DEF LimitedInv, OriginInv
  <2> QED BY <1>5, <2>1, <2>2
<1>8. ResumedOnce'
  <2>1. \A i \in DOMAIN events : events[i].origin # n
    BY <1>0, <1>5 DEF OriginInv
  <2> QED BY <1>0, <1>5, <2>1 DEF ResumedOnce
<1> QED BY <1>6, <1>7, <1>8 DEF IInv

\* A verdict touches one approval that is pending.
LEMMA DecideInv == ASSUME IInv, NEW i \in DOMAIN events, Decide(i) PROVE IInv'
<1>0. /\ TypeOK /\ ResumedOnce /\ events \in Seq(EventType)
      /\ \A j \in DOMAIN events : LimitedInv(j) /\ OriginInv(j)
  BY DEF IInv, TypeOK
<1>1. PICK v \in {"approved", "denied"} : events' = [events EXCEPT ![i].grant = v]
  BY DEF Decide
<1>2. /\ events' \in Seq(EventType) /\ DOMAIN events' = DOMAIN events /\ Len(events') = Len(events)
      /\ \A j \in DOMAIN events :
           /\ events'[j].decision = events[j].decision /\ events'[j].contract = events[j].contract
           /\ events'[j].origin = events[j].origin
           /\ events'[j].grant = IF j = i THEN v ELSE events[j].grant
  BY <1>0, <1>1, GrantUpdate DEF Grantings
<1>3. TypeOK'
  BY <1>0, <1>2 DEF Decide, TypeOK
<1>4. ASSUME NEW j \in DOMAIN events' PROVE LimitedInv(j)' /\ OriginInv(j)'
  <2>1. j \in DOMAIN events /\ events[j].origin \in DOMAIN events
    BY <1>0, <1>2 DEF OriginInv
  <2>2. events[i].grant = "pending"
    BY DEF Decide
  <2> QED BY <1>0, <1>2, <2>1, <2>2 DEF LimitedInv, OriginInv
<1>5. ResumedOnce'
  BY <1>0, <1>2 DEF ResumedOnce
<1> QED BY <1>3, <1>4, <1>5 DEF IInv

\* A resumed request: its origin had a grant that nobody had consumed.
LEMMA RedeemInv == ASSUME IInv, NEW k \in DOMAIN events, Redeem(k) PROVE IInv'
<1> DEFINE n == Len(events) + 1
           g == Gated(events[k].request, "ALLOW")
           e == [request |-> events[k].request, decision |-> g,
                 contract |-> Resolved, origin |-> k, grant |-> "none"]
           before == [events EXCEPT ![k].grant = "consumed"]
<1>0. /\ TypeOK /\ ResumedOnce /\ events \in Seq(EventType) /\ n \in Nat
      /\ \A i \in DOMAIN events : LimitedInv(i) /\ OriginInv(i)
  BY DEF IInv, TypeOK
<1>1. /\ events' = Append(before, e) /\ Len(events) < MaxEvents
      /\ events[k].grant = "approved" /\ events[k].contract = Resolved
  BY DEF Redeem, Redeemable, Grants
<1>2. events[k].decision = "APPROVAL" /\ events[k].origin = k /\ events[k].request \in Requests
  BY <1>0, <1>1, ElementType DEF OriginInv
<1>3. g \in {"ALLOW", "BLOCK"} /\ e \in EventType
  BY <1>0, <1>2, ResolvedType DEF Gated, EventType, Decisions, Grantings
<1>4. /\ before \in Seq(EventType) /\ Len(before) = Len(events) /\ DOMAIN before = DOMAIN events
      /\ \A i \in DOMAIN events :
           /\ before[i].decision = events[i].decision /\ before[i].contract = events[i].contract
           /\ before[i].origin = events[i].origin
           /\ before[i].grant = IF i = k THEN "consumed" ELSE events[i].grant
  <2>1. \A s : s = before => s \in Seq(EventType) /\ Len(s) = Len(events) /\ DOMAIN s = DOMAIN events
    BY <1>0, GrantUpdate DEF Grantings
  <2>2. ASSUME NEW s, s = before
        PROVE  \A i \in DOMAIN events :
                 /\ s[i].decision = events[i].decision /\ s[i].contract = events[i].contract
                 /\ s[i].origin = events[i].origin
                 /\ s[i].grant = IF i = k THEN "consumed" ELSE events[i].grant
    BY <1>0, <2>2, GrantUpdate DEF Grantings
  <2> QED BY <2>1, <2>2
<1>5. /\ events' \in Seq(EventType) /\ Len(events') = n /\ DOMAIN events' = 1..n
      /\ events'[n] = e
      /\ \A i \in 1..n : i \in DOMAIN events \/ i = n
      /\ \A i \in DOMAIN events :
           /\ i \in 1..n /\ i < n
           /\ events'[i].decision = events[i].decision /\ events'[i].contract = events[i].contract
           /\ events'[i].origin = events[i].origin
           /\ events'[i].grant = IF i = k THEN "consumed" ELSE events[i].grant
  <2>1. \A i \in DOMAIN events : events'[i] = before[i] /\ i \in 1..n /\ i < n
    BY <1>0, <1>1, <1>3, <1>4
  <2> QED BY <1>0, <1>1, <1>3, <1>4, <2>1
<1>6. TypeOK'
  <2>1. n =< MaxEvents
    BY <1>0, <1>1
  <2> QED BY <1>0, <1>5, <2>1 DEF Redeem, TypeOK
<1>7. ASSUME NEW i \in DOMAIN events' PROVE LimitedInv(i)' /\ OriginInv(i)'
  <2>1. CASE i = n
    <3>1. LimitedInv(i)'
      BY <1>0, <1>1, <1>2, <1>5, <2>1 DEF LimitedInv
    <3>2. OriginInv(i)'
      BY <1>0, <1>2, <1>5, <2>1 DEF OriginInv
    <3> QED BY <3>1, <3>2
  <2>2. CASE i \in DOMAIN events
    <3>1. events[i].origin \in DOMAIN events
      BY <1>0, <2>2 DEF OriginInv
    <3> QED BY <1>0, <1>1, <1>2, <1>5, <2>2, <3>1 DEF LimitedInv, OriginInv
  <2> QED BY <1>5, <2>1, <2>2
<1>8. ResumedOnce'
  <2>1. \A i \in DOMAIN events : events[i].origin = k => i = k
    BY <1>0, <1>1 DEF OriginInv
  <2> QED BY <1>0, <1>2, <1>5, <2>1 DEF ResumedOnce
<1> QED BY <1>6, <1>7, <1>8 DEF IInv

\* The operators' changes leave the events alone.
LEMMA ChangeInv ==
  ASSUME IInv,
         \/ \E p \in MorePermissions : AddPermission(p)
         \/ \E p \in Policies : TogglePolicy(p)
         \/ \E c \in Contracts : ActivateContract(c)
         \/ RetireContract
         \/ ToggleMailbox
  PROVE  IInv'
<1>1. TypeOK /\ Change
  BY DEF IInv, AddPermission, TogglePolicy, ActivateContract, RetireContract, ToggleMailbox
<1>2. events' = events /\ signals' = signals /\ changes' \in 0..MaxChanges
  BY <1>1 DEF TypeOK, Change
<1>3. permissions' \subseteq InitialPermissions \union MorePermissions /\ enabled' \subseteq Policies
  BY <1>1 DEF TypeOK, AddPermission, TogglePolicy, ActivateContract, RetireContract, ToggleMailbox
<1>4. contract' \in Contracts \union {None, NoneActive} /\ retired' \subseteq Contracts
  BY <1>1 DEF TypeOK, AddPermission, TogglePolicy, ActivateContract, RetireContract, ToggleMailbox
<1>5. mailbox' \in BOOLEAN
  BY <1>1 DEF TypeOK, AddPermission, TogglePolicy, ActivateContract, RetireContract, ToggleMailbox
<1>6. TypeOK'
  BY <1>1, <1>2, <1>3, <1>4, <1>5 DEF TypeOK
<1> QED BY <1>2, <1>6 DEF IInv, ResumedOnce, LimitedInv, OriginInv

\* The inductive invariant holds in every reachable state.
THEOREM Invariant == Spec => []IInv
<1>1. Init => IInv
  BY InitInv
<1>2. IInv /\ [Next]_vars => IInv'
  <2> SUFFICES ASSUME IInv, [Next]_vars PROVE IInv'
    OBVIOUS
  <2>1. CASE UNCHANGED vars
    BY <2>1 DEF vars, IInv, TypeOK, ResumedOnce, LimitedInv, OriginInv
  <2>2. CASE Next
    BY <2>2, SubmitInv, DecideInv, RedeemInv, ChangeInv DEF Next
  <2> QED BY <2>1, <2>2
<1> QED BY <1>1, <1>2, PTL DEF Spec

THEOREM TypeCorrect == Spec => []TypeOK
<1>1. IInv => TypeOK
  BY DEF IInv
<1> QED BY <1>1, Invariant, PTL

\* A grant lets one request run.
THEOREM GrantsRunOnce == Spec => []OneRunPerGrant
<1>1. IInv => OneRunPerGrant
  BY DEF IInv, OneRunPerGrant
<1> QED BY <1>1, Invariant, PTL

\* Distinct events that run under a contract go back to distinct places within its limit.
LEMMA InvLimits == ASSUME IInv PROVE WithinLimit
<1> SUFFICES ASSUME NEW c \in Contracts, c.maxCalls # None
             PROVE  Cardinality({i \in Allowed : events[i].contract = c}) =< c.maxCalls
  BY DEF WithinLimit
<1> DEFINE S == {i \in Allowed : events[i].contract = c}
           f == [i \in S |-> events[i].origin]
<1>0. c.maxCalls \in Nat /\ c # None
  BY ValidAssumption DEF ValidContract
<1>1. f \in [S -> 1..c.maxCalls]
  BY <1>0 DEF IInv, LimitedInv, OriginInv, Allowed
<1>2. ASSUME NEW i \in S, NEW j \in S, f[i] = f[j] PROVE i = j
  <2>1. i \in DOMAIN events /\ j \in DOMAIN events
    BY DEF Allowed
  <2>2. events[i].origin = i /\ events[j].origin # j => FALSE
    <3> SUFFICES ASSUME events[i].origin = i, events[j].origin # j PROVE FALSE
      OBVIOUS
    <3>1. events[i].grant = "consumed"
      BY <1>2, <2>1 DEF IInv, OriginInv
    <3> QED BY <2>1, <3>1 DEF IInv, OriginInv, Allowed
  <2>3. events[j].origin = j /\ events[i].origin # i => FALSE
    <3> SUFFICES ASSUME events[j].origin = j, events[i].origin # i PROVE FALSE
      OBVIOUS
    <3>1. events[j].grant = "consumed"
      BY <1>2, <2>1 DEF IInv, OriginInv
    <3> QED BY <2>1, <3>1 DEF IInv, OriginInv, Allowed
  <2> QED BY <1>2, <2>1, <2>2, <2>3 DEF IInv, ResumedOnce
<1> HIDE DEF f
<1>3. f \in Injection(S, 1..c.maxCalls)
  <2>1. IsInjective(f)
    BY <1>1, <1>2 DEF IsInjective
  <2> QED BY <1>1, <2>1 DEF Injection
<1>4. IsFiniteSet(1..c.maxCalls) /\ Cardinality(1..c.maxCalls) = c.maxCalls
  <2>1. ASSUME NEW m \in Nat \ {0} PROVE IsFiniteSet(1..m) /\ Cardinality(1..m) = m
    <3>1. 1 \in Int /\ m \in Int /\ ~(1 > m) /\ m - 1 + 1 = m
      OBVIOUS
    <3> QED BY <3>1, FS_Interval, Zenon
  <2>2. c.maxCalls \in Nat \ {0}
    BY ValidAssumption DEF ValidContract
  <2> QED BY <2>1, <2>2
<1> QED BY <1>3, <1>4, FS_Injection

\* No contract lets more requests run than its max_calls allows.
THEOREM LimitHolds == Spec => []WithinLimit
<1>1. IInv => WithinLimit
  BY InvLimits
<1> QED BY <1>1, Invariant, PTL

\* Without a workflow, what a contract allows after a history it allows to a new execution.
LEMMA FreshIsWider ==
  ASSUME TypeOK, NEW r, NEW c \in Contracts, c.workflow = None, WithinContract(c, r, events)
  PROVE  WithinContract(c, r, <<>>)
<1>1. Len(events) \in Nat /\ Len(<<>>) = 0
  BY DEF TypeOK
<1>2. WithinConstraints(c, r, Len(<<>>) + 1)
  <2>1. WithinConstraints(c, r, Len(events) + 1)
    BY DEF WithinContract
  <2>2. c.maxCalls # None => 1 =< c.maxCalls
    BY ValidAssumption DEF ValidContract
  <2> QED BY <1>1, <2>1, <2>2 DEF WithinConstraints
<1> QED BY <1>2 DEF WithinContract, WorkflowAllows

\* The dry run decides for a new execution by the rules of authorize_request.
LEMMA SimulatedFresh ==
  ASSUME TypeOK, NEW r, r.claims = None PROVE Simulated(r) = Gated(r, Decision(r, <<>>))
<1>1. CASE contract = None
  BY <1>1, ConstantsAssumption DEF Simulated, Decision
<1>2. CASE contract = NoneActive
  BY <1>2, ConstantsAssumption DEF Simulated, Decision
<1>3. CASE contract \notin {None, NoneActive}
  BY <1>3 DEF Simulated, Decision
<1> QED BY <1>1, <1>2, <1>3

\* What authorize_request decides for a new execution is a decision.
LEMMA FreshDecision ==
  ASSUME TypeOK, NEW r PROVE Decision(r, <<>>) \in Decisions
<1>0. Baseline(r) \in Decisions
  BY BaselineType
<1>1. CASE contract = None
  BY <1>0, <1>1 DEF Decision, Decisions
<1>2. CASE contract = NoneActive
  BY <1>2 DEF Decision, Decisions
<1>3. CASE contract \notin {None, NoneActive}
  BY <1>0, <1>3 DEF Decision, Decisions
<1> QED BY <1>1, <1>2, <1>3

LEMMA InvAgrees == ASSUME IInv PROVE SimulationAgrees
<1>0. TypeOK
  BY DEF IInv
<1> SUFFICES ASSUME NEW r \in Requests, r.claims = None
             PROVE  /\ Simulated(r) = Gated(r, Decision(r, <<>>))
                    /\ (contract \in Contracts => contract.workflow = None)
                         => Rank[Gated(r, Decision(r, events))] =< Rank[Simulated(r)]
  BY DEF SimulationAgrees
<1> DEFINE d == Decision(r, events)
           f == Decision(r, <<>>)
<1>1. Simulated(r) = Gated(r, f)
  BY <1>0, SimulatedFresh
<1>2. ASSUME contract \in Contracts => contract.workflow = None PROVE d = f \/ d = "BLOCK"
  <2>1. CASE contract = None
    BY <2>1 DEF Decision
  <2>2. CASE contract = NoneActive
    BY <2>2 DEF Decision
  <2>3. CASE contract \notin {None, NoneActive}
    <3>1. contract \in Contracts
      BY <1>0, <2>3 DEF TypeOK
    <3>2. CASE WithinContract(contract, r, events)
      <4>1. WithinContract(contract, r, <<>>)
        BY <1>0, <1>2, <3>1, <3>2, FreshIsWider
      <4> QED BY <2>3, <3>2, <4>1 DEF Decision
    <3>3. CASE ~WithinContract(contract, r, events)
      BY <2>3, <3>3 DEF Decision
    <3> QED BY <3>2, <3>3
  <2> QED BY <2>1, <2>2, <2>3
<1>3. ASSUME d = f \/ d = "BLOCK" PROVE Rank[Gated(r, d)] =< Rank[Gated(r, f)]
  <2>1. f \in Decisions
    BY <1>0, FreshDecision
  <2>2. d \in Decisions
    BY <1>3, <2>1 DEF Decisions
  <2>3. /\ Gated(r, d) \in Decisions /\ Gated(r, f) \in Decisions
        /\ Gated(r, d) = Gated(r, f) \/ Gated(r, d) = "BLOCK"
    <3>1. d = "BLOCK" => Gated(r, d) = "BLOCK"
      BY DEF Gated
    <3> QED BY <1>3, <2>1, <2>2, <3>1, GatedFacts
  <2> HIDE DEF d, f
  <2> QED BY <2>3 DEF Decisions, Rank
<1> QED BY <1>1, <1>2, <1>3

\* What the dry run answers is what a new execution would get, and without a workflow
\* no execution gets more.
THEOREM DryRunAgrees == Spec => []SimulationAgrees
<1>1. IInv => SimulationAgrees
  BY InvAgrees
<1> QED BY <1>1, Invariant, PTL
-----------------------------------------------------------------------------
(***************************************************************************)
(* Induction and recursion over the naturals, stated for sets and          *)
(* functions.                                                              *)
(***************************************************************************)

\* A set of natural numbers that is not empty has a least member.
LEMMA LeastNumber ==
  ASSUME NEW T \in SUBSET Nat, T # {}
  PROVE  \E m \in T : \A k \in T : m =< k
<1> DEFINE R == {ss \in Nat \X Nat : ss[1] < ss[2]}
<1>1. IsWellFoundedOn(R, Nat)
  BY NatLessThanWellFounded, Zenon DEF OpToRel
<1>2. \A x, y \in Nat : y =< x \/ <<x, y>> \in R
  OBVIOUS
<1> HIDE DEF R
<1>3. \E x \in T : \A y \in T : ~ (<<y, x>> \in R)
  BY <1>1, WFMin
<1> QED BY <1>2, <1>3

\* Induction.
LEMMA SetInduction ==
  ASSUME NEW T \in SUBSET Nat, 0 \in T, \A n \in T : n + 1 \in T
  PROVE  T = Nat
<1> SUFFICES ASSUME Nat \ T # {} PROVE FALSE
  OBVIOUS
<1>1. PICK m \in Nat \ T : \A k \in Nat \ T : m =< k
  BY LeastNumber
<1>2. m - 1 \in Nat /\ m - 1 \notin T
  OBVIOUS
<1> QED BY <1>1, <1>2

\* f[i] is what step i makes of f[i - 1].
IsStepwise(f, S, a, n, step) ==
    f \in [0..n -> S] /\ f[0] = a /\ \A i \in 1..n : f[i] = step[i][f[i - 1]]

\* A function defined step by step exists.
LEMMA StepwiseFunction ==
  ASSUME NEW S, NEW a \in S, NEW n \in Nat, NEW step \in [1..n -> [S -> S]]
  PROVE  \E f : IsStepwise(f, S, a, n, step)
<1> DEFINE Good(f, k) == f[0] = a /\ \A i \in 1..k : f[i] = step[i][f[i - 1]]
           T == {k \in Nat : k =< n => \E f \in [0..k -> S] : Good(f, k)}
<1>1. 0 \in T
  <2>1. [i \in 0..0 |-> a] \in [0..0 -> S] /\ Good([i \in 0..0 |-> a], 0)
    OBVIOUS
  <2> QED BY <2>1
<1>2. ASSUME NEW k \in T PROVE k + 1 \in T
  <2> SUFFICES ASSUME k + 1 =< n PROVE \E f \in [0..(k + 1) -> S] : Good(f, k + 1)
    <3> HIDE DEF Good
    <3> QED OBVIOUS
  <2>1. PICK g \in [0..k -> S] : Good(g, k)
    <3>1. \E f \in [0..k -> S] : Good(f, k)
      <4> HIDE DEF Good
      <4> QED OBVIOUS
    <3> QED BY <3>1
  <2>2. k \in Nat /\ k + 1 \in 1..n /\ k \in 0..k /\ g[k] \in S
    OBVIOUS
  <2>3. step[k + 1][g[k]] \in S
    <3>1. step[k + 1] \in [S -> S]
      BY <2>2
    <3> QED BY <2>2, <3>1
  <2> DEFINE f == [i \in 0..(k + 1) |-> IF i = k + 1 THEN step[k + 1][g[k]] ELSE g[i]]
  <2>4. f \in [0..(k + 1) -> S]
    <3>1. \A i \in 0..(k + 1) : i # k + 1 => i \in 0..k
      BY <2>2
    <3> QED BY <2>3, <3>1
  <2>5. \A i \in 0..k : f[i] = g[i]
    BY <2>2
  <2>6. f[k + 1] = step[k + 1][f[k]]
    BY <2>2, <2>5
  <2>7. Good(f, k + 1)
    <3>1. \A i \in 1..(k + 1) : i = k + 1 \/ (i \in 1..k /\ i \in 0..k /\ i - 1 \in 0..k)
      BY <2>2
    <3>2. f[0] = a
      BY <2>1, <2>2, <2>5
    <3> HIDE DEF f
    <3> QED BY <2>1, <2>5, <2>6, <3>1, <3>2
  <2> QED BY <2>4, <2>7
<1>3. T = Nat
  <2> HIDE DEF T
  <2>1. T \in SUBSET Nat
    BY DEF T
  <2> QED BY <1>1, <1>2, <2>1, SetInduction
<1> QED BY <1>3 DEF IsStepwise

-----------------------------------------------------------------------------
(***************************************************************************)
(* The workflow of a contract.                                             *)
(***************************************************************************)

\* What possible[i] of FollowsWorkflow is, for each i.
LEMMA PossibleSteps ==
  ASSUME NEW w, NEW requests, Len(requests) \in Nat \ {0}
  PROVE  \E possible \in [1..Len(requests) -> SUBSET DOMAIN w.steps] :
           /\ possible[1] \subseteq w.initial
           /\ \A i \in 1..Len(requests) : \A t \in possible[i] : StepMatches(w.steps[t], requests[i])
           /\ \A i \in 2..Len(requests) : \A t \in possible[i] :
                \E s \in possible[i - 1] : <<s, t>> \in w.transitions
           /\ \A t \in DOMAIN w.steps :
                t \in w.initial /\ StepMatches(w.steps[t], requests[1]) => t \in possible[1]
           /\ \A i \in 2..Len(requests) : \A t \in DOMAIN w.steps :
                StepMatches(w.steps[t], requests[i]) /\ (\E s \in possible[i - 1] : <<s, t>> \in w.transitions)
                  => t \in possible[i]
           /\ FollowsWorkflow(w, requests) <=> possible[Len(requests)] # {}
<1> DEFINE n == Len(requests)
           St == DOMAIN w.steps
           matching(i) == {s \in St : StepMatches(w.steps[s], requests[i])}
           next(i, P) == IF i = 1 THEN matching(i) \intersect w.initial
                         ELSE {t \in matching(i) : \E s \in P : <<s, t>> \in w.transitions}
           Defines(p) == p = [i \in 1..n |-> next(i, p[i - 1])]
           step == [i \in 1..n |-> [P \in SUBSET St |-> next(i, P)]]
           possible == CHOOSE p : Defines(p)
<1>1. \A i \in 1..n, P \in SUBSET St : next(i, P) \in SUBSET St
  OBVIOUS
<1>2. step \in [1..n -> [SUBSET St -> SUBSET St]]
  <2> HIDE DEF next
  <2> QED BY <1>1
<1>3. \E f \in [0..n -> SUBSET St] : f[0] = {} /\ \A i \in 1..n : f[i] = step[i][f[i - 1]]
  <2> DEFINE Sets == SUBSET St
  <2>1. {} \in Sets /\ n \in Nat /\ step \in [1..n -> [Sets -> Sets]]
    BY <1>2
  <2> HIDE DEF step, Sets, n
  <2>2. \E f : IsStepwise(f, Sets, {}, n, step)
    BY <2>1, StepwiseFunction
  <2> QED BY <2>2 DEF IsStepwise, Sets
<1>4. \E p : Defines(p)
  <2>1. PICK f \in [0..n -> SUBSET St] : \A i \in 1..n : f[i] = step[i][f[i - 1]]
    BY <1>3
  <2> DEFINE p == [i \in 1..n |-> f[i]]
  <2>2. ASSUME NEW i \in 1..n PROVE p[i] = next(i, p[i - 1])
    <3>1. p[i] = next(i, f[i - 1])
      <4>1. f[i - 1] \in SUBSET St
        BY <2>1
      <4> HIDE DEF next
      <4> QED BY <2>1, <4>1
    <3>2. CASE i = 1
      BY <3>1, <3>2
    <3>3. CASE i # 1
      <4>1. i - 1 \in 1..n
        BY <3>3
      <4> QED BY <3>1, <4>1
    <3> QED BY <3>2, <3>3
  <2>3. p = [i \in 1..n |-> p[i]]
    OBVIOUS
  <2>4. Defines(p)
    <3> HIDE DEF p, next
    <3> QED BY <2>2, <2>3
  <2> QED BY <2>4
<1>5. Defines(possible)
  <2> HIDE DEF Defines
  <2> QED BY <1>4
<1>6. FollowsWorkflow(w, requests) <=> possible[n] # {}
  BY DEF FollowsWorkflow
<1> HIDE DEF possible
<1>7. \A i \in 1..n : possible[i] = next(i, possible[i - 1])
  <2> HIDE DEF next
  <2> QED BY <1>5
<1>8. possible[1] = matching(1) \intersect w.initial
  <2>1. 1 \in 1..n
    OBVIOUS
  <2> HIDE DEF matching
  <2> QED BY <1>7, <2>1
<1>9. ASSUME NEW i \in 1..n
      PROVE  /\ possible[i] \in SUBSET St
             /\ \A t \in possible[i] : StepMatches(w.steps[t], requests[i])
             /\ i # 1 => \A t \in possible[i] : \E s \in possible[i - 1] : <<s, t>> \in w.transitions
             /\ i # 1 => \A t \in St :
                  StepMatches(w.steps[t], requests[i]) /\ (\E s \in possible[i - 1] : <<s, t>> \in w.transitions)
                    => t \in possible[i]
  <2>1. CASE i = 1
    BY <1>8, <2>1
  <2>2. CASE i # 1
    <3>1. possible[i] = {t \in matching(i) : \E s \in possible[i - 1] : <<s, t>> \in w.transitions}
      <4> HIDE DEF matching
      <4> QED BY <1>7, <2>2
    <3> QED BY <2>2, <3>1
  <2> QED BY <2>1, <2>2
<1>10. possible \in [1..n -> SUBSET St]
  <2>1. DOMAIN possible = 1..n /\ possible = [i \in 1..n |-> possible[i]]
    <3> HIDE DEF next
    <3> QED BY <1>5
  <2> QED BY <1>9, <2>1
<1>11. \A i \in 2..n : i \in 1..n /\ i # 1
  OBVIOUS
<1> QED BY <1>6, <1>8, <1>9, <1>10, <1>11

\* The sets of possible steps lose no order: behind each there is a path.
LEMMA FollowsIsPath ==
  ASSUME NEW w, NEW requests, Len(requests) \in Nat \ {0},
         DOMAIN requests = 1..Len(requests), FollowsWorkflow(w, requests)
  PROVE  IsPath(w, requests)
<1> DEFINE n == Len(requests)
           St == DOMAIN w.steps
<1>1. PICK possible \in [1..n -> SUBSET St] :
           /\ possible[1] \subseteq w.initial
           /\ \A i \in 1..n : \A t \in possible[i] : StepMatches(w.steps[t], requests[i])
           /\ \A i \in 2..n : \A t \in possible[i] :
                \E s \in possible[i - 1] : <<s, t>> \in w.transitions
           /\ possible[n] # {}
  BY PossibleSteps
<1> HIDE DEF St
<1> DEFINE PathTo(k, t, path) ==
             /\ path[k] = t
             /\ \A i \in 1..k : StepMatches(w.steps[path[i]], requests[i])
             /\ path[1] \in w.initial
             /\ \A i \in 2..k : <<path[i - 1], path[i]>> \in w.transitions
           Reached(k) == \A t \in possible[k] : \E path \in [1..k -> St] : PathTo(k, t, path)
           T == {k \in Nat : k \in 1..n => Reached(k)}
<1>2. 0 \in T
  <2> HIDE DEF Reached
  <2> QED OBVIOUS
<1>3. ASSUME NEW k \in T, NEW j, j = k + 1 PROVE j \in T
  <2> SUFFICES ASSUME j \in 1..n PROVE Reached(j)
    <3> HIDE DEF Reached
    <3> QED BY <1>3
  <2> SUFFICES ASSUME NEW t \in possible[j]
               PROVE  \E path \in [1..j -> St] : PathTo(j, t, path)
    <3> HIDE DEF PathTo
    <3> QED OBVIOUS
  <2>0. k \in Nat /\ j = k + 1 /\ t \in St /\ StepMatches(w.steps[t], requests[j])
    BY <1>1, <1>3
  <2>1. CASE k = 0
    <3> DEFINE path == [i \in 1..1 |-> t]
    <3>1. path \in [1..j -> St] /\ PathTo(j, t, path)
      BY <1>1, <2>0, <2>1
    <3> QED BY <3>1
  <2>2. CASE k # 0
    <3>1. k \in 1..n /\ j \in 2..n /\ j - 1 = k
      BY <2>0, <2>2
    <3>2. PICK s \in possible[k] : <<s, t>> \in w.transitions
      <4>1. \E s \in possible[j - 1] : <<s, t>> \in w.transitions
        BY <1>1, <3>1
      <4> QED BY <3>1, <4>1
    <3>3. PICK p \in [1..k -> St] : PathTo(k, s, p)
      <4>1. Reached(k)
        <5> HIDE DEF Reached
        <5> QED BY <3>1
      <4> QED BY <3>2, <4>1
    <3> DEFINE path == [i \in 1..j |-> IF i = j THEN t ELSE p[i]]
    <3>4. \A i \in 1..j : i = j \/ i \in 1..k
      BY <2>0
    <3>5. path \in [1..j -> St]
      BY <2>0, <3>4
    <3>6. path[j] = t /\ \A i \in 1..k : path[i] = p[i]
      BY <2>0
    <3> HIDE DEF path
    <3>7. \A i \in 1..j : StepMatches(w.steps[path[i]], requests[i])
      BY <2>0, <3>3, <3>4, <3>6
    <3>8. path[1] \in w.initial
      BY <3>1, <3>3, <3>6
    <3>9. ASSUME NEW i \in 2..j PROVE <<path[i - 1], path[i]>> \in w.transitions
      <4>1. CASE i = j
        <5>1. path[i] = t /\ path[k] = s /\ i - 1 = k
          <6>1. k \in 1..k
            BY <3>1
          <6> QED BY <3>1, <3>3, <3>6, <4>1, <6>1
        <5> QED BY <3>2, <5>1
      <4>2. CASE i # j
        <5>1. i \in 2..k /\ i \in 1..k /\ i - 1 \in 1..k
          BY <2>0, <4>2
        <5> QED BY <3>3, <3>6, <5>1
      <4> QED BY <4>1, <4>2
    <3>10. PathTo(j, t, path)
      BY <3>6, <3>7, <3>8, <3>9
    <3> QED BY <3>5, <3>10
  <2> QED BY <2>1, <2>2
<1>4. T = Nat
  <2>1. T \in SUBSET Nat
    OBVIOUS
  <2> HIDE DEF T
  <2> QED BY <1>2, <1>3, <2>1, SetInduction
<1>5. PICK t \in possible[n] : TRUE
  BY <1>1
<1>6. PICK path \in [1..n -> St] : PathTo(n, t, path)
  <2>1. n \in 1..n /\ n \in T
    BY <1>4
  <2>2. Reached(n)
    <3> HIDE DEF Reached
    <3> QED BY <2>1
  <2> QED BY <2>2
<1>7. \A i \in 1..n : i > 1 => i \in 2..n
  OBVIOUS
<1> QED BY <1>6, <1>7 DEF IsPath, St

\* The beginning of a path is a path.
LEMMA PathPrefix ==
  ASSUME NEW w, NEW S, NEW requests \in Seq(S), NEW r \in S, IsPath(w, Append(requests, r))
  PROVE  IsPath(w, requests)
<1> DEFINE n == Len(requests)
           longer == Append(requests, r)
<1>1. /\ n \in Nat /\ DOMAIN requests = 1..n /\ DOMAIN longer = 1..(n + 1)
      /\ \A i \in 1..n : longer[i] = requests[i] /\ i \in 1..(n + 1)
      /\ longer # <<>>
  OBVIOUS
<1>2. PICK path \in [1..(n + 1) -> DOMAIN w.steps] :
           /\ \A i \in 1..(n + 1) : StepMatches(w.steps[path[i]], longer[i])
           /\ path[1] \in w.initial
           /\ \A i \in 1..(n + 1) : i > 1 => <<path[i - 1], path[i]>> \in w.transitions
  BY <1>1 DEF IsPath
<1> DEFINE p == [i \in 1..n |-> path[i]]
<1>3. p \in [1..n -> DOMAIN w.steps]
  BY <1>1
<1>4. \A i \in 1..n : StepMatches(w.steps[p[i]], requests[i])
  BY <1>1, <1>2
<1>5. requests # <<>> => p[1] \in w.initial
  <2>1. requests # <<>> => 1 \in 1..n
    BY <1>1
  <2> QED BY <1>2, <2>1
<1>6. ASSUME NEW i \in 1..n, i > 1 PROVE <<p[i - 1], p[i]>> \in w.transitions
  <2>1. i - 1 \in 1..n /\ i \in 1..(n + 1)
    BY <1>1, <1>6
  <2> QED BY <1>2, <1>6, <2>1
<1> HIDE DEF p
<1> QED BY <1>1, <1>3, <1>4, <1>5, <1>6 DEF IsPath

\* A path is never lost: its steps are among the possible ones.
LEMMA PathIsFollowed ==
  ASSUME NEW w, NEW requests, Len(requests) \in Nat \ {0},
         DOMAIN requests = 1..Len(requests), IsPath(w, requests)
  PROVE  FollowsWorkflow(w, requests)
<1> DEFINE n == Len(requests)
           St == DOMAIN w.steps
<1>1. PICK possible \in [1..n -> SUBSET St] :
           /\ \A t \in St : t \in w.initial /\ StepMatches(w.steps[t], requests[1]) => t \in possible[1]
           /\ \A i \in 2..n : \A t \in St :
                StepMatches(w.steps[t], requests[i]) /\ (\E s \in possible[i - 1] : <<s, t>> \in w.transitions)
                  => t \in possible[i]
           /\ FollowsWorkflow(w, requests) <=> possible[n] # {}
  BY PossibleSteps
<1>2. PICK path \in [1..n -> St] :
           /\ \A i \in 1..n : StepMatches(w.steps[path[i]], requests[i])
           /\ path[1] \in w.initial
           /\ \A i \in 1..n : i > 1 => <<path[i - 1], path[i]>> \in w.transitions
  <2>1. requests # <<>>
    OBVIOUS
  <2> QED BY <2>1 DEF IsPath
<1> HIDE DEF St, n
<1> DEFINE T == {k \in Nat : k \in 1..n => path[k] \in possible[k]}
<1>3. n \in Nat \ {0}
  BY DEF n
<1>4. 0 \in T
  OBVIOUS
<1>5. ASSUME NEW k \in T, NEW j, j = k + 1 PROVE j \in T
  <2>0. k \in Nat /\ j \in Nat
    BY <1>5
  <2> SUFFICES ASSUME j \in 1..n PROVE path[j] \in possible[j]
    BY <2>0
  <2>1. path[j] \in St /\ StepMatches(w.steps[path[j]], requests[j])
    BY <1>2
  <2>2. CASE k = 0
    <3>1. j = 1
      BY <1>5, <2>2
    <3> QED BY <1>1, <1>2, <2>1, <3>1
  <2>3. CASE k # 0
    <3>1. k \in 1..n /\ j \in 2..n /\ j - 1 = k /\ j > 1
      BY <1>3, <1>5, <2>0, <2>3
    <3>2. path[k] \in possible[k]
      BY <3>1
    <3>3. <<path[k], path[j]>> \in w.transitions
      BY <1>2, <3>1
    <3>4. \E s \in possible[j - 1] : <<s, path[j]>> \in w.transitions
      BY <3>1, <3>2, <3>3
    <3> QED BY <1>1, <2>1, <3>1, <3>4
  <2> QED BY <2>2, <2>3
<1>6. T = Nat
  <2>1. T \in SUBSET Nat
    OBVIOUS
  <2> HIDE DEF T
  <2> QED BY <1>4, <1>5, <2>1, SetInduction
<1>7. path[n] \in possible[n]
  <2>1. n \in T /\ n \in 1..n
    BY <1>3, <1>6
  <2> QED BY <2>1
<1> QED BY <1>1, <1>7 DEF n

\* The engine accepts a trajectory exactly when it is a path of the workflow, whatever
\* the workflow and however many steps match a request (_evaluate_workflow).
THEOREM WorkflowSearch ==
  ASSUME NEW w, NEW requests, Len(requests) \in Nat \ {0}, DOMAIN requests = 1..Len(requests)
  PROVE  FollowsWorkflow(w, requests) <=> IsPath(w, requests)
BY FollowsIsPath, PathIsFollowed

\* The trajectory of a history, event by event.
LEMMA TrajectoryFacts ==
  ASSUME NEW h \in Seq(EventType)
  PROVE  /\ \A i \in 0..Len(h) : Trajectory(h)[i] \in Seq(Requests)
         /\ Trajectory(h)[0] = <<>>
         /\ \A i \in 1..Len(h) :
              Trajectory(h)[i] = IF h[i].decision = "ALLOW"
                                 THEN Append(Trajectory(h)[i - 1], h[i].request)
                                 ELSE Trajectory(h)[i - 1]
<1> DEFINE n == Len(h)
           R == Seq(Requests)
           next(i, s) == IF h[i].decision = "ALLOW" THEN Append(s, h[i].request) ELSE s
           Body(p, i) == IF i = 0 THEN <<>> ELSE next(i, p[i - 1])
           Defines(p) == p = [i \in 0..n |-> Body(p, i)]
           step == [i \in 1..n |-> [s \in R |-> next(i, s)]]
           upTo == CHOOSE p : Defines(p)
<1>1. \A i \in 1..n, s \in R : next(i, s) \in R
  <2>1. \A i \in 1..n : h[i] \in EventType
    OBVIOUS
  <2>2. \A i \in 1..n : h[i].request \in Requests
    BY <2>1 DEF EventType
  <2> QED BY <2>2
<1>2. PICK f : IsStepwise(f, R, <<>>, n, step)
  <2>1. <<>> \in R /\ n \in Nat
    OBVIOUS
  <2>2. step \in [1..n -> [R -> R]]
    <3> HIDE DEF next, R
    <3> QED BY <1>1
  <2> HIDE DEF step, R, n
  <2> QED BY <2>1, <2>2, StepwiseFunction
<1>3. \A i \in 0..n : f[i] \in R /\ f[i] = Body(f, i)
  <2> HIDE DEF next, R
  <2>1. f \in [0..n -> R]
    BY <1>2 DEF IsStepwise
  <2>2. ASSUME NEW i \in 1..n PROVE f[i] = next(i, f[i - 1])
    <3>1. f[i - 1] \in R
      BY <2>1
    <3> QED BY <1>2, <3>1 DEF IsStepwise
  <2>3. f[0] = <<>>
    BY <1>2 DEF IsStepwise
  <2> QED BY <2>1, <2>2, <2>3
<1>4. Defines(f)
  <2>1. f = [i \in 0..n |-> f[i]]
    BY <1>2 DEF IsStepwise
  <2> HIDE DEF Body
  <2> QED BY <1>3, <2>1
<1>5. Defines(upTo)
  <2> HIDE DEF Defines
  <2> QED BY <1>4
<1>6. Trajectory(h) = upTo
  BY DEF Trajectory
<1> HIDE DEF upTo
<1>7. \A i \in 0..n : upTo[i] = Body(upTo, i)
  <2> HIDE DEF Body
  <2> QED BY <1>5
<1>8. upTo[0] = <<>>
  BY <1>7
<1>9. \A i \in 1..n : upTo[i] = next(i, upTo[i - 1])
  <2> HIDE DEF next
  <2> QED BY <1>7
<1> DEFINE T == {k \in Nat : k \in 0..n => upTo[k] \in R}
<1>10. 0 \in T
  <2>1. <<>> \in R
    OBVIOUS
  <2> HIDE DEF R
  <2> QED BY <1>8, <2>1
<1>11. ASSUME NEW k \in T PROVE k + 1 \in T
  <2> SUFFICES ASSUME NEW j, j = k + 1, j \in 0..n PROVE upTo[j] \in R
    OBVIOUS
  <2>1. j \in 1..n /\ upTo[j - 1] \in R
    OBVIOUS
  <2> HIDE DEF next, R
  <2> QED BY <1>1, <1>9, <2>1
<1>12. T = Nat
  <2>1. T \in SUBSET Nat
    OBVIOUS
  <2> HIDE DEF T
  <2> QED BY <1>10, <1>11, <2>1, SetInduction
<1>13. \A i \in 0..n : upTo[i] \in R
  <2> HIDE DEF R
  <2> QED BY <1>12
<1> QED BY <1>6, <1>8, <1>9, <1>13

\* The trajectory up to an event does not depend on what comes after.
LEMMA TrajectoryAgrees ==
  ASSUME NEW g \in Seq(EventType), NEW h \in Seq(EventType), Len(g) =< Len(h),
         \A i \in 1..Len(g) : g[i].decision = h[i].decision /\ g[i].request = h[i].request
  PROVE  \A i \in 0..Len(g) : Trajectory(g)[i] = Trajectory(h)[i]
<1> DEFINE T == {k \in Nat : k \in 0..Len(g) => Trajectory(g)[k] = Trajectory(h)[k]}
<1>1. 0 \in T
  BY TrajectoryFacts
<1>2. ASSUME NEW k \in T PROVE k + 1 \in T
  <2> SUFFICES ASSUME NEW j, j = k + 1, j \in 0..Len(g) PROVE Trajectory(g)[j] = Trajectory(h)[j]
    OBVIOUS
  <2>1. j \in 1..Len(g) /\ j \in 1..Len(h) /\ Trajectory(g)[j - 1] = Trajectory(h)[j - 1]
    OBVIOUS
  <2> QED BY <2>1, TrajectoryFacts
<1>3. T = Nat
  <2>1. T \in SUBSET Nat
    OBVIOUS
  <2> HIDE DEF T
  <2> QED BY <1>1, <1>2, <2>1, SetInduction
<1> QED BY <1>3

\* It is empty, or ends with an event that was allowed.
LEMMA TrajectoryEnds ==
  ASSUME NEW h \in Seq(EventType), NEW n \in 0..Len(h)
  PROVE  \/ Trajectory(h)[n] = <<>>
         \/ \E i \in 1..n : h[i].decision = "ALLOW" /\ Trajectory(h)[i] = Trajectory(h)[n]
<1> DEFINE P(k) == \/ Trajectory(h)[k] = <<>>
                   \/ \E i \in 1..k : h[i].decision = "ALLOW" /\ Trajectory(h)[i] = Trajectory(h)[k]
           T == {k \in Nat : k \in 0..Len(h) => P(k)}
<1>1. 0 \in T
  BY TrajectoryFacts
<1>2. ASSUME NEW k \in T, NEW j, j = k + 1 PROVE j \in T
  <2> SUFFICES ASSUME j \in 0..Len(h) PROVE P(j)
    BY <1>2
  <2>1. j \in 1..Len(h) /\ j - 1 = k /\ k \in Nat /\ P(k)
    BY <1>2
  <2>2. CASE h[j].decision = "ALLOW"
    <3>1. j \in 1..j
      BY <2>1
    <3> QED BY <2>2, <3>1
  <2>3. CASE h[j].decision # "ALLOW"
    <3>1. Trajectory(h)[j] = Trajectory(h)[k]
      BY <2>1, <2>3, TrajectoryFacts
    <3>2. \A i \in 1..k : i \in 1..j
      BY <1>2, <2>1
    <3> QED BY <2>1, <3>1, <3>2
  <2> QED BY <2>2, <2>3
<1>3. T = Nat
  <2>1. T \in SUBSET Nat
    OBVIOUS
  <2> HIDE DEF T
  <2> QED BY <1>1, <1>2, <2>1, SetInduction
<1>4. n \in T
  BY <1>3
<1> QED BY <1>4

-----------------------------------------------------------------------------
(***************************************************************************)
(* Behaviour patterns.                                                     *)
(***************************************************************************)

\* Where the greedy search of MatchSequence stands after each step of the pattern: at
\* the first hit behind the last one, or past the end.
LEMMA SearchSteps ==
  ASSUME NEW p, NEW requests, Len(requests) \in Nat, Len(p.steps) \in Nat
  PROVE  \E after \in [0..Len(p.steps) -> 0..(Len(requests) + 1)] :
           /\ after[0] = 0
           /\ \A k \in 1..Len(p.steps) :
                \/ /\ after[k] \in (after[k - 1] + 1)..Len(requests)
                   /\ PatternStepMatches(p.steps[k], requests[after[k]])
                \/ after[k] = Len(requests) + 1
           /\ \A k \in 1..Len(p.steps) : \A j \in (after[k - 1] + 1)..Len(requests) :
                PatternStepMatches(p.steps[k], requests[j]) => after[k] =< j
           /\ MatchSequence(p, requests) <=> after[Len(p.steps)] =< Len(requests)
<1> DEFINE n == Len(requests)
           m == Len(p.steps)
           Places == 0..(n + 1)
           hits(k, from) == {j \in from..n : PatternStepMatches(p.steps[k], requests[j])} \union {n + 1}
           next(k, at) == CHOOSE j \in hits(k, at + 1) : \A h \in hits(k, at + 1) : j =< h
           Body(f, k) == IF k = 0 THEN 0 ELSE next(k, f[k - 1])
           Defines(f) == f = [k \in 0..m |-> Body(f, k)]
           step == [k \in 1..m |-> [at \in Places |-> next(k, at)]]
           after == CHOOSE f : Defines(f)
<1>0. n \in Nat /\ m \in Nat
  OBVIOUS
<1>1. ASSUME NEW k \in 1..m, NEW at \in Places
      PROVE  /\ next(k, at) \in hits(k, at + 1)
             /\ \A h \in hits(k, at + 1) : next(k, at) =< h
  <2>1. hits(k, at + 1) \in SUBSET Nat /\ hits(k, at + 1) # {}
    BY <1>0
  <2>2. \E j \in hits(k, at + 1) : \A h \in hits(k, at + 1) : j =< h
    <3> HIDE DEF hits
    <3> QED BY <2>1, LeastNumber
  <2> HIDE DEF hits
  <2> QED BY <2>2
<1>2. \A k \in 1..m, at \in Places :
        /\ \/ next(k, at) \in (at + 1)..n /\ PatternStepMatches(p.steps[k], requests[next(k, at)])
           \/ next(k, at) = n + 1
        /\ \A j \in (at + 1)..n : PatternStepMatches(p.steps[k], requests[j]) => next(k, at) =< j
        /\ next(k, at) \in Places
  <2> SUFFICES ASSUME NEW k \in 1..m, NEW at \in Places
               PROVE  /\ \/ next(k, at) \in (at + 1)..n /\ PatternStepMatches(p.steps[k], requests[next(k, at)])
                         \/ next(k, at) = n + 1
                      /\ \A j \in (at + 1)..n : PatternStepMatches(p.steps[k], requests[j]) => next(k, at) =< j
                      /\ next(k, at) \in Places
    OBVIOUS
  <2>1. /\ next(k, at) \in hits(k, at + 1)
        /\ \A h \in hits(k, at + 1) : next(k, at) =< h
    BY <1>1
  <2> HIDE DEF next
  <2> QED BY <1>0, <2>1
<1> HIDE DEF next
<1>3. PICK f : IsStepwise(f, Places, 0, m, step)
  <2>1. 0 \in Places /\ step \in [1..m -> [Places -> Places]]
    BY <1>0, <1>2
  <2> HIDE DEF step, Places, m
  <2> QED BY <1>0, <2>1, StepwiseFunction
<1>4. f \in [0..m -> Places] /\ \A k \in 0..m : f[k] = Body(f, k)
  <2> HIDE DEF Places
  <2>1. f \in [0..m -> Places] /\ f[0] = 0
    BY <1>3 DEF IsStepwise
  <2>2. ASSUME NEW k \in 1..m PROVE f[k] = next(k, f[k - 1])
    <3>1. f[k - 1] \in Places
      BY <2>1
    <3> QED BY <1>3, <3>1 DEF IsStepwise
  <2> QED BY <2>1, <2>2
<1>5. Defines(f)
  <2>1. f = [k \in 0..m |-> f[k]]
    BY <1>4
  <2> HIDE DEF Body
  <2> QED BY <1>4, <2>1
<1>6. Defines(after)
  <2> HIDE DEF Defines
  <2> QED BY <1>5
<1>7. MatchSequence(p, requests) <=> after[m] =< n
  BY DEF MatchSequence, next
<1> HIDE DEF after
<1>8. \A k \in 0..m : after[k] = Body(after, k)
  <2> HIDE DEF Body
  <2> QED BY <1>6
<1>9. after[0] = 0 /\ \A k \in 1..m : after[k] = next(k, after[k - 1])
  BY <1>0, <1>8
<1> DEFINE T == {k \in Nat : k \in 0..m => after[k] \in Places}
<1>10. 0 \in T
  BY <1>0, <1>9
<1>11. ASSUME NEW k \in T, NEW j, j = k + 1 PROVE j \in T
  <2> SUFFICES ASSUME j \in 0..m PROVE after[j] \in Places
    BY <1>11
  <2>1. j \in 1..m /\ j - 1 = k /\ after[k] \in Places
    BY <1>11
  <2> HIDE DEF Places
  <2> QED BY <1>2, <1>9, <2>1
<1>12. T = Nat
  <2>1. T \in SUBSET Nat
    OBVIOUS
  <2> HIDE DEF T
  <2> QED BY <1>10, <1>11, <2>1, SetInduction
<1>13. after \in [0..m -> Places]
  <2>1. DOMAIN after = 0..m /\ after = [k \in 0..m |-> after[k]]
    <3> HIDE DEF Body
    <3> QED BY <1>6
  <2>2. \A k \in 0..m : after[k] \in Places
    <3> HIDE DEF Places
    <3> QED BY <1>12
  <2> QED BY <2>1, <2>2
<1>14. ASSUME NEW k \in 1..m
       PROVE  /\ \/ /\ after[k] \in (after[k - 1] + 1)..n
                    /\ PatternStepMatches(p.steps[k], requests[after[k]])
                 \/ after[k] = n + 1
              /\ \A j \in (after[k - 1] + 1)..n :
                   PatternStepMatches(p.steps[k], requests[j]) => after[k] =< j
  <2>1. after[k - 1] \in Places
    BY <1>13
  <2>2. after[k] = next(k, after[k - 1])
    BY <1>9
  <2> HIDE DEF Places
  <2> QED BY <1>2, <2>1, <2>2
<1> QED BY <1>7, <1>9, <1>13, <1>14

\* The greedy search finds a pattern exactly when its steps occur in order.
LEMMA SequenceOccurs ==
  ASSUME NEW p, p.type = "SEQUENCE", Len(p.steps) \in Nat \ {0}, DOMAIN p.steps = 1..Len(p.steps),
         NEW requests, Len(requests) \in Nat, DOMAIN requests = 1..Len(requests)
  PROVE  MatchSequence(p, requests) <=> Occurs(p, requests)
<1> DEFINE n == Len(requests)
           m == Len(p.steps)
           Hit(k, j) == PatternStepMatches(p.steps[k], requests[j])
<1>0. n \in Nat /\ m \in Nat /\ m \in 1..m /\ m \in 0..m
  OBVIOUS
<1>1. PICK after \in [0..m -> 0..(n + 1)] :
           /\ after[0] = 0
           /\ \A k \in 1..m : \/ after[k] \in (after[k - 1] + 1)..n /\ Hit(k, after[k])
                              \/ after[k] = n + 1
           /\ \A k \in 1..m : \A j \in (after[k - 1] + 1)..n : Hit(k, j) => after[k] =< j
           /\ MatchSequence(p, requests) <=> after[m] =< n
  BY SearchSteps
<1> HIDE DEF Hit
<1>2. ASSUME after[m] =< n PROVE Occurs(p, requests)
  <2> DEFINE Found(k) == /\ \A l \in 1..k : after[l] \in 1..n /\ Hit(l, after[l])
                         /\ \A l \in 1..k : after[l] =< after[k]
                         /\ \A l, i \in 1..k : l < i => after[l] < after[i]
             T == {k \in Nat : k \in 0..m => (after[k] = n + 1 \/ Found(k))}
  <2>1. 0 \in T
    OBVIOUS
  <2>2. ASSUME NEW k \in T, NEW j, j = k + 1 PROVE j \in T
    <3> SUFFICES ASSUME j \in 0..m, after[j] # n + 1 PROVE Found(j)
      <4> HIDE DEF Found
      <4> QED BY <2>2
    <3>1. /\ j \in 1..m /\ j - 1 = k /\ k \in Nat /\ k \in 0..m
          /\ \A l \in 1..j : l = j \/ l \in 1..k
      BY <2>2
    <3>2. after[k] \in 0..(n + 1) /\ after[j] \in 0..(n + 1)
      BY <1>1, <3>1
    <3>3. after[j] \in (after[k] + 1)..n /\ Hit(j, after[j])
      <4>1. after[j] \in (after[j - 1] + 1)..n /\ Hit(j, after[j])
        BY <1>1, <3>1
      <4> QED BY <3>1, <4>1
    <3>4. Found(k)
      <4> HIDE DEF Found
      <4>1. after[k] # n + 1
        BY <1>0, <3>2, <3>3
      <4> QED BY <3>1, <4>1
    <3>5. \A l \in 1..k : after[l] < after[j]
      <4>1. \A l \in 1..k : after[l] =< after[k] /\ after[l] \in 1..n
        BY <3>4
      <4> QED BY <1>0, <3>2, <3>3, <4>1
    <3>6. after[j] \in 1..n
      BY <1>0, <3>2, <3>3
    <3>7. \A l \in 1..j : after[l] \in 1..n /\ Hit(l, after[l]) /\ after[l] =< after[j]
      <4> SUFFICES ASSUME NEW l \in 1..j
                   PROVE  after[l] \in 1..n /\ Hit(l, after[l]) /\ after[l] =< after[j]
        OBVIOUS
      <4>1. CASE l = j
        BY <3>3, <3>6, <4>1
      <4>2. CASE l \in 1..k
        BY <3>4, <3>5, <3>6, <4>2
      <4> QED BY <3>1, <4>1, <4>2
    <3>8. ASSUME NEW l \in 1..j, NEW i \in 1..j, l < i PROVE after[l] < after[i]
      <4>1. l \in 1..k
        BY <3>1, <3>8
      <4>2. i = j \/ i \in 1..k
        BY <3>1
      <4> QED BY <3>4, <3>5, <3>8, <4>1, <4>2
    <3> QED BY <3>7, <3>8
  <2>3. T = Nat
    <3>1. T \in SUBSET Nat
      OBVIOUS
    <3> HIDE DEF T
    <3> QED BY <2>1, <2>2, <3>1, SetInduction
  <2>4. Found(m)
    <3>1. m \in T /\ after[m] # n + 1
      <4>1. after[m] # n + 1
        BY <1>0, <1>2
      <4> HIDE DEF T
      <4> QED BY <1>0, <2>3, <4>1
    <3> HIDE DEF Found
    <3> QED BY <1>0, <3>1
  <2> DEFINE at == [k \in 1..m |-> after[k]]
  <2>5. /\ at \in [DOMAIN p.steps -> DOMAIN requests]
        /\ \A k \in DOMAIN p.steps : Hit(k, at[k])
        /\ \A k, l \in DOMAIN p.steps : k < l => at[k] < at[l]
    BY <2>4
  <2> HIDE DEF at
  <2> QED BY <2>5 DEF Occurs, Hit
<1>3. ASSUME Occurs(p, requests) PROVE after[m] =< n
  <2>1. PICK at \in [1..m -> 1..n] :
             /\ \A k \in 1..m : Hit(k, at[k])
             /\ \A k, l \in 1..m : k < l => at[k] < at[l]
    BY <1>3 DEF Occurs, Hit
  <2> DEFINE T == {k \in Nat : k \in 1..m => after[k] =< at[k]}
  <2>2. 0 \in T
    OBVIOUS
  <2>3. ASSUME NEW k \in T, NEW j, j = k + 1 PROVE j \in T
    <3> SUFFICES ASSUME j \in 1..m PROVE after[j] =< at[j]
      BY <2>3
    <3>1. /\ j - 1 = k /\ k \in Nat /\ k \in 0..m /\ after[k] \in 0..(n + 1) /\ at[j] \in 1..n
          /\ Hit(j, at[j])
      <4>1. j - 1 = k /\ k \in Nat /\ k \in 0..m
        BY <1>0, <2>3
      <4> QED BY <1>1, <2>1, <4>1
    <3>2. after[k] < at[j]
      <4>1. CASE k = 0
        BY <1>1, <3>1, <4>1
      <4>2. CASE k # 0
        <5>1. k \in 1..m /\ after[k] =< at[k]
          BY <3>1, <4>2
        <5>2. at[k] < at[j] /\ at[k] \in 1..n
          BY <2>1, <2>3, <5>1
        <5> QED BY <3>1, <5>1, <5>2
      <4> QED BY <4>1, <4>2
    <3>3. at[j] \in (after[k] + 1)..n
      BY <1>0, <3>1, <3>2
    <3>4. \A i \in (after[j - 1] + 1)..n : Hit(j, i) => after[j] =< i
      BY <1>1
    <3> QED BY <3>1, <3>3, <3>4
  <2>4. T = Nat
    <3>1. T \in SUBSET Nat
      OBVIOUS
    <3> HIDE DEF T
    <3> QED BY <2>2, <2>3, <3>1, SetInduction
  <2>5. after[m] =< at[m] /\ at[m] \in 1..n /\ after[m] \in 0..(n + 1)
    BY <1>0, <1>1, <2>4
  <2> QED BY <1>0, <2>5
<1> QED BY <1>1, <1>2, <1>3

\* Counting the hits in the window finds a pattern exactly when enough of them exist.
LEMMA ThresholdOccurs ==
  ASSUME NEW p, p.type # "SEQUENCE", p.count \in Nat, p.window = None \/ p.window \in Nat,
         NEW requests, Len(requests) \in Nat, DOMAIN requests = 1..Len(requests)
  PROVE  MatchThreshold(p, requests) <=> Occurs(p, requests)
<1> DEFINE n == Len(requests)
           first == IF p.window = None \/ p.window > n THEN 1 ELSE n - p.window + 1
           Hit(j) == PatternStepMatches(p.steps[1], requests[j])
           H == {j \in first..n : Hit(j)}
<1> HIDE DEF Hit
<1>0. n \in Nat /\ first \in Int /\ first >= 1
  OBVIOUS
<1>1. MatchThreshold(p, requests) <=> Cardinality(H) >= p.count
  BY DEF MatchThreshold, Hit
<1>2. Occurs(p, requests) <=>
        \E hits \in SUBSET (1..n) :
           /\ Cardinality(hits) >= p.count
           /\ \A j \in hits : Hit(j)
           /\ p.window # None => \A j \in hits : j + p.window > n
  BY DEF Occurs, Hit
<1>3. H \in SUBSET (1..n) /\ (\A j \in H : Hit(j)) /\ (p.window # None => \A j \in H : j + p.window > n)
  BY <1>0
<1>4. ASSUME NEW hits \in SUBSET (1..n), \A j \in hits : Hit(j),
             p.window # None => \A j \in hits : j + p.window > n
      PROVE  hits \subseteq H
  <2> SUFFICES ASSUME NEW j \in hits PROVE j \in first..n
    BY <1>4
  <2> QED BY <1>0, <1>4
<1> HIDE DEF H, n
<1>5. IsFiniteSet(H) /\ Cardinality(H) \in Nat
  <2>1. IsFiniteSet(1..n)
    BY <1>0, FS_Interval
  <2> QED BY <1>3, <2>1, FS_Subset, FS_CardinalityType
<1>6. ASSUME NEW hits \in SUBSET H PROVE Cardinality(hits) =< Cardinality(H) /\ Cardinality(hits) \in Nat
  BY <1>5, FS_Subset, FS_CardinalityType
<1> QED BY <1>1, <1>2, <1>3, <1>4, <1>5, <1>6

-----------------------------------------------------------------------------
(***************************************************************************)
(* What histories show: HistoryInv is inductive.                           *)
(***************************************************************************)

\* What the contract in force lets run continues a path of its workflow.
LEMMA AllowedFollows ==
  ASSUME TypeOK, NEW r \in Requests, contract \in Contracts, contract.workflow # None,
         Decision(r, events) # "BLOCK"
  PROVE  IsPath(contract.workflow, Append(Authorized(events), r))
<1>1. WithinContract(contract, r, events)
  <2>1. contract # None /\ contract # NoneActive
    OBVIOUS
  <2> QED BY <2>1 DEF Decision
<1>2. FollowsWorkflow(contract.workflow, Append(Authorized(events), r))
  BY <1>1 DEF WithinContract, WorkflowAllows
<1>3. Authorized(events) \in Seq(Requests)
  <2>1. events \in Seq(EventType) /\ Len(events) \in 0..Len(events)
    BY DEF TypeOK
  <2> QED BY <2>1, TrajectoryFacts DEF Authorized
<1> DEFINE s == Append(Authorized(events), r)
<1>4. Len(s) \in Nat \ {0} /\ DOMAIN s = 1..Len(s)
  BY <1>3
<1> HIDE DEF s
<1>5. FollowsWorkflow(contract.workflow, s)
  BY <1>2 DEF s
<1>6. IsPath(contract.workflow, s)
  BY <1>4, <1>5, FollowsIsPath
<1> QED BY <1>6 DEF s

\* Pattern p occurs at event i of history h, which was new.
OccursAt(h, p, i) ==
    h[i].origin = i /\ Occurs(p, SubSeq(RequestsOf(h), 1, i))

LEMMA RequestsOfFacts ==
  ASSUME NEW h \in Seq(EventType)
  PROVE  /\ RequestsOf(h) \in Seq(Requests) /\ Len(RequestsOf(h)) = Len(h)
         /\ \A i \in DOMAIN h : RequestsOf(h)[i] = h[i].request
         /\ \A i \in 1..Len(h) :
              SubSeq(RequestsOf(h), 1, i) = [k \in 1..i |-> h[k].request]
<1>1. \A i \in 1..Len(h) : h[i].request \in Requests
  <2>1. \A i \in 1..Len(h) : h[i] \in EventType
    OBVIOUS
  <2> QED BY <2>1 DEF EventType
<1>2. RequestsOf(h) \in [1..Len(h) -> Requests] /\ \A i \in 1..Len(h) : RequestsOf(h)[i] = h[i].request
  BY <1>1 DEF RequestsOf
<1>3. RequestsOf(h) \in Seq(Requests) /\ Len(RequestsOf(h)) = Len(h)
  BY <1>2
<1> HIDE DEF RequestsOf
<1>4. ASSUME NEW i \in 1..Len(h)
      PROVE  SubSeq(RequestsOf(h), 1, i) = [k \in 1..i |-> h[k].request]
  <2> DEFINE s == RequestsOf(h)
  <2>1. SubSeq(s, 1, i) = [k \in 1..i |-> s[k]]
    BY <1>3
  <2>2. \A k \in 1..i : s[k] = h[k].request
    BY <1>2
  <2> QED BY <2>1, <2>2
<1> QED BY <1>2, <1>3, <1>4

LEMMA OccursAgrees ==
  ASSUME NEW g \in Seq(EventType), NEW h \in Seq(EventType), NEW p, NEW i \in Nat,
         i \in DOMAIN g, i \in DOMAIN h, g[i].origin = h[i].origin,
         \A k \in 1..i : g[k].request = h[k].request
  PROVE  OccursAt(g, p, i) <=> OccursAt(h, p, i)
<1>1. SubSeq(RequestsOf(g), 1, i) = SubSeq(RequestsOf(h), 1, i)
  <2>1. i \in 1..Len(g) /\ i \in 1..Len(h)
    OBVIOUS
  <2> QED BY <2>1, RequestsOfFacts
<1> QED BY <1>1 DEF OccursAt

\* OneSignalPerPattern, signal by signal.
LEMMA SignalsMeaning ==
  ASSUME NEW sigs, NEW h \in Seq(EventType)
  PROVE  sigs = {s \in Patterns \X DOMAIN h :
                   /\ s[2] \in {i \in DOMAIN h : OccursAt(h, s[1], i)}
                   /\ \A i \in {j \in DOMAIN h : OccursAt(h, s[1], j)} : s[2] =< i}
         <=> /\ sigs \subseteq Patterns \X DOMAIN h
             /\ \A p \in Patterns, i \in DOMAIN h :
                  <<p, i>> \in sigs <=>
                    OccursAt(h, p, i) /\ \A j \in DOMAIN h : OccursAt(h, p, j) => i =< j
<1> DEFINE First(p, i) == OccursAt(h, p, i) /\ \A j \in DOMAIN h : OccursAt(h, p, j) => i =< j
           S == {s \in Patterns \X DOMAIN h : First(s[1], s[2])}
<1>1. S = {s \in Patterns \X DOMAIN h :
             /\ s[2] \in {i \in DOMAIN h : OccursAt(h, s[1], i)}
             /\ \A i \in {j \in DOMAIN h : OccursAt(h, s[1], j)} : s[2] =< i}
  OBVIOUS
<1> HIDE DEF First
<1>2. sigs = S <=> /\ sigs \subseteq Patterns \X DOMAIN h
                   /\ \A p \in Patterns, i \in DOMAIN h : <<p, i>> \in sigs <=> First(p, i)
  <2>1. \A s \in Patterns \X DOMAIN h : s[1] \in Patterns /\ s[2] \in DOMAIN h /\ s = <<s[1], s[2]>>
    OBVIOUS
  <2>2. \A p \in Patterns, i \in DOMAIN h : <<p, i>> \in S <=> First(p, i)
    OBVIOUS
  <2>3. \A s \in S : s \in Patterns \X DOMAIN h
    OBVIOUS
  <2> HIDE DEF S
  <2>4. ASSUME sigs \subseteq Patterns \X DOMAIN h,
               \A p \in Patterns, i \in DOMAIN h : <<p, i>> \in sigs <=> First(p, i)
        PROVE  sigs = S
    <3>1. ASSUME NEW s \in sigs PROVE s \in S
      BY <2>1, <2>2, <2>4
    <3>2. ASSUME NEW s \in S PROVE s \in sigs
      BY <2>1, <2>2, <2>3, <2>4
    <3> QED BY <3>1, <3>2
  <2> QED BY <2>2, <2>3, <2>4
<1> QED BY <1>1, <1>2 DEF First

SignalsInv(sigs, h) ==
    /\ sigs \subseteq Patterns \X DOMAIN h
    /\ \A p \in Patterns, i \in DOMAIN h :
         <<p, i>> \in sigs <=> OccursAt(h, p, i) /\ \A j \in DOMAIN h : OccursAt(h, p, j) => i =< j

LEMMA OneSignal ==
  ASSUME events \in Seq(EventType) PROVE OneSignalPerPattern <=> SignalsInv(signals, events)
BY SignalsMeaning DEF OneSignalPerPattern, SignalsInv, OccursAt

\* The engine finds a pattern exactly when it occurs: the greedy search of
\* match_sequence misses no order of hits, and match_threshold counts each hit of its
\* window once (engines/behavior.py, evaluate).
THEOREM PatternSearch ==
  ASSUME NEW p \in Patterns, NEW requests, Len(requests) \in Nat, DOMAIN requests = 1..Len(requests)
  PROVE  PatternMatches(p, requests) <=> Occurs(p, requests)
<1>1. ValidPattern(p)
  BY ValidAssumption
<1>2. CASE p.type = "SEQUENCE"
  <2>1. Len(p.steps) \in Nat \ {0} /\ DOMAIN p.steps = 1..Len(p.steps)
    <3>1. Len(p.steps) \in 2..20 /\ DOMAIN p.steps = 1..Len(p.steps)
      BY <1>1, <1>2, Zenon DEF ValidPattern
    <3>2. \A k \in 2..20 : k \in Nat \ {0}
      OBVIOUS
    <3> QED BY <3>1, <3>2, Zenon
  <2> QED BY <1>2, <2>1, SequenceOccurs DEF PatternMatches
<1>3. CASE p.type # "SEQUENCE"
  <2>1. p.count \in Nat /\ (p.window = None \/ p.window \in Nat)
    BY <1>1, <1>3 DEF ValidPattern
  <2> QED BY <1>3, <2>1, ThresholdOccurs DEF PatternMatches
<1> QED BY <1>2, <1>3

\* A step that leaves alone what the events record, but for their grants.
LEMMA HistoryKept ==
  ASSUME HistoryInv, events \in Seq(EventType), events' \in Seq(EventType),
         Len(events') = Len(events), signals' = signals,
         \A i \in DOMAIN events :
           /\ events'[i].request = events[i].request /\ events'[i].decision = events[i].decision
           /\ events'[i].contract = events[i].contract /\ events'[i].origin = events[i].origin
  PROVE  HistoryInv'
<1>1. Len(events) \in Nat /\ DOMAIN events = 1..Len(events) /\ DOMAIN events' = 1..Len(events)
  OBVIOUS
<1>2. ASSUME NEW p, NEW i \in DOMAIN events PROVE OccursAt(events', p, i) <=> OccursAt(events, p, i)
  <2>1. i \in Nat /\ \A k \in 1..i : k \in DOMAIN events
    BY <1>1
  <2> QED BY <1>1, <2>1, OccursAgrees
<1>3. SignalsInv(signals, events)
  BY OneSignal DEF HistoryInv
<1>4. SignalsInv(signals', events')
  BY <1>1, <1>2, <1>3 DEF SignalsInv
<1>5. OneSignalPerPattern'
  BY <1>4, SignalsMeaning DEF OneSignalPerPattern, SignalsInv, OccursAt
<1>6. ASSUME NEW i \in DOMAIN events' PROVE FollowedInv(i)'
  <2>1. i \in DOMAIN events /\ i \in 0..Len(events)
    BY <1>1
  <2>2. Trajectory(events')[i] = Trajectory(events)[i]
    <3>1. Len(events') =< Len(events)
      BY <1>1
    <3>2. \A j \in 1..Len(events') :
            events'[j].decision = events[j].decision /\ events'[j].request = events[j].request
      BY <1>1
    <3> QED BY <1>1, <2>1, <3>1, <3>2, TrajectoryAgrees
  <2>3. FollowedInv(i)
    BY <2>1 DEF HistoryInv
  <2> QED BY <2>1, <2>2, <2>3 DEF FollowedInv
<1> QED BY <1>5, <1>6 DEF HistoryInv

\* A step that appends an event.
LEMMA HistoryGrows ==
  ASSUME HistoryInv, events \in Seq(EventType), events' \in Seq(EventType),
         Len(events') = Len(events) + 1, \A i : i = Len(events) + 1 => FollowedInv(i)',
         SignalsInv(signals', events'),
         \A i \in DOMAIN events :
           /\ events'[i].request = events[i].request /\ events'[i].decision = events[i].decision
           /\ events'[i].contract = events[i].contract /\ events'[i].origin = events[i].origin
  PROVE  HistoryInv'
<1>1. Len(events) \in Nat /\ DOMAIN events = 1..Len(events) /\ DOMAIN events' = 1..(Len(events) + 1)
  OBVIOUS
<1>2. OneSignalPerPattern'
  BY SignalsMeaning DEF OneSignalPerPattern, SignalsInv, OccursAt
<1>3. ASSUME NEW i \in DOMAIN events PROVE FollowedInv(i)'
  <2>1. i \in 0..Len(events)
    BY <1>1
  <2>2. Trajectory(events)[i] = Trajectory(events')[i]
    <3>1. Len(events) =< Len(events')
      BY <1>1
    <3>2. \A j \in 1..Len(events) :
            events[j].decision = events'[j].decision /\ events[j].request = events'[j].request
      BY <1>1
    <3> QED BY <2>1, <3>1, <3>2, TrajectoryAgrees
  <2>3. FollowedInv(i)
    BY DEF HistoryInv
  <2> QED BY <2>2, <2>3 DEF FollowedInv
<1>4. ASSUME NEW i \in DOMAIN events', i \notin DOMAIN events PROVE FollowedInv(i)'
  <2>1. i = Len(events) + 1
    BY <1>1, <1>4
  <2> QED BY <2>1
<1> QED BY <1>2, <1>3, <1>4 DEF HistoryInv

\* What occurred at an event occurs there still when another is appended.
LEMMA OccurredBefore ==
  ASSUME events \in Seq(EventType), events' \in Seq(EventType), Len(events') = Len(events) + 1,
         \A i \in DOMAIN events :
           events'[i].request = events[i].request /\ events'[i].origin = events[i].origin
  PROVE  \A p, i : i \in DOMAIN events => (OccursAt(events', p, i) <=> OccursAt(events, p, i))
<1> SUFFICES ASSUME NEW p, NEW i \in DOMAIN events
             PROVE  OccursAt(events', p, i) <=> OccursAt(events, p, i)
  OBVIOUS
<1>1. Len(events) \in Nat /\ DOMAIN events = 1..Len(events) /\ DOMAIN events' = 1..(Len(events) + 1)
  OBVIOUS
<1>2. i \in Nat /\ i \in DOMAIN events' /\ \A k \in 1..i : k \in DOMAIN events
  BY <1>1
<1> QED BY <1>2, OccursAgrees

\* persist_signals adds the patterns that occur now and did not before.
LEMMA SubmitHistory ==
  ASSUME IInv, HistoryInv, NEW r \in Requests, Submit(r), events' \in Seq(EventType)
  PROVE  HistoryInv'
<1> DEFINE d == Decision(r, events)
           n == Len(events) + 1
           e == [request |-> r, decision |-> Gated(r, d), contract |-> Resolved,
                 origin |-> n, grant |-> GrantFor(d, Gated(r, d))]
           s == Append(RequestsOf(events), r)
<1>0. TypeOK /\ events \in Seq(EventType) /\ Len(events) \in Nat /\ n \in Nat
  BY DEF IInv, TypeOK
<1>1. events' = Append(events, e)
  BY DEF Submit
<1> HIDE DEF d
<1>2. /\ Len(events') = n /\ DOMAIN events = 1..Len(events) /\ DOMAIN events' = 1..n
      /\ events'[n] = e
      /\ \A i \in DOMAIN events : events'[i] = events[i]
  BY <1>0, <1>1
<1> DEFINE sNow == SubSeq(RequestsOf(events'), 1, n)
<1>3. s = sNow /\ Len(s) = n /\ DOMAIN s = 1..n
  <2>1. RequestsOf(events) \in Seq(Requests) /\ Len(RequestsOf(events)) = Len(events)
        /\ \A i \in DOMAIN events : RequestsOf(events)[i] = events[i].request
    BY <1>0, RequestsOfFacts
  <2>2. s \in Seq(Requests) /\ Len(s) = n /\ DOMAIN s = 1..n /\ s = [i \in 1..n |-> s[i]]
        /\ s[n] = r /\ \A i \in 1..Len(events) : s[i] = RequestsOf(events)[i]
    <3> DEFINE q == RequestsOf(events)
    <3>1. q \in Seq(Requests) /\ Len(q) = Len(events)
      BY <2>1
    <3> HIDE DEF q
    <3>2. /\ Append(q, r) \in Seq(Requests) /\ Len(Append(q, r)) = n
          /\ Append(q, r)[n] = r /\ \A i \in 1..Len(events) : Append(q, r)[i] = q[i]
      BY <1>0, <3>1
    <3> DEFINE t == Append(q, r)
    <3>3. t \in Seq(Requests) /\ Len(t) = n
      BY <3>2
    <3> HIDE DEF t
    <3>4. DOMAIN t = 1..n /\ t = [i \in 1..n |-> t[i]]
      BY <3>3
    <3> QED BY <3>2, <3>4 DEF t, q
  <2>3. sNow = [k \in 1..n |-> events'[k].request]
    <3>1. n \in 1..Len(events')
      BY <1>0, <1>2
    <3> QED BY <3>1, RequestsOfFacts
  <2> HIDE DEF s
  <2>4. ASSUME NEW k \in 1..n PROVE s[k] = events'[k].request
    <3>1. CASE k = n
      BY <1>2, <2>2, <3>1
    <3>2. CASE k # n
      <4>1. k \in DOMAIN events
        BY <1>0, <1>2, <3>2
      <4> QED BY <1>2, <2>1, <2>2, <4>1
    <3> QED BY <3>1, <3>2
  <2>5. s = [k \in 1..n |-> events'[k].request]
    BY <2>2, <2>4
  <2> QED BY <2>2, <2>3, <2>5
<1>4. SignalsInv(signals', events')
  <2> DEFINE new == {<<p, n>> : p \in {q \in Patterns :
                       PatternMatches(q, s) /\ ~ \E t \in signals : t[1] = q}}
  <2>1. signals' = signals \union new
    <3>1. NewSignals(s) = new
      BY <1>3 DEF NewSignals
    <3> QED BY <3>1 DEF Submit
  <2>2. SignalsInv(signals, events)
    BY <1>0, OneSignal DEF HistoryInv
  <2>3. ASSUME NEW p \in Patterns
        PROVE  PatternMatches(p, s) <=> OccursAt(events', p, n)
    <3>1. PatternMatches(p, s) <=> Occurs(p, s)
      <4> HIDE DEF s
      <4> QED BY <1>0, <1>3, PatternSearch
    <3>2. events'[n].origin = n
      BY <1>2
    <3> HIDE DEF s
    <3> QED BY <1>3, <3>1, <3>2 DEF OccursAt
  <2>4. ASSUME NEW p \in Patterns
        PROVE  (\E t \in signals : t[1] = p) <=> \E i \in DOMAIN events : OccursAt(events, p, i)
    <3>1. ASSUME NEW t \in signals, t[1] = p PROVE \E i \in DOMAIN events : OccursAt(events, p, i)
      <4>1. t \in Patterns \X DOMAIN events
        BY <2>2 DEF SignalsInv
      <4>2. t = <<p, t[2]>> /\ t[2] \in DOMAIN events
        BY <3>1, <4>1
      <4> QED BY <2>2, <4>2 DEF SignalsInv
    <3>2. ASSUME NEW j \in DOMAIN events, OccursAt(events, p, j) PROVE \E t \in signals : t[1] = p
      <4> DEFINE O == {i \in DOMAIN events : OccursAt(events, p, i)}
      <4>1. O \in SUBSET Nat /\ O # {}
        BY <1>0, <3>2
      <4>2. PICK i \in O : \A k \in O : i =< k
        <5> HIDE DEF O
        <5> QED BY <4>1, LeastNumber
      <4>3. <<p, i>> \in signals
        BY <2>2, <4>2 DEF SignalsInv
      <4> QED BY <4>3
    <3> QED BY <3>1, <3>2
  <2>5. \A p, i : i \in DOMAIN events => (OccursAt(events', p, i) <=> OccursAt(events, p, i))
    BY <1>0, <1>2, OccurredBefore
  <2>6. ASSUME NEW p \in Patterns
        PROVE  <<p, n>> \in signals' <=>
                 OccursAt(events', p, n) /\ \A i \in DOMAIN events : ~OccursAt(events', p, i)
    <3>1. <<p, n>> \notin signals
      <4>1. n \notin DOMAIN events
        BY <1>0, <1>2
      <4> QED BY <2>2, <4>1 DEF SignalsInv
    <3>2. <<p, n>> \in new <=> PatternMatches(p, s) /\ ~ \E t \in signals : t[1] = p
      <4> HIDE DEF s, n
      <4> QED OBVIOUS
    <3> HIDE DEF new
    <3> QED BY <2>1, <2>3, <2>4, <2>5, <3>1, <3>2
  <2>7. ASSUME NEW p \in Patterns, NEW i \in DOMAIN events
        PROVE  <<p, i>> \in signals' <=> <<p, i>> \in signals
    <3>1. <<p, i>> \notin new
      <4>1. i # n
        BY <1>0, <1>2
      <4> HIDE DEF s, n
      <4> QED BY <4>1
    <3> QED BY <2>1, <3>1
  <2>8. signals' \subseteq Patterns \X DOMAIN events'
    <3>1. signals \subseteq Patterns \X DOMAIN events'
      <4>1. DOMAIN events \subseteq DOMAIN events'
        BY <1>0, <1>2
      <4> QED BY <2>2, <4>1 DEF SignalsInv
    <3>2. new \subseteq Patterns \X DOMAIN events'
      <4>1. n \in DOMAIN events'
        BY <1>0, <1>2
      <4> HIDE DEF s, n
      <4> QED BY <4>1
    <3> QED BY <2>1, <3>1, <3>2
  <2>9. ASSUME NEW p \in Patterns, NEW i \in DOMAIN events'
        PROVE  <<p, i>> \in signals' <=>
                 OccursAt(events', p, i) /\ \A j \in DOMAIN events' : OccursAt(events', p, j) => i =< j
    <3>1. /\ i = n \/ i \in DOMAIN events
          /\ \A j \in DOMAIN events' : j = n \/ j \in DOMAIN events
          /\ \A j \in DOMAIN events : j \in DOMAIN events' /\ j < n /\ j \in Nat
          /\ n =< n
      BY <1>0, <1>2
    <3>2. CASE i = n
      <4>1. (\A j \in DOMAIN events' : OccursAt(events', p, j) => n =< j)
              <=> \A j \in DOMAIN events : ~OccursAt(events', p, j)
        <5>1. \A j \in DOMAIN events : ~(n =< j)
          BY <1>0, <3>1
        <5> HIDE DEF n
        <5> QED BY <3>1, <5>1
      <4> HIDE DEF n
      <4> QED BY <2>6, <3>2, <4>1
    <3>3. CASE i \in DOMAIN events
      <4>1. <<p, i>> \in signals' <=>
              OccursAt(events, p, i) /\ \A j \in DOMAIN events : OccursAt(events, p, j) => i =< j
        BY <2>2, <2>7, <3>3 DEF SignalsInv
      <4>2. i =< n
        BY <3>1, <3>3, <1>0
      <4> HIDE DEF n
      <4> QED BY <2>5, <3>1, <3>3, <4>1, <4>2
    <3> QED BY <3>1, <3>2, <3>3
  <2> QED BY <2>8, <2>9 DEF SignalsInv
<1>5. ASSUME NEW m, m = n PROVE FollowedInv(m)'
  <2> SUFFICES ASSUME Gated(r, d) = "ALLOW", Resolved # None, Resolved.workflow # None
               PROVE  IsPath(Resolved.workflow, Trajectory(events')[n])
    <3>1. /\ events'[n].decision = Gated(r, d) /\ events'[n].contract = Resolved
      BY <1>2
    <3>2. events'[m].decision = Gated(r, d) /\ events'[m].contract = Resolved
      BY <1>5, <3>1
    <3> HIDE DEF n, e
    <3> QED BY <1>5, <3>2 DEF FollowedInv
  <2>1. contract \in Contracts /\ Resolved = contract
    BY DEF Resolved
  <2>2. d # "BLOCK"
    BY DEF Gated
  <2>3. IsPath(contract.workflow, Append(Authorized(events), r))
    BY <1>0, <2>1, <2>2, AllowedFollows DEF d
  <2>4. Trajectory(events')[n] = Append(Trajectory(events')[n - 1], r)
    <3>1. n \in 1..Len(events')
      BY <1>0, <1>2
    <3>2. events'[n].decision = "ALLOW" /\ events'[n].request = r
      BY <1>2
    <3> QED BY <3>1, <3>2, TrajectoryFacts
  <2>5. Trajectory(events')[n - 1] = Authorized(events)
    <3>1. n - 1 = Len(events) /\ Len(events) \in 0..Len(events) /\ Len(events) =< Len(events')
      BY <1>0, <1>2
    <3>2. \A j \in 1..Len(events) :
            events[j].decision = events'[j].decision /\ events[j].request = events'[j].request
      BY <1>2
    <3>3. Trajectory(events)[Len(events)] = Trajectory(events')[Len(events)]
      BY <1>0, <3>1, <3>2, TrajectoryAgrees
    <3> QED BY <3>1, <3>3 DEF Authorized
  <2> QED BY <2>1, <2>3, <2>4, <2>5
<1> QED BY <1>0, <1>2, <1>4, <1>5, HistoryGrows

\* A resumed request occurs nowhere, and its origin keeps the history as it was.
LEMMA RedeemHistory ==
  ASSUME IInv, HistoryInv, NEW k \in DOMAIN events, Redeem(k), events' \in Seq(EventType)
  PROVE  HistoryInv'
<1> DEFINE n == Len(events) + 1
           e == [request |-> events[k].request, decision |-> Gated(events[k].request, "ALLOW"),
                 contract |-> Resolved, origin |-> k, grant |-> "none"]
           before == [events EXCEPT ![k].grant = "consumed"]
<1>0. TypeOK /\ events \in Seq(EventType) /\ Len(events) \in Nat /\ n \in Nat
      /\ DOMAIN events = 1..Len(events)
  BY DEF IInv, TypeOK
<1>1. events' = Append(before, e) /\ signals' = signals
  BY DEF Redeem
<1>2. /\ before \in Seq(EventType) /\ Len(before) = Len(events)
      /\ \A i \in DOMAIN events :
           /\ before[i].request = events[i].request /\ before[i].decision = events[i].decision
           /\ before[i].contract = events[i].contract /\ before[i].origin = events[i].origin
  <2>1. ASSUME NEW v \in Grantings, NEW s, s = [events EXCEPT ![k].grant = v]
        PROVE  /\ s \in Seq(EventType) /\ Len(s) = Len(events)
               /\ \A i \in DOMAIN events :
                    /\ s[i].request = events[i].request /\ s[i].decision = events[i].decision
                    /\ s[i].contract = events[i].contract /\ s[i].origin = events[i].origin
    BY <1>0, <2>1, GrantUpdate
  <2>2. "consumed" \in Grantings
    BY DEF Grantings
  <2> QED BY <2>1, <2>2
<1> HIDE DEF before, e
<1>3. /\ Len(events') = n /\ DOMAIN events' = 1..n /\ events'[n] = e
      /\ \A i \in DOMAIN events : events'[i] = before[i]
  BY <1>0, <1>1, <1>2
<1>4. events'[n].origin = k /\ k # n
  <2>1. k # n
    BY <1>0
  <2> QED BY <1>3, <2>1 DEF e
<1>5. \A p, i : i \in DOMAIN events => (OccursAt(events', p, i) <=> OccursAt(events, p, i))
  BY <1>0, <1>2, <1>3, OccurredBefore
<1>6. \A p : ~OccursAt(events', p, n)
  BY <1>4 DEF OccursAt
<1>7. SignalsInv(signals', events')
  <2>1. SignalsInv(signals, events)
    BY <1>0, OneSignal DEF HistoryInv
  <2>2. /\ DOMAIN events \subseteq DOMAIN events' /\ n \notin DOMAIN events
        /\ \A i \in DOMAIN events' : i = n \/ i \in DOMAIN events
    BY <1>0, <1>3
  <2> HIDE DEF n
  <2>3. signals' \subseteq Patterns \X DOMAIN events'
    BY <1>1, <2>1, <2>2 DEF SignalsInv
  <2>4. ASSUME NEW p \in Patterns, NEW i \in DOMAIN events'
        PROVE  <<p, i>> \in signals' <=>
                 OccursAt(events', p, i) /\ \A j \in DOMAIN events' : OccursAt(events', p, j) => i =< j
    <3>1. CASE i = n
      <4>1. <<p, i>> \notin signals
        BY <2>1, <2>2, <3>1 DEF SignalsInv
      <4> QED BY <1>1, <1>6, <3>1, <4>1
    <3>2. CASE i \in DOMAIN events
      <4>1. <<p, i>> \in signals <=>
              OccursAt(events, p, i) /\ \A j \in DOMAIN events : OccursAt(events, p, j) => i =< j
        BY <2>1, <3>2 DEF SignalsInv
      <4> QED BY <1>1, <1>5, <1>6, <2>2, <3>2, <4>1
    <3> QED BY <2>2, <3>1, <3>2
  <2> QED BY <2>3, <2>4 DEF SignalsInv
<1>8. \A i : i = Len(events) + 1 => FollowedInv(i)'
  <2> SUFFICES ASSUME NEW i, i = n PROVE FollowedInv(i)'
    OBVIOUS
  <2>1. events'[i].origin # i
    BY <1>4
  <2> QED BY <2>1 DEF FollowedInv
<1>9. \A i \in DOMAIN events :
        /\ events'[i].request = events[i].request /\ events'[i].decision = events[i].decision
        /\ events'[i].contract = events[i].contract /\ events'[i].origin = events[i].origin
  BY <1>2, <1>3
<1> QED BY <1>0, <1>3, <1>7, <1>8, <1>9, HistoryGrows

\* Every step keeps what histories show.
LEMMA NextHistory ==
  ASSUME IInv, IInv', HistoryInv, [Next]_vars PROVE HistoryInv'
<1>0. TypeOK /\ events \in Seq(EventType) /\ events' \in Seq(EventType)
  BY DEF IInv, TypeOK
<1>1. ASSUME NEW r \in Requests, Submit(r) PROVE HistoryInv'
  BY <1>0, <1>1, SubmitHistory
<1>2. ASSUME NEW i \in DOMAIN events, Decide(i) PROVE HistoryInv'
  <2>1. PICK v \in {"approved", "denied"} : events' = [events EXCEPT ![i].grant = v]
    BY <1>2 DEF Decide
  <2>2. signals' = signals
    BY <1>2 DEF Decide
  <2>3. /\ Len(events') = Len(events)
        /\ \A j \in DOMAIN events :
             /\ events'[j].request = events[j].request /\ events'[j].decision = events[j].decision
             /\ events'[j].contract = events[j].contract /\ events'[j].origin = events[j].origin
    BY <1>0, <2>1, GrantUpdate DEF Grantings
  <2> QED BY <1>0, <2>2, <2>3, HistoryKept
<1>3. ASSUME NEW k \in DOMAIN events, Redeem(k) PROVE HistoryInv'
  BY <1>0, <1>3, RedeemHistory
<1>4. ASSUME events' = events, signals' = signals PROVE HistoryInv'
  BY <1>0, <1>4, HistoryKept
<1>5. CASE \E p \in MorePermissions : AddPermission(p)
  BY <1>4, <1>5 DEF AddPermission, Change
<1>6. CASE \E p \in Policies : TogglePolicy(p)
  BY <1>4, <1>6 DEF TogglePolicy, Change
<1>7. CASE \E c \in Contracts : ActivateContract(c)
  BY <1>4, <1>7 DEF ActivateContract, Change
<1>8. CASE RetireContract \/ ToggleMailbox
  BY <1>4, <1>8 DEF RetireContract, ToggleMailbox, Change
<1>9. CASE UNCHANGED vars
  BY <1>4, <1>9 DEF vars
<1> QED BY <1>1, <1>2, <1>3, <1>5, <1>6, <1>7, <1>8, <1>9 DEF Next

\* An execution starts with no events and no signals.
LEMMA InitHistory == ASSUME Init PROVE HistoryInv
<1>1. events = <<>> /\ signals = {} /\ DOMAIN events = {} /\ events \in Seq(EventType)
  BY DEF Init
<1>2. SignalsInv(signals, events)
  BY <1>1 DEF SignalsInv
<1>3. OneSignalPerPattern
  BY <1>1, <1>2, OneSignal
<1> QED BY <1>1, <1>3 DEF HistoryInv

\* What contracts let run continued their workflow, and each pattern has raised the one
\* signal it should, in every reachable state (_evaluate_workflow, persist_signals).
THEOREM HistoryInvariant == Spec => [](IInv /\ HistoryInv)
<1>1. Init => HistoryInv
  BY InitHistory
<1>2. IInv /\ IInv' /\ HistoryInv /\ [Next]_vars => HistoryInv'
  BY NextHistory
<1> QED BY <1>1, <1>2, Invariant, PTL DEF Spec

\* A pattern raises one signal in an execution, at the first new request by which it
\* occurs: the search of match_sequence and the count of match_threshold find it where
\* it occurs and nowhere else (evaluate, persist_signals).
THEOREM SignalsOnce == Spec => []OneSignalPerPattern
<1>1. HistoryInv => OneSignalPerPattern
  BY DEF HistoryInv
<1> QED BY <1>1, HistoryInvariant, PTL

LEMMA InvFollows == ASSUME IInv, HistoryInv PROVE FollowsItsWorkflow
<1>0. TypeOK /\ events \in Seq(EventType) /\ Len(events) \in 0..Len(events)
      /\ DOMAIN events = 1..Len(events) /\ None \notin Contracts
  BY ConstantsAssumption DEF IInv, TypeOK
<1> SUFFICES ASSUME contract \in Contracts, contract.workflow # None,
                    \A i \in Allowed : events[i].contract = contract /\ events[i].origin = i
             PROVE  IsPath(contract.workflow, Authorized(events))
  BY DEF FollowsItsWorkflow
<1>1. CASE Authorized(events) = <<>>
  <2> DEFINE path == [x \in {} |-> x]
  <2>1. DOMAIN <<>> = {} /\ path \in [{} -> DOMAIN contract.workflow.steps]
    OBVIOUS
  <2> HIDE DEF path
  <2>2. IsPath(contract.workflow, <<>>)
    BY <2>1 DEF IsPath
  <2> QED BY <1>1, <2>2
<1>2. CASE Authorized(events) # <<>>
  <2>1. PICK i \in 1..Len(events) :
          events[i].decision = "ALLOW" /\ Trajectory(events)[i] = Authorized(events)
    BY <1>0, <1>2, TrajectoryEnds DEF Authorized
  <2>2. i \in Allowed
    BY <1>0, <2>1 DEF Allowed
  <2>3. FollowedInv(i)
    BY <1>0, <2>1 DEF HistoryInv
  <2> QED BY <1>0, <2>1, <2>2, <2>3 DEF FollowedInv
<1> QED BY <1>1, <1>2

\* What runs under a contract with a workflow follows it, as long as the contract stays
\* and nothing is resumed (_evaluate_workflow, authorized_trajectory).
THEOREM WorkflowFollowed == Spec => []FollowsItsWorkflow
<1>1. IInv /\ HistoryInv => FollowsItsWorkflow
  BY InvFollows
<1> QED BY <1>1, HistoryInvariant, PTL

LEMMA InvOffWorkflow == ASSUME IInv PROVE OffWorkflowIsBlocked
<1>0. TypeOK /\ events \in Seq(EventType) /\ Len(events) \in 0..Len(events)
  BY DEF IInv, TypeOK
<1> SUFFICES ASSUME contract \in Contracts, contract.workflow # None,
                    NEW r \in Requests, Decision(r, events) # "BLOCK"
             PROVE  IsPath(contract.workflow, Authorized(events))
  BY DEF OffWorkflowIsBlocked
<1>1. Authorized(events) \in Seq(Requests)
  BY <1>0, TrajectoryFacts DEF Authorized
<1>2. IsPath(contract.workflow, Append(Authorized(events), r))
  BY <1>0, AllowedFollows
<1> QED BY <1>1, <1>2, PathPrefix

\* An execution that has left its workflow gets nothing more decided than BLOCK
\* (_evaluate_workflow: no step is possible after a trajectory that is not a path).
THEOREM OffWorkflowBlocked == Spec => []OffWorkflowIsBlocked
<1>1. IInv => OffWorkflowIsBlocked
  BY InvOffWorkflow
<1> QED BY <1>1, Invariant, PTL
=============================================================================
