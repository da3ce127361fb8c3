---------------------------- MODULE DispatchProofs ----------------------------
(***************************************************************************)
(* Proofs of Dispatch for any number of requests and calls, any TTL and    *)
(* any number of broker restarts.                                          *)
(*                                                                         *)
(* The argument for the replay store: an entry is only purged once its     *)
(* token has expired, so until then, and until a restart, the store        *)
(* remembers every call that consumed the token (SeenInv).                 *)
(***************************************************************************)
EXTENDS Dispatch, TLAPS

LEMMA NoneIsNoRequest == None \notin Requests /\ None \notin Nat
BY ConstantsAssumption

LEMMA Counts == TTL \in Nat /\ TTL > 0 /\ MaxTime \in Nat /\ MaxRestarts \in Nat
BY ConstantsAssumption

LEMMA StatusIsKnown ==
    ASSUME NEW pc
    PROVE  /\ ResultStatus(pc) \in {"ok", "error", "not_executed"}
           /\ ResultStatus(pc) = "ok" => pc = "ok"
BY DEF ResultStatus

LEMMA InitIInv == Init => IInv
<1> SUFFICES ASSUME Init PROVE IInv
  OBVIOUS
<1>1. NewGate \in GateType /\ NewDelivery \in DeliveryType
  BY DEF NewGate, NewDelivery, GateType, DeliveryType
<1>2. contract \in ContractType
  BY Counts DEF Init, ContractType
<1>3. TypeOK
  BY <1>1, <1>2 DEF Init, TypeOK
<1>4. /\ \A r \in Requests : token[r] = None /\ gate[r].pc = "idle" /\ rows[r] = {}
      /\ \A d \in Deliveries : delivery[d].pc = "none" /\ ~delivery[d].used
                               /\ ~delivery[d].ran
  BY DEF Init, NewGate, NewDelivery
<1> QED BY <1>3, <1>4 DEF IInv, TokensInv, DeliveriesInv, SeenInv, AnsweredInv,
                          ExecutedMeansRan, UsedOnceUntilExpiry

-----------------------------------------------------------------------------

(***************************************************************************)
(* What the steps do to each variable.                                     *)
(***************************************************************************)

\* A response reaches only the gateway handler that waits for that call.
LEMMA ResponseReachesItsCaller ==
    ASSUME TypeOK, NEW d \in Deliveries, delivery[d].req \in Requests,
           NEW outcome \in {"ok", "failed"}
    PROVE  /\ Responded(d, outcome) \in [Requests -> GateType]
           /\ \A r \in Requests :
                 \/ Responded(d, outcome)[r] = gate[r]
                 \/ /\ gate[r].pc = "sent" /\ delivery[d].own /\ delivery[d].req = r
                    /\ Responded(d, outcome)[r] = [gate[r] EXCEPT !.pc = outcome]
<1>1. gate \in [Requests -> GateType]
  BY DEF TypeOK
<1>2. \A r \in Requests : [gate[r] EXCEPT !.pc = outcome] \in GateType
  BY <1>1 DEF GateType
<1>3. \A r \in Requests : Responded(d, outcome)[r] =
         IF r = delivery[d].req /\ delivery[d].own /\ gate[r].pc = "sent"
         THEN [gate[r] EXCEPT !.pc = outcome] ELSE gate[r]
  BY <1>1 DEF Responded
<1>4. Responded(d, outcome) =
         [r \in Requests |->
            IF r = delivery[d].req /\ delivery[d].own /\ gate[r].pc = "sent"
            THEN [gate[r] EXCEPT !.pc = outcome] ELSE gate[r]]
  BY <1>1, <1>3 DEF Responded
<1> QED BY <1>1, <1>2, <1>3, <1>4

\* The broker's steps, by what they do to the gateway's handlers.
LEMMA BrokerOnGate ==
    ASSUME IInv, NEW d \in Deliveries, Broker(d)
    PROVE  /\ UNCHANGED <<now, contract, token, restarts, rows>>
           /\ \/ UNCHANGED gate
              \/ gate' = Responded(d, "failed") /\ delivery[d].req \in Requests
              \/ /\ gate' = Responded(d, "ok") /\ delivery[d].req \in Requests
                 /\ delivery[d].ran
<1>1. delivery[d].pc # "none" => delivery[d].req \in Requests
  BY DEF IInv, DeliveriesInv
<1>2. CASE \E r \in Requests, own \in BOOLEAN : Deliver(d, r, own)
  BY <1>2 DEF Deliver
<1>3. CASE Verify(d) \/ Reject(d) \/ CallTool(d) \/ ToolFails(d) \/ BrokerTimesOut(d)
  BY <1>1, <1>3 DEF Verify, Reject, CallTool, ToolFails, BrokerTimesOut, Handle
<1>4. CASE Consume(d)
  BY <1>1, <1>4 DEF Consume
<1>5. CASE ToolRuns(d) \/ ToolAnswers(d)
  BY <1>1, <1>5 DEF ToolRuns, ToolAnswers, Handle
<1> QED BY <1>2, <1>3, <1>4, <1>5 DEF Broker

\* A gateway handler's moves.
LEMMA GateMoves ==
    ASSUME IInv, [Next]_vars, NEW r \in Requests
    PROVE  \/ gate'[r] = gate[r] /\ token'[r] = token[r]
           \/ token[r] = None /\ token'[r] = None /\ gate'[r].pc # "ok"
           \/ /\ token'[r] = now /\ gate'[r].pc = "sent" /\ gate'[r].decision = "ALLOW"
              /\ gate[r].pc = "checked"
           \/ /\ token'[r] = token[r] /\ gate'[r].pc \in {"failed", "done", "lost"}
              /\ gate'[r].decision = gate[r].decision
           \/ /\ token'[r] = token[r] /\ gate'[r].pc = "ok"
              /\ gate'[r].decision = gate[r].decision
              /\ \E d \in Deliveries : delivery[d].req = r /\ delivery[d].own
                                       /\ delivery[d].ran
<1>0. /\ TypeOK
      /\ gate \in [Requests -> GateType] /\ token \in [Requests -> Nat \union {None}]
      /\ token[r] # None => gate[r].pc \in {"sent", "ok", "failed", "done", "lost"}
  BY DEF IInv, TypeOK, TokensInv
<1>1. CASE UNCHANGED <<gate, token>>
  BY <1>1
<1>2. ASSUME NEW q \in Requests, Gateway(q), q # r
      PROVE  gate'[r] = gate[r] /\ token'[r] = token[r]
  BY <1>0, <1>2 DEF Gateway, Allow, Refuse, Recheck, Sign, TimeOut, Record, Crash,
                    Retry, GateStep, MayTimeOut
<1>3. CASE Gateway(r)
  <2>0. gate[r] \in GateType
    BY <1>0
  <2>1. CASE \E bound \in BOOLEAN : Allow(r, bound)
    BY <1>0, <2>0, <2>1 DEF Allow
  <2>2. CASE Refuse(r) \/ Recheck(r)
    BY <1>0, <2>0, <2>2 DEF Refuse, Recheck, GateStep, GateType
  <2>3. CASE Sign(r)
    BY <1>0, <2>0, <2>3 DEF Sign, GateStep, GateType, Dispatchable
  <2>4. CASE TimeOut(r) \/ Record(r) \/ Crash(r)
    BY <1>0, <2>0, <2>4 DEF TimeOut, Record, Crash, GateStep, GateType
  <2>5. CASE Retry(r)
    BY <2>5 DEF Retry
  <2> QED BY <1>3, <2>1, <2>2, <2>3, <2>4, <2>5 DEF Gateway
<1>4. ASSUME NEW d \in Deliveries, Broker(d), ~UNCHANGED <<gate, token>>
      PROVE  \/ gate'[r] = gate[r] /\ token'[r] = token[r]
             \/ /\ token'[r] = token[r] /\ gate'[r].pc \in {"failed", "ok"}
                /\ gate'[r].decision = gate[r].decision
                /\ gate'[r].pc = "ok" => delivery[d].req = r /\ delivery[d].own
                                         /\ delivery[d].ran
  <2>0. gate[r] \in GateType
    BY <1>0
  <2>1. token'[r] = token[r]
    BY <1>4, BrokerOnGate
  <2>2. PICK outcome \in {"ok", "failed"} :
           /\ gate' = Responded(d, outcome) /\ delivery[d].req \in Requests
           /\ outcome = "ok" => delivery[d].ran
    BY <1>4, BrokerOnGate
  <2>3. \/ gate'[r] = gate[r]
        \/ /\ delivery[d].own /\ delivery[d].req = r
           /\ gate'[r] = [gate[r] EXCEPT !.pc = outcome]
    BY <1>0, <2>2, ResponseReachesItsCaller
  <2> QED BY <2>0, <2>1, <2>2, <2>3 DEF GateType
<1>5. CASE Tick \/ Revoke \/ Restart
  BY <1>5 DEF Tick, Revoke, Restart
<1> QED BY <1>1, <1>2, <1>3, <1>4, <1>5 DEF Next, vars

\* A broker handler's moves.
LEMMA DeliveryMoves ==
    ASSUME IInv, [Next]_vars, NEW d \in Deliveries
    PROVE  /\ delivery'[d] \in DeliveryType
           /\ \/ delivery'[d].req = delivery[d].req /\ delivery'[d].own = delivery[d].own
                 /\ (delivery'[d].pc = "none" <=> delivery[d].pc = "none")
                 /\ (delivery'[d].pc = "none" => delivery'[d] = delivery[d])
                 /\ (delivery[d].ran => delivery'[d].ran)
                 /\ (delivery[d].used => delivery'[d].used)
              \/ /\ delivery[d].pc = "none" /\ delivery'[d].pc # "none"
                 /\ delivery'[d].req \in Requests /\ token[delivery'[d].req] # None
                 /\ ~delivery'[d].used /\ ~delivery'[d].ran
           /\ delivery'[d].used /\ ~delivery[d].used => Consume(d)
<1>0. delivery \in [Deliveries -> DeliveryType]
  BY DEF IInv, TypeOK
<1> DEFINE x == delivery[d]
<1>1. x \in DeliveryType
  BY <1>0
<1>2. CASE delivery'[d] = x
  BY <1>1, <1>2 DEF DeliveryType
<1>3. ASSUME NEW e \in Deliveries, Broker(e), e # d PROVE delivery'[d] = x
  BY <1>0, <1>3 DEF Broker, Deliver, Verify, Reject, Consume, CallTool, ToolRuns,
                    ToolAnswers, ToolFails, BrokerTimesOut, Handle
<1>4. CASE Broker(d)
  <2>1. ASSUME NEW r \in Requests, NEW own \in BOOLEAN, Deliver(d, r, own)
        PROVE  /\ delivery'[d] \in DeliveryType /\ delivery'[d].pc = "received"
               /\ delivery'[d].req = r /\ ~delivery'[d].used /\ ~delivery'[d].ran
               /\ x.pc = "none" /\ token[r] # None
    <3>1. /\ delivery'[d] = [pc |-> "received", req |-> r, own |-> own,
                             used |-> FALSE, ran |-> FALSE]
          /\ x.pc = "none" /\ token[r] # None
      BY <1>0, <2>1 DEF Deliver, NewDelivery
    <3>2. [pc |-> "received", req |-> r, own |-> own, used |-> FALSE, ran |-> FALSE]
             \in DeliveryType
      BY DEF DeliveryType
    <3> QED BY <3>1, <3>2
  <2>3. CASE \E from, to \in {"received", "verified", "consumed", "calling", "orphan",
                              "over"} : Handle(d, from, to)
    <3>1. PICK to \in {"received", "verified", "consumed", "calling", "orphan", "over"} :
             x.pc # "none" /\ delivery'[d] = [x EXCEPT !.pc = to]
      BY <1>0, <2>3 DEF Handle
    <3> QED BY <1>1, <3>1 DEF DeliveryType
  <2>4. Verify(d) \/ Reject(d) \/ CallTool(d) \/ ToolAnswers(d) \/ ToolFails(d)
           \/ BrokerTimesOut(d)
        => \E from, to \in {"received", "verified", "consumed", "calling", "orphan",
                            "over"} : Handle(d, from, to)
    BY DEF Verify, Reject, CallTool, ToolAnswers, ToolFails, BrokerTimesOut
  <2>5. CASE Consume(d)
    <3>1. /\ x.pc = "verified"
          /\ \/ delivery'[d] = [x EXCEPT !.pc = "consumed", !.used = TRUE]
             \/ delivery'[d] = [x EXCEPT !.pc = "over"]
      BY <1>0, <2>5 DEF Consume
    <3> QED BY <1>1, <2>5, <3>1 DEF DeliveryType
  <2>6. CASE ToolRuns(d)
    <3>1. x.pc # "none" /\ delivery'[d] = [x EXCEPT !.ran = TRUE]
      BY <1>0, <2>6 DEF ToolRuns
    <3> QED BY <1>1, <3>1 DEF DeliveryType
  <2>7. CASE \E r \in Requests, own \in BOOLEAN : Deliver(d, r, own)
    <3>1. ~Consume(d)
      BY <2>1, <2>7 DEF Consume
    <3> QED BY <2>1, <2>7, <3>1
  <2> QED BY <1>4, <2>3, <2>4, <2>5, <2>6, <2>7 DEF Broker
<1>5. CASE Restart
  <2>1. PICK pc \in {"none", "orphan", "over"} :
           /\ delivery'[d] = [x EXCEPT !.pc = pc]
           /\ pc = "none" <=> x.pc = "none"
    BY <1>0, <1>1, <1>5 DEF Restart, DeliveryType
  <2>2. [x EXCEPT !.pc = pc] \in DeliveryType
    BY <1>1 DEF DeliveryType
  <2>3. /\ delivery'[d].pc = pc /\ delivery'[d].req = x.req /\ delivery'[d].own = x.own
        /\ delivery'[d].used = x.used /\ delivery'[d].ran = x.ran
    BY <1>1, <2>1 DEF DeliveryType
  <2>4. pc = "none" => delivery'[d] = x
    BY <1>1, <2>1 DEF DeliveryType
  <2> HIDE DEF x
  <2>5. ~(delivery'[d].used /\ ~x.used)
    BY <2>3
  <2> QED BY <2>1, <2>2, <2>3, <2>4, <2>5 DEF x
<1>6. CASE Tick \/ Revoke
  BY <1>2, <1>6 DEF Tick, Revoke
<1>7. ASSUME NEW r \in Requests, Gateway(r) PROVE delivery'[d] = x
  BY <1>7 DEF Gateway, Allow, Refuse, Recheck, Sign, TimeOut, Record, Crash, Retry,
              GateStep
<1> QED BY <1>2, <1>3, <1>4, <1>5, <1>6, <1>7 DEF Next, vars

-----------------------------------------------------------------------------

LEMMA NextTypeOK ==
    ASSUME IInv, [Next]_vars
    PROVE  TypeOK'
<1>0. TypeOK
  BY DEF IInv
<1>1. now' \in Nat /\ restarts' \in Nat /\ contract' \in ContractType
  <2>0. now \in Nat /\ restarts \in Nat /\ contract \in ContractType
    BY <1>0 DEF TypeOK
  <2>1. CASE Tick \/ Restart
    BY <2>0, <2>1 DEF Tick, Restart
  <2>2. CASE Revoke
    BY <2>0, <2>2 DEF Revoke, ContractType
  <2>3. ASSUME NEW d \in Deliveries, Broker(d) PROVE UNCHANGED <<now, restarts, contract>>
    BY <2>3, BrokerOnGate
  <2>4. ASSUME NEW r \in Requests, Gateway(r) PROVE UNCHANGED <<now, restarts, contract>>
    BY <2>4 DEF Gateway, Allow, Refuse, Recheck, Sign, TimeOut, Record, Crash, Retry,
                GateStep
  <2> QED BY <2>0, <2>1, <2>2, <2>3, <2>4 DEF Next, vars
<1>2. gate' \in [Requests -> GateType]
  <2>0. gate \in [Requests -> GateType]
    BY <1>0 DEF TypeOK
  <2>1. CASE UNCHANGED gate
    BY <2>0, <2>1
  <2>2. ASSUME NEW r \in Requests, NEW x \in GateType, gate' = [gate EXCEPT ![r] = x]
        PROVE  gate' \in [Requests -> GateType]
    BY <2>0, <2>2
  <2>3. ASSUME NEW r \in Requests, Gateway(r), ~UNCHANGED gate
        PROVE  \E x \in GateType : gate' = [gate EXCEPT ![r] = x]
    <3> DEFINE g == gate[r]
    <3>0. g \in GateType
      BY <2>0
    <3>1. ASSUME NEW bound \in BOOLEAN, Allow(r, bound)
          PROVE  \E x \in GateType : gate' = [gate EXCEPT ![r] = x]
      <4>1. [pc |-> "allowed", decision |-> "ALLOW", bound |-> bound] \in GateType
        BY DEF GateType
      <4> QED BY <3>1, <4>1 DEF Allow
    <3>2. CASE \E pc \in {"checked", "sent", "failed", "done", "lost"},
                  decision \in {"none", "ALLOW", "BLOCK"} : GateStep(r, pc, decision)
      <4>1. PICK pc \in {"checked", "sent", "failed", "done", "lost"},
                 decision \in {"none", "ALLOW", "BLOCK"} :
               GateStep(r, pc, decision)
        BY <3>2
      <4>3. gate' = [gate EXCEPT ![r] = [g EXCEPT !.pc = pc, !.decision = decision]]
        BY <2>0, <4>1 DEF GateStep
      <4>2. [g EXCEPT !.pc = pc, !.decision = decision] \in GateType
        BY <3>0 DEF GateType
      <4> QED BY <4>2, <4>3
    <3>4. gate[r].decision \in {"none", "ALLOW", "BLOCK"}
      BY <3>0 DEF GateType
    <3>3. Refuse(r) \/ Recheck(r) \/ Sign(r) \/ TimeOut(r)
          => \E pc \in {"checked", "sent", "failed", "done", "lost"},
                decision \in {"none", "ALLOW", "BLOCK"} : GateStep(r, pc, decision)
      BY <3>4 DEF Refuse, Recheck, Sign, TimeOut
    <3>5. Record(r) \/ Crash(r)
          => \E pc \in {"checked", "sent", "failed", "done", "lost"},
                decision \in {"none", "ALLOW", "BLOCK"} : GateStep(r, pc, decision)
      BY <3>4 DEF Record, Crash
    <3>6. ~Retry(r)
      BY <2>3 DEF Retry
    <3> QED BY <2>3, <3>1, <3>2, <3>3, <3>5, <3>6 DEF Gateway
  <2>4. ASSUME NEW d \in Deliveries, Broker(d) PROVE gate' \in [Requests -> GateType]
    BY <1>0, <2>0, <2>4, BrokerOnGate, ResponseReachesItsCaller
  <2> QED BY <2>1, <2>2, <2>3, <2>4 DEF Next, vars, Tick, Revoke, Restart
<1>3. token' \in [Requests -> Nat \union {None}]
  <2>0. token \in [Requests -> Nat \union {None}] /\ now \in Nat
    BY <1>0 DEF TypeOK
  <2>1. ASSUME NEW r \in Requests, Gateway(r)
        PROVE  UNCHANGED token \/ token' = [token EXCEPT ![r] = now]
    BY <2>1 DEF Gateway, Allow, Refuse, Recheck, Sign, TimeOut, Record, Crash, Retry
  <2>2. ASSUME NEW d \in Deliveries, Broker(d) PROVE UNCHANGED token
    BY <2>2, BrokerOnGate
  <2> QED BY <2>0, <2>1, <2>2 DEF Next, vars, Tick, Revoke, Restart
<1>4. delivery' \in [Deliveries -> DeliveryType]
  <2>0. delivery \in [Deliveries -> DeliveryType]
    BY <1>0 DEF TypeOK
  <2>1. \A d \in Deliveries : delivery'[d] \in DeliveryType
    BY DeliveryMoves
  <2>2. ASSUME NEW d \in Deliveries, Broker(d)
        PROVE  delivery' = [e \in Deliveries |-> delivery'[e]]
    BY <2>0, <2>2 DEF Broker, Deliver, Verify, Reject, Consume, CallTool, ToolRuns,
                      ToolAnswers, ToolFails, BrokerTimesOut, Handle
  <2>3. ASSUME NEW r \in Requests, Gateway(r) PROVE UNCHANGED delivery
    BY <2>3 DEF Gateway, Allow, Refuse, Recheck, Sign, TimeOut, Record, Crash, Retry,
                GateStep
  <2>4. CASE Restart
    BY <2>1, <2>4 DEF Restart
  <2> QED BY <2>0, <2>1, <2>2, <2>3, <2>4 DEF Next, vars, Tick, Revoke
<1>5. seen' \in [Requests -> Nat]
  <2>0. seen \in [Requests -> Nat] /\ token \in [Requests -> Nat \union {None}]
    BY <1>0 DEF TypeOK
  <2>1. ASSUME NEW d \in Deliveries, Consume(d) PROVE seen' \in [Requests -> Nat]
    <3>1. \A q \in Requests : Purged(q) \in Nat
      BY <2>0 DEF Purged
    <3>2. delivery[d].req \in Requests /\ Exp(delivery[d].req) \in Nat
      <4>1. delivery[d].req \in Requests /\ token[delivery[d].req] # None
        BY <2>1 DEF Consume, IInv, DeliveriesInv
      <4> QED BY <2>0, <4>1, Counts DEF Exp
    <3> QED BY <2>1, <3>1, <3>2 DEF Consume
  <2>2. ASSUME NEW d \in Deliveries, Broker(d) PROVE UNCHANGED seen \/ Consume(d)
    BY <2>2 DEF Broker, Deliver, Verify, Reject, CallTool, ToolRuns, ToolAnswers,
                ToolFails, BrokerTimesOut
  <2>3. ASSUME NEW r \in Requests, Gateway(r) PROVE UNCHANGED seen
    BY <2>3 DEF Gateway, Allow, Refuse, Recheck, Sign, TimeOut, Record, Crash, Retry,
                GateStep
  <2> QED BY <2>0, <2>1, <2>2, <2>3 DEF Next, vars, Tick, Revoke, Restart
<1>6. rows' \in [Requests -> SUBSET {"ok", "error", "not_executed"}]
  <2>0. rows \in [Requests -> SUBSET {"ok", "error", "not_executed"}]
    BY <1>0 DEF TypeOK
  <2>1. ASSUME NEW r \in Requests, Gateway(r)
        PROVE  UNCHANGED rows \/ \E s \in {"ok", "error", "not_executed"} :
                                    rows' = [rows EXCEPT ![r] = @ \union {s}]
    <3>1. CASE Record(r)
      BY <3>1, StatusIsKnown DEF Record
    <3>2. CASE Retry(r)
      BY <3>2 DEF Retry
    <3> QED BY <2>1, <3>1, <3>2 DEF Gateway, Allow, Refuse, Recheck, Sign, TimeOut, Crash
  <2>2. ASSUME NEW d \in Deliveries, Broker(d) PROVE UNCHANGED rows
    BY <2>2, BrokerOnGate
  <2> QED BY <2>0, <2>1, <2>2 DEF Next, vars, Tick, Revoke, Restart
<1> QED BY <1>1, <1>2, <1>3, <1>4, <1>5, <1>6 DEF TypeOK

LEMMA NextTokensInv ==
    ASSUME IInv, [Next]_vars
    PROVE  TokensInv'
<1> SUFFICES ASSUME NEW r \in Requests, token'[r] # None
             PROVE  /\ gate'[r].pc \in {"sent", "ok", "failed", "done", "lost"}
                    /\ gate'[r].decision = "ALLOW"
  BY DEF TokensInv
<1>1. token[r] # None => /\ gate[r].pc \in {"sent", "ok", "failed", "done", "lost"}
                         /\ gate[r].decision = "ALLOW"
  BY DEF IInv, TokensInv
<1> QED BY <1>1, GateMoves

\* A token once signed is never signed again.
LEMMA TokenIsStable ==
    ASSUME IInv, [Next]_vars, NEW r \in Requests, token[r] # None
    PROVE  token'[r] = token[r] /\ Exp(r)' = Exp(r) /\ Exp(r) \in Nat /\ Exp(r) > 0
<1>1. gate[r].pc # "checked" /\ token[r] \in Nat
  BY DEF IInv, TokensInv, TypeOK
<1>2. token'[r] = token[r]
  BY <1>1, GateMoves
<1> QED BY <1>1, <1>2, Counts DEF Exp

LEMMA NextDeliveriesInv ==
    ASSUME IInv, [Next]_vars
    PROVE  DeliveriesInv'
<1> SUFFICES ASSUME NEW d \in Deliveries
             PROVE  /\ delivery'[d].pc # "none" =>
                         delivery'[d].req \in Requests /\ token'[delivery'[d].req] # None
                    /\ delivery'[d].pc = "none" => ~delivery'[d].used /\ ~delivery'[d].ran
  BY DEF DeliveriesInv
<1>1. /\ delivery[d].pc # "none" =>
            delivery[d].req \in Requests /\ token[delivery[d].req] # None
      /\ delivery[d].pc = "none" => ~delivery[d].used /\ ~delivery[d].ran
  BY DEF IInv, DeliveriesInv
<1>2. delivery'[d].pc # "none" =>
         delivery'[d].req \in Requests /\ token[delivery'[d].req] # None
  BY <1>1, DeliveryMoves
<1>3. delivery'[d].pc = "none" => ~delivery'[d].used /\ ~delivery'[d].ran
  BY <1>1, DeliveryMoves
<1> QED BY <1>2, <1>3, TokenIsStable

\* Runs and answers stay what they are.
LEMMA NextAnswered ==
    ASSUME IInv, [Next]_vars
    PROVE  AnsweredInv' /\ ExecutedMeansRan'
<1> DEFINE Ran(r) == \E d \in Deliveries : delivery[d].req = r /\ delivery[d].own
                                           /\ delivery[d].ran
           RanNext(r) == \E d \in Deliveries : delivery'[d].req = r /\ delivery'[d].own
                                               /\ delivery'[d].ran
<1>1. ASSUME NEW r \in Requests, Ran(r) PROVE RanNext(r)
  <2>1. PICK d \in Deliveries : delivery[d].req = r /\ delivery[d].own /\ delivery[d].ran
    BY <1>1
  <2>2. delivery[d].pc # "none"
    BY <2>1 DEF IInv, DeliveriesInv
  <2>3. delivery'[d].req = r /\ delivery'[d].own /\ delivery'[d].ran
    BY <2>1, <2>2, DeliveryMoves
  <2> QED BY <2>3
<1>2. ASSUME NEW r \in Requests, gate'[r].pc = "ok" PROVE RanNext(r)
  <2>0. gate[r].pc = "ok" => Ran(r)
    BY DEF IInv, AnsweredInv
  <2>1. token[r] = None /\ gate[r].pc = "ok" => FALSE
    <3>1. ASSUME gate[r].pc = "ok" PROVE token[r] # None
      <4>1. PICK d \in Deliveries : delivery[d].req = r /\ delivery[d].own
                                    /\ delivery[d].ran
        BY <2>0, <3>1
      <4> QED BY <4>1 DEF IInv, DeliveriesInv
    <3> QED BY <3>1
  <2>2. Ran(r)
    BY <1>2, <2>0, GateMoves
  <2> QED BY <1>1, <2>2
<1>3. ASSUME NEW r \in Requests, "ok" \in rows'[r] PROVE RanNext(r)
  <2>0. /\ "ok" \in rows[r] => Ran(r)
        /\ gate[r].pc = "ok" => Ran(r)
        /\ rows \in [Requests -> SUBSET {"ok", "error", "not_executed"}]
    BY DEF IInv, ExecutedMeansRan, AnsweredInv, TypeOK
  <2>1. ASSUME NEW q \in Requests, Gateway(q)
        PROVE  "ok" \in rows[r] \/ gate[r].pc = "ok"
    <3>1. CASE Record(q)
      <4>1. rows' = [rows EXCEPT ![q] = @ \union {ResultStatus(gate[q].pc)}]
        BY <3>1 DEF Record
      <4>2. \/ "ok" \in rows[r]
            \/ q = r /\ ResultStatus(gate[q].pc) = "ok"
        BY <1>3, <2>0, <4>1
      <4> QED BY <4>2, StatusIsKnown
    <3>2. CASE Retry(q)
      BY <1>3, <2>0, <3>2 DEF Retry
    <3> QED BY <1>3, <2>1, <3>1, <3>2 DEF Gateway, Allow, Refuse, Recheck, Sign, TimeOut,
                                         Crash
  <2>2. ASSUME NEW d \in Deliveries, Broker(d) PROVE UNCHANGED rows
    BY <2>2, BrokerOnGate
  <2>3. "ok" \in rows[r] \/ gate[r].pc = "ok"
    BY <1>3, <2>1, <2>2 DEF Next, vars, Tick, Revoke, Restart
  <2> QED BY <1>1, <2>0, <2>3
<1> QED BY <1>2, <1>3 DEF AnsweredInv, ExecutedMeansRan

\* The store only lets a live token through if no call has consumed it yet.
LEMMA ConsumesOnlyOnce ==
    ASSUME IInv, NEW d \in Deliveries, Consume(d), delivery'[d].used, ~delivery[d].used,
           NEW e \in Deliveries, delivery[e].used, delivery[e].req = delivery[d].req,
           restarts = 0
    PROVE  now >= Exp(delivery[d].req)
<1> DEFINE r == delivery[d].req
<1>0. /\ delivery \in [Deliveries -> DeliveryType] /\ r \in Requests
      /\ now \in Nat /\ token[r] \in Nat
  BY DEF IInv, TypeOK, DeliveriesInv, Consume
<1>1. Purged(r) = 0
  <2>1. [q \in Requests |-> Purged(q)][r] = Purged(r)
    BY <1>0
  <2>2. CASE delivery' = [delivery EXCEPT ![d].pc = "over"]
    <3>1. delivery[d] \in DeliveryType /\ delivery'[d] = [delivery[d] EXCEPT !.pc = "over"]
      BY <1>0, <2>2
    <3>2. delivery'[d].used = delivery[d].used
      BY <3>1 DEF DeliveryType
    <3> QED BY <3>2
  <2> QED BY <2>1, <2>2 DEF Consume
<1>2. Exp(r) \in Nat /\ Exp(r) > 0
  BY <1>0, Counts DEF Exp
<1>3. now < Exp(r) => seen[r] = Exp(r)
  BY DEF IInv, SeenInv
<1> QED BY <1>0, <1>1, <1>2, <1>3 DEF Purged

LEMMA TimeGoesOn ==
    ASSUME IInv, [Next]_vars
    PROVE  /\ now' >= now /\ restarts' >= restarts /\ (restarts > 0 => restarts' > 0)
           /\ now \in Nat /\ now' \in Nat /\ restarts \in Nat /\ restarts' \in Nat
<1>0. now \in Nat /\ restarts \in Nat /\ now' \in Nat /\ restarts' \in Nat
  BY NextTypeOK DEF IInv, TypeOK
<1>1. ASSUME NEW d \in Deliveries, Broker(d) PROVE UNCHANGED <<now, restarts>>
  BY <1>1, BrokerOnGate
<1>2. ASSUME NEW r \in Requests, Gateway(r) PROVE UNCHANGED <<now, restarts>>
  BY <1>2 DEF Gateway, Allow, Refuse, Recheck, Sign, TimeOut, Record, Crash, Retry,
              GateStep
<1> QED BY <1>0, <1>1, <1>2 DEF Next, vars, Tick, Revoke, Restart

LEMMA NextUsedOnce ==
    ASSUME IInv, [Next]_vars
    PROVE  UsedOnceUntilExpiry'
<1> SUFFICES ASSUME NEW d \in Deliveries, NEW e \in Deliveries, d # e,
                    delivery'[d].used, delivery'[e].used,
                    delivery'[d].req = delivery'[e].req,
                    ~(restarts' > 0)
             PROVE  now' >= token'[delivery'[d].req] + TTL
  BY DEF UsedOnceUntilExpiry, Exp
<1>0. /\ delivery[d].pc # "none" => delivery[d].req \in Requests
                                    /\ token[delivery[d].req] # None
      /\ delivery[d].pc = "none" => ~delivery[d].used
      /\ delivery[e].pc = "none" => ~delivery[e].used
      /\ delivery \in [Deliveries -> DeliveryType]
  BY DEF IInv, DeliveriesInv, TypeOK
<1>1. delivery[d].pc # "none" /\ delivery'[d].req = delivery[d].req
  BY <1>0, DeliveryMoves
<1>2. delivery[e].pc # "none" /\ delivery'[e].req = delivery[e].req
  BY <1>0, DeliveryMoves
<1>3. /\ token'[delivery[d].req] = token[delivery[d].req]
      /\ Exp(delivery[d].req) \in Nat
  BY <1>0, <1>1, TokenIsStable
<1>4. restarts = 0
  BY TimeGoesOn
<1>5. ASSUME NEW f \in Deliveries, NEW g \in Deliveries, Consume(f), g # f
      PROVE  delivery'[g] = delivery[g]
  BY <1>0, <1>5 DEF Consume
<1>6. now >= Exp(delivery[d].req)
  <2>1. CASE delivery[d].used /\ delivery[e].used
    <3>1. UsedOnceUntilExpiry
      BY DEF IInv
    <3>2. delivery[d].req = delivery[e].req
      BY <1>1, <1>2
    <3>3. restarts > 0 \/ now >= Exp(delivery[d].req)
      BY <2>1, <3>1, <3>2 DEF UsedOnceUntilExpiry
    <3> QED BY <1>4, <3>3
  <2>2. CASE ~delivery[d].used
    <3>1. Consume(d)
      BY <2>2, DeliveryMoves
    <3>2. delivery[e].used
      BY <1>5, <3>1
    <3> QED BY <1>1, <1>2, <1>4, <2>2, <3>1, <3>2, ConsumesOnlyOnce
  <2>3. CASE ~delivery[e].used
    <3>1. Consume(e)
      BY <2>3, DeliveryMoves
    <3>2. delivery[d].used
      BY <1>5, <3>1
    <3>3. delivery[e].req = delivery[d].req
      BY <1>1, <1>2
    <3> QED BY <1>4, <2>3, <3>1, <3>2, <3>3, ConsumesOnlyOnce
  <2> QED BY <2>1, <2>2, <2>3
<1>7. token'[delivery'[d].req] + TTL = Exp(delivery[d].req)
  BY <1>1, <1>3 DEF Exp
<1> QED BY <1>3, <1>6, <1>7, TimeGoesOn

LEMMA NextSeenInv ==
    ASSUME IInv, [Next]_vars
    PROVE  SeenInv'
<1> SUFFICES ASSUME NEW d \in Deliveries, delivery'[d].used, restarts' = 0,
                    now' < token'[delivery'[d].req] + TTL
             PROVE  seen'[delivery'[d].req] = token'[delivery'[d].req] + TTL
  BY DEF SeenInv, Exp
<1> DEFINE r == delivery[d].req
<1>0. /\ delivery[d].pc # "none" => r \in Requests /\ token[r] # None
      /\ delivery[d].pc = "none" => ~delivery[d].used
      /\ delivery \in [Deliveries -> DeliveryType] /\ seen \in [Requests -> Nat]
  BY DEF IInv, DeliveriesInv, TypeOK
<1>1. delivery[d].pc # "none" /\ delivery'[d].req = r
  BY <1>0, DeliveryMoves
<1>2. /\ token'[delivery'[d].req] + TTL = Exp(r) /\ Exp(r) \in Nat /\ Exp(r) > 0
      /\ r \in Requests
  BY <1>0, <1>1, TokenIsStable DEF Exp
<1>3. restarts = 0 /\ now < Exp(r)
  BY <1>2, TimeGoesOn
<1>4. delivery[d].used => seen[r] = Exp(r) /\ Purged(r) = Exp(r)
  BY <1>2, <1>3, TimeGoesOn DEF IInv, SeenInv, Purged
<1>5. CASE ~delivery[d].used
  <2>1. Consume(d)
    BY <1>5, DeliveryMoves
  <2>2. seen' = [[q \in Requests |-> Purged(q)] EXCEPT ![r] = Exp(r)]
    <3>1. CASE delivery' = [delivery EXCEPT ![d].pc = "over"]
      <4>1. /\ delivery[d] \in DeliveryType
            /\ delivery'[d] = [delivery[d] EXCEPT !.pc = "over"]
        BY <1>0, <3>1
      <4>2. delivery'[d].used = delivery[d].used
        BY <4>1 DEF DeliveryType
      <4> QED BY <1>5, <4>2
    <3> QED BY <2>1, <3>1 DEF Consume
  <2> QED BY <1>1, <1>2, <2>2
<1>6. CASE delivery[d].used
  <2>1. ASSUME NEW e \in Deliveries, Consume(e) PROVE seen'[r] = Exp(r)
    <3>1. CASE delivery[e].req = r
      <4>1. seen' = [q \in Requests |-> Purged(q)]
        BY <1>2, <1>4, <1>6, <2>1, <3>1 DEF Consume
      <4> QED BY <1>2, <1>4, <1>6, <4>1
    <3>2. CASE delivery[e].req # r
      BY <1>2, <1>4, <1>6, <2>1, <3>2 DEF Consume
    <3> QED BY <3>1, <3>2
  <2>2. ASSUME UNCHANGED seen PROVE seen'[r] = Exp(r)
    BY <1>4, <1>6, <2>2
  <2>3. ASSUME NEW e \in Deliveries, Broker(e) PROVE UNCHANGED seen \/ Consume(e)
    BY <2>3 DEF Broker, Deliver, Verify, Reject, CallTool, ToolRuns, ToolAnswers,
                ToolFails, BrokerTimesOut
  <2>4. ASSUME NEW q \in Requests, Gateway(q) PROVE UNCHANGED seen
    BY <2>4 DEF Gateway, Allow, Refuse, Recheck, Sign, TimeOut, Record, Crash, Retry,
                GateStep
  <2>5. ~Restart
    BY <1>3 DEF Restart
  <2>6. seen'[r] = Exp(r)
    <3>1. UNCHANGED seen \/ \E e \in Deliveries : Consume(e)
      BY <2>3, <2>4, <2>5 DEF Next, vars, Tick, Revoke
    <3> QED BY <2>1, <2>2, <3>1
  <2> QED BY <1>1, <1>2, <2>6
<1> QED BY <1>5, <1>6

-----------------------------------------------------------------------------

\* The inductive invariant of dispatch.
THEOREM Invariant == Spec => []IInv
<1>1. IInv /\ [Next]_vars => IInv'
  BY NextTypeOK, NextTokensInv, NextDeliveriesInv, NextSeenInv, NextAnswered,
     NextUsedOnce DEF IInv
<1> QED BY InitIInv, <1>1, PTL DEF Spec

\* The handlers of the gateway and the broker keep their types.
THEOREM TypeCorrect == Spec => []TypeOK
BY Invariant, PTL DEF IInv

\* ReplayStore lets one call through per token, however the calls interleave
\* between verify_eat and consume, until the token expires or the process dies.
THEOREM TokenIsUsedOnce == Spec => []UsedOnceUntilExpiry
BY Invariant, PTL DEF IInv

\* A connector_calls row with executed true is true.
THEOREM RecordedRunsHappened == Spec => []ExecutedMeansRan
BY Invariant, PTL DEF IInv

\* Nothing runs but what was allowed and still is.
THEOREM OnlyAllowedRuns == Spec => []RunsAreAllowed
<1>1. IInv => RunsAreAllowed
  BY DEF IInv, RunsAreAllowed, TokensInv, DeliveriesInv
<1> QED BY Invariant, <1>1, PTL

\* A revocation that precedes the dispatch check is never overtaken.
THEOREM RevocationBeforeCheckHolds == Spec => RevokedNeverRuns
<1> SUFFICES ASSUME NEW r \in Requests
             PROVE  Spec => []((gate[r].pc = "allowed" /\ gate[r].bound
                                   /\ contract.status = "REVOKED")
                        => [](\A d \in Deliveries : delivery[d].req = r
                                                      => ~delivery[d].ran))
  BY DEF RevokedNeverRuns
<1> DEFINE Early == gate[r].pc = "allowed" /\ gate[r].bound
                       /\ contract.status = "REVOKED"
           Stopped == /\ contract.status = "REVOKED" /\ gate[r].bound /\ token[r] = None
                      /\ gate[r].pc \in {"allowed", "checked", "done", "lost"}
                      /\ gate[r].pc = "checked" => gate[r].decision = "BLOCK"
           NoRun == \A d \in Deliveries : delivery[d].req = r => ~delivery[d].ran
<1>1. IInv /\ Early => Stopped
  BY DEF IInv, TokensInv
<1>2. IInv /\ Stopped => NoRun
  BY DEF IInv, DeliveriesInv
<1>3. IInv /\ Stopped /\ [Next]_vars => Stopped'
  <2> SUFFICES ASSUME IInv, Stopped, [Next]_vars PROVE Stopped'
    OBVIOUS
  <2>0. gate \in [Requests -> GateType] /\ contract \in ContractType
    BY DEF IInv, TypeOK
  <2>1. CASE Gateway(r)
    BY <2>0, <2>1 DEF Gateway, Allow, Refuse, Recheck, Sign, TimeOut, Record, Crash,
                      Retry, GateStep, MayTimeOut, CurrentForDispatch, Dispatchable,
                      GateType
  <2>2. ASSUME NEW q \in Requests, Gateway(q), q # r PROVE Stopped'
    <3>1. gate'[r] = gate[r] /\ token'[r] = token[r] /\ contract' = contract
      <4>1. token \in [Requests -> Nat \union {None}]
        BY DEF IInv, TypeOK
      <4>2. /\ UNCHANGED contract
            /\ UNCHANGED token \/ token' = [token EXCEPT ![q] = now]
        BY <2>2 DEF Gateway, Allow, Refuse, Recheck, Sign, TimeOut, Record, Crash,
                    Retry, GateStep
      <4>3. gate'[r] = gate[r]
        BY <2>0, <2>2 DEF Gateway, Allow, Refuse, Recheck, Sign, TimeOut, Record,
                          Crash, Retry, GateStep
      <4> QED BY <2>2, <4>1, <4>2, <4>3
    <3> QED BY <3>1
  <2>3. ASSUME NEW d \in Deliveries, Broker(d) PROVE Stopped'
    <3>1. UNCHANGED <<contract, token>>
      BY <2>3, BrokerOnGate
    <3>2. gate'[r] = gate[r]
      <4>1. TypeOK /\ gate[r].pc # "sent"
        BY DEF IInv
      <4>2. \/ UNCHANGED gate
            \/ \E outcome \in {"ok", "failed"} :
                  gate' = Responded(d, outcome) /\ delivery[d].req \in Requests
        BY <2>3, BrokerOnGate
      <4>3. ASSUME NEW outcome \in {"ok", "failed"}, delivery[d].req \in Requests
            PROVE  Responded(d, outcome)[r] = gate[r]
        BY <4>1, <4>3, ResponseReachesItsCaller
      <4> QED BY <4>2, <4>3
    <3> QED BY <3>1, <3>2
  <2>4. CASE Tick \/ Revoke \/ Restart \/ UNCHANGED vars
    BY <2>0, <2>4 DEF Tick, Revoke, Restart, vars
  <2> QED BY <2>1, <2>2, <2>3, <2>4 DEF Next
<1> HIDE DEF Early, Stopped, NoRun
<1>4. Spec => [](Early => []NoRun)
  BY <1>1, <1>2, <1>3, Invariant, PTL DEF Spec
<1> QED BY <1>4 DEF Early, NoRun
=============================================================================
