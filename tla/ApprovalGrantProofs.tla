------------------------ MODULE ApprovalGrantProofs ------------------------
(***************************************************************************)
(* Proofs, for any number of requests, threads, operators, contract        *)
(* versions and instants, of the properties TLC checks on ApprovalGrant's  *)
(* small instances.                                                        *)
(***************************************************************************)
EXTENDS ApprovalGrant, SequenceTheorems, TLAPS

(***************************************************************************)
(* Record updates keep their types.                                        *)
(***************************************************************************)

LEMMA RowStatus ==
    ASSUME NEW row \in RowType, NEW s \in Statuses
    PROVE  [row EXCEPT !.status = s] \in RowType
BY DEF RowType

LEMMA RowConsumed ==
    ASSUME NEW row \in RowType, NEW t \in Nat, NEW n \in Nat
    PROVE  ConsumedBy(row, t, n) \in RowType
BY DEF RowType, ConsumedBy

LEMMA RunState ==
    ASSUME NEW run \in RunType, NEW s \in {"committed", "cleared", "dispatched", "blocked"}
    PROVE  [run EXCEPT !.state = s] \in RunType
BY DEF RunType

LEMMA OriginPc ==
    ASSUME NEW g \in OriginType,
           NEW pc \in {"idle", "authorized", "gate", "deny", "block", "done"}
    PROVE  [g EXCEPT !.pc = pc] \in OriginType
BY DEF OriginType

LEMMA RedeemerUpdates ==
    ASSUME NEW d \in RedeemerType
    PROVE  /\ IdleRedeemer \in RedeemerType
           /\ \A v \in 0..MaxVersion :
                 [d EXCEPT !.pc = "granted", !.version = v] \in RedeemerType
           /\ \A t \in Nat :
                 [d EXCEPT !.pc = "claimed", !.claimedAt = t] \in RedeemerType
           /\ \A n \in Nat :
                 [d EXCEPT !.pc = "committed", !.run = n] \in RedeemerType
           /\ [d EXCEPT !.pc = "cleared"] \in RedeemerType
           /\ \A r \in Requests, c \in Contents, row \in RowType :
                 [IdleRedeemer EXCEPT !.pc = "loaded", !.req = r,
                     !.content = c, !.row = row] \in RedeemerType
<1>0. IdleRedeemer \in RedeemerType
  BY ConstantsAssumption
  DEF IdleRedeemer, RedeemerType, NoRow, RowType, NoContract
<1> QED BY <1>0, ConstantsAssumption DEF RedeemerType, IdleRedeemer, NoContract

-----------------------------------------------------------------------------

LEMMA InitIInv == Init => IInv
<1> SUFFICES ASSUME Init PROVE IInv
  OBVIOUS
<1>1. TypeOK
  BY ConstantsAssumption
  DEF Init, TypeOK, RowType, RunType, RedeemerType, OperatorType, OriginType,
      NoRow, IdleRedeemer, IdleOperator, NoContract, Statuses
<1>2. RowsInv /\ OperatorsInv /\ RedeemersInv
  BY DEF Init, RowsInv, OperatorsInv, RedeemersInv, HandlerInv, NoRow,
         IdleRedeemer, IdleOperator
<1>3. GrantCommitsWithRun /\ RunsAsApproved
  BY DEF Init, GrantCommitsWithRun, RunsAsApproved, NoRow
<1> QED BY <1>1, <1>2, <1>3 DEF IInv

LEMMA NextTypeOK == IInv /\ [Next]_vars => TypeOK'
<1> SUFFICES ASSUME IInv, [Next]_vars PROVE TypeOK'
  OBVIOUS
<1>0. TypeOK
  BY DEF IInv
<1>1. CASE ActivateContract
  BY <1>0, <1>1, ConstantsAssumption
  DEF ActivateContract, Versions, NoContract, TypeOK
<1>2. CASE RetireContract
  BY <1>0, <1>2, ConstantsAssumption DEF RetireContract, NoContract, TypeOK
<1>3. CASE Tick
  BY <1>0, <1>3 DEF Tick, TypeOK
<1>4. ASSUME NEW o \in Operators, NEW r \in Requests, NEW v \in {"ALLOW", "BLOCK"},
             DecideRead(o, r, v)
      PROVE  TypeOK'
  BY <1>0, <1>4 DEF DecideRead, OperatorType, TypeOK
<1>5. ASSUME NEW o \in Operators, DecideWrite(o)
      PROVE  TypeOK'
  <2> DEFINE r == operator[o].req
             row == [approval[r] EXCEPT !.status = StatusOf(operator[o].verdict)]
  <2>1. r \in Requests
    BY <1>5 DEF IInv, OperatorsInv, DecideWrite
  <2>2. row \in RowType
    BY <1>0, <2>1, RowStatus DEF TypeOK, StatusOf, Statuses
  <2>3. approval' = [approval EXCEPT ![r] = row]
    BY <1>5 DEF DecideWrite
  <2>4. approval' \in [Requests -> RowType]
    BY <1>0, <2>1, <2>2, <2>3 DEF TypeOK
  <2>5. approvers' \in [Requests -> SUBSET Operators]
    BY <1>0, <1>5 DEF DecideWrite, TypeOK
  <2>6. operator' \in [Operators -> OperatorType]
    BY <1>0, <1>5 DEF DecideWrite, IdleOperator, OperatorType, TypeOK
  <2> QED BY <1>0, <1>5, <2>4, <2>5, <2>6 DEF DecideWrite, TypeOK
<1>6. ASSUME NEW r \in Requests, Originate(r)
      PROVE  TypeOK'
  <2>0. approval[r] \in RowType /\ origin[r] \in OriginType
    BY <1>0 DEF TypeOK
  <2>1. CASE Authorize(r)
    <3>1. [pc |-> "authorized", version |-> active] \in OriginType
      BY <1>0 DEF OriginType, TypeOK
    <3> QED BY <1>0, <2>1, <3>1 DEF Authorize, TypeOK
  <2>2. ASSUME NEW c \in Contents, QueueApproval(r, c)
        PROVE  TypeOK'
    <3>1. [status |-> "pending", content |-> c, version |-> origin[r].version,
           expires |-> now + TTL, consumedAt |-> None, consumer |-> 0] \in RowType
      BY <1>0, <2>0, ConstantsAssumption DEF RowType, Statuses, OriginType, TypeOK
    <3>2. [origin[r] EXCEPT !.pc = "gate"] \in OriginType
      BY <2>0, OriginPc
    <3> QED BY <1>0, <2>2, <3>1, <3>2 DEF QueueApproval, TypeOK
  <2>3. CASE GatePass(r)
    <3>1. [origin[r] EXCEPT !.pc = "done"] \in OriginType
      BY <2>0, OriginPc
    <3> QED BY <1>0, <2>3, <3>1 DEF GatePass, TypeOK
  <2>4. CASE GateRefuse(r)
    <3>1. /\ [origin[r] EXCEPT !.pc = "deny"] \in OriginType
          /\ [origin[r] EXCEPT !.pc = "block"] \in OriginType
      BY <2>0, OriginPc
    <3> QED BY <1>0, <2>4, <3>1 DEF GateRefuse, TypeOK
  <2>5. CASE GateCommit(r)
    <3>1. [origin[r] EXCEPT !.pc = "done"] \in OriginType
      BY <2>0, OriginPc
    <3>2. [approval[r] EXCEPT !.status = "denied"] \in RowType
      BY <2>0, RowStatus DEF Statuses
    <3> QED BY <1>0, <2>5, <3>1, <3>2 DEF GateCommit, TypeOK
  <2> QED BY <1>6, <2>1, <2>2, <2>3, <2>4, <2>5 DEF Originate
<1>7. ASSUME NEW w \in Redeemers, Redeem(w)
      PROVE  TypeOK'
  <2> DEFINE d == redeemer[w]
  <2>0. d \in RedeemerType /\ IdleRedeemer \in RedeemerType
    BY <1>0, RedeemerUpdates DEF TypeOK
  <2>1. ASSUME NEW r \in Requests, NEW c \in Contents, Submit(w, r, c)
        PROVE  TypeOK'
    <3>1. [IdleRedeemer EXCEPT !.pc = "loaded", !.req = r, !.content = c,
                               !.row = approval[r]] \in RedeemerType
      BY <1>0, <2>0, RedeemerUpdates DEF TypeOK
    <3> QED BY <1>0, <2>1, <3>1 DEF Submit, TypeOK
  <2>2. CASE Evaluate(w)
    <3>1. [d EXCEPT !.pc = "granted", !.version = active] \in RedeemerType
      BY <1>0, <2>0, RedeemerUpdates DEF TypeOK
    <3> QED BY <1>0, <2>0, <2>2, <3>1 DEF Evaluate, TypeOK
  <2>3. CASE ClaimWin(w)
    <3>1. [d EXCEPT !.pc = "claimed", !.claimedAt = now] \in RedeemerType
      BY <1>0, <2>0, RedeemerUpdates DEF TypeOK
    <3>2. redeemer' = [redeemer EXCEPT ![w] =
                          [d EXCEPT !.pc = "claimed", !.claimedAt = now]]
      BY <2>3 DEF ClaimWin
    <3>3. redeemer' \in [Redeemers -> RedeemerType]
      BY <1>0, <3>1, <3>2 DEF TypeOK
    <3> QED BY <1>0, <2>3, <3>3 DEF ClaimWin, TypeOK
  <2>4. CASE ClaimLose(w)
    BY <1>0, <2>0, <2>4 DEF ClaimLose, TypeOK
  <2>5. CASE CommitRun(w)
    <3>1. d.req \in Requests /\ d.content \in Contents
      BY <2>5 DEF IInv, RedeemersInv, HandlerInv, CommitRun
    <3>2. d.version \in 0..MaxVersion /\ d.claimedAt \in Nat
      BY <2>0 DEF RedeemerType
    <3>3. Len(runs) + 1 \in Nat
      BY <1>0 DEF TypeOK
    <3>4. ConsumedBy(approval[d.req], d.claimedAt, Len(runs) + 1) \in RowType
      BY <1>0, <3>1, <3>2, <3>3, RowConsumed DEF TypeOK
    <3>5. approval' \in [Requests -> RowType]
      BY <1>0, <2>5, <3>4 DEF CommitRun, TypeOK
    <3>6. [d EXCEPT !.pc = "committed", !.run = Len(runs) + 1] \in RedeemerType
      BY <2>0, <3>3, RedeemerUpdates
    <3>7. redeemer' = [redeemer EXCEPT ![w] =
                    [d EXCEPT !.pc = "committed", !.run = Len(runs) + 1]]
      BY <2>5 DEF CommitRun
    <3>8. redeemer' \in [Redeemers -> RedeemerType]
      BY <1>0, <3>6, <3>7 DEF TypeOK
    <3>9. [req |-> d.req, content |-> d.content, version |-> d.version,
           state |-> "committed"] \in RunType
      BY <3>1, <3>2 DEF RunType
    <3>10. runs' \in Seq(RunType)
      BY <1>0, <2>5, <3>9 DEF CommitRun, TypeOK
    <3> QED BY <1>0, <2>5, <3>5, <3>8, <3>10 DEF CommitRun, TypeOK
  <2>6. ASSUME NEW s \in {"cleared", "dispatched", "blocked"},
               d.pc \in {"committed", "cleared"},
               runs' = [runs EXCEPT ![d.run].state = s]
        PROVE  runs' \in Seq(RunType)
    <3>1. d.run \in DOMAIN runs
      BY <2>6 DEF IInv, RedeemersInv, HandlerInv
    <3>2. runs \in Seq(RunType)
      BY <1>0 DEF TypeOK
    <3>3. d.run \in 1..Len(runs) /\ runs[d.run] \in RunType
      BY <3>1, <3>2
    <3>4. runs' = [runs EXCEPT ![d.run] = [runs[d.run] EXCEPT !.state = s]]
      BY <2>6
    <3> HIDE DEF d
    <3>5. [runs[d.run] EXCEPT !.state = s] \in RunType
      BY <3>3, RunState
    <3> QED BY <3>2, <3>3, <3>4, <3>5, ExceptSeq
  <2>7. CASE Clear(w)
    <3>1. [d EXCEPT !.pc = "cleared"] \in RedeemerType
      BY <2>0, RedeemerUpdates
    <3>2. runs' \in Seq(RunType)
      BY <2>6, <2>7 DEF Clear
    <3> QED BY <1>0, <2>7, <3>1, <3>2 DEF Clear, TypeOK
  <2>8. CASE Block(w) \/ MailboxBlock(w) \/ Dispatch(w)
    <3>1. runs' \in Seq(RunType)
      BY <2>6, <2>8 DEF Block, MailboxBlock, Dispatch
    <3> QED BY <1>0, <2>0, <2>8, <3>1 DEF Block, MailboxBlock, Dispatch, TypeOK
  <2>9. CASE Abandon(w)
    BY <1>0, <2>0, <2>9 DEF Abandon, TypeOK
  <2> QED BY <1>7, <2>1, <2>2, <2>3, <2>4, <2>5, <2>7, <2>8, <2>9 DEF Redeem
<1>8. CASE UNCHANGED vars
  BY <1>0, <1>8 DEF vars, TypeOK
<1> QED BY <1>1, <1>2, <1>3, <1>4, <1>5, <1>6, <1>7, <1>8 DEF Next, Review

-----------------------------------------------------------------------------

(***************************************************************************)
(* What any step leaves alone.                                             *)
(***************************************************************************)

BindingStable ==
    \A r \in Requests : approval[r].status # "none" =>
        /\ approval'[r].status # "none"
        /\ approval'[r].content = approval[r].content
        /\ approval'[r].version = approval[r].version

ApproversGrow == \A r \in Requests : approvers[r] \subseteq approvers'[r]

ConsumedStable ==
    \A r \in Requests :
        \/ approval'[r].consumedAt = approval[r].consumedAt
           /\ approval'[r].consumer = approval[r].consumer
        \/ \E w \in Redeemers : CommitRun(w) /\ redeemer[w].req = r
        \/ approval[r].status = "none" /\ approval'[r].consumedAt = None

RunsStable ==
    /\ DOMAIN runs \subseteq DOMAIN runs'
    /\ \A i \in DOMAIN runs : /\ runs'[i].req = runs[i].req
                              /\ runs'[i].content = runs[i].content
                              /\ runs'[i].version = runs[i].version

\* The steps that rewrite the state of a run.
Touch(w) == Clear(w) \/ Block(w) \/ MailboxBlock(w) \/ Dispatch(w)

LEMMA CommitRunEffect ==
    ASSUME NEW w \in Redeemers, IInv, CommitRun(w)
    PROVE  /\ DOMAIN runs' = DOMAIN runs \union {Len(runs) + 1}
           /\ Len(runs) + 1 \notin DOMAIN runs
           /\ \A i \in DOMAIN runs : runs'[i] = runs[i]
           /\ runs'[Len(runs) + 1].req = redeemer[w].req
           /\ runs'[Len(runs) + 1].content = redeemer[w].content
           /\ runs'[Len(runs) + 1].version = redeemer[w].version
<1> DEFINE run == [req |-> redeemer[w].req, content |-> redeemer[w].content,
                   version |-> redeemer[w].version, state |-> "committed"]
<1>1. runs \in Seq(RunType) /\ runs' = Append(runs, run)
  BY DEF IInv, TypeOK, CommitRun
<1> QED BY <1>1

LEMMA Frame ==
    ASSUME IInv, [Next]_vars
    PROVE  BindingStable /\ ApproversGrow /\ ConsumedStable
<1> USE DEF BindingStable, ApproversGrow, ConsumedStable
<1>0. /\ approval \in [Requests -> RowType]
      /\ approvers \in [Requests -> SUBSET Operators]
  BY DEF IInv, TypeOK
<1>1. CASE UNCHANGED <<approval, approvers>>
  BY <1>1
<1>2. ASSUME NEW r \in Requests, NEW c \in Contents, QueueApproval(r, c)
      PROVE  BindingStable /\ ApproversGrow /\ ConsumedStable
  <2>1. approval[r].status = "none"
    BY <1>2 DEF QueueApproval, IInv, RowsInv
  <2> QED BY <1>0, <1>2, <2>1 DEF QueueApproval
<1>3. ASSUME NEW r \in Requests, GateCommit(r)
      PROVE  BindingStable /\ ApproversGrow /\ ConsumedStable
  BY <1>0, <1>3 DEF GateCommit, RowType
<1>4. ASSUME NEW o \in Operators, DecideWrite(o)
      PROVE  BindingStable /\ ApproversGrow /\ ConsumedStable
  BY <1>0, <1>4 DEF DecideWrite, StatusOf, RowType
<1>5. ASSUME NEW w \in Redeemers, CommitRun(w)
      PROVE  BindingStable /\ ApproversGrow /\ ConsumedStable
  BY <1>0, <1>5 DEF CommitRun, ConsumedBy, RowType
<1> QED BY <1>1, <1>2, <1>3, <1>4, <1>5
  DEF Next, vars, Review, Originate, Redeem, ActivateContract, RetireContract,
      Tick, DecideRead, Authorize, GatePass, GateRefuse, Submit, Evaluate,
      ClaimWin, ClaimLose, Clear, Block, MailboxBlock,
      Dispatch, Abandon

LEMMA OnlyCommitRunAppends ==
    ASSUME [Next]_vars, \A w \in Redeemers : ~CommitRun(w)
    PROVE  DOMAIN runs' = DOMAIN runs
<1>1. CASE UNCHANGED runs
  BY <1>1
<1>2. ASSUME NEW w \in Redeemers, Touch(w)
      PROVE  DOMAIN runs' = DOMAIN runs
  BY <1>2 DEF Touch, Clear, Block, MailboxBlock, Dispatch
<1> QED BY <1>1, <1>2
  DEF Touch, Next, vars, Review, Originate, Redeem, ActivateContract, RetireContract,
      Tick, DecideRead, DecideWrite, Authorize, QueueApproval, GatePass,
      GateRefuse, GateCommit, Submit, Evaluate, ClaimWin, ClaimLose, Abandon

LEMMA RunsFrame ==
    ASSUME IInv, [Next]_vars
    PROVE  RunsStable
<1> USE DEF RunsStable
<1>1. CASE UNCHANGED runs
  BY <1>1
<1>2. ASSUME NEW w \in Redeemers, CommitRun(w)
      PROVE  RunsStable
  BY <1>2, CommitRunEffect
<1>3. ASSUME NEW w \in Redeemers, Touch(w)
      PROVE  RunsStable
  <2> DEFINE n == redeemer[w].run
  <2>1. runs \in Seq(RunType)
    BY DEF IInv, TypeOK
  <2>2. PICK s : runs' = [runs EXCEPT ![n] = [runs[n] EXCEPT !.state = s]]
    BY <1>3 DEF Touch, Clear, Block, MailboxBlock, Dispatch
  <2>3. ASSUME NEW i \in DOMAIN runs
        PROVE  runs[i] \in RunType
    BY <2>1
  <2>4. DOMAIN runs' = DOMAIN runs
    BY <2>2
  <2>5. ASSUME NEW i \in DOMAIN runs, i # n
        PROVE  runs'[i] = runs[i]
    BY <2>2, <2>5
  <2>6. n \in DOMAIN runs => runs'[n] = [runs[n] EXCEPT !.state = s]
    BY <2>2
  <2> HIDE DEF n
  <2>7. ASSUME n \in DOMAIN runs
        PROVE  /\ runs'[n].req = runs[n].req
               /\ runs'[n].content = runs[n].content
               /\ runs'[n].version = runs[n].version
    BY <2>3, <2>6, <2>7 DEF RunType
  <2> QED BY <2>4, <2>5, <2>7
<1> QED BY <1>1, <1>2, <1>3
  DEF Touch, Next, vars, Review, Originate, Redeem, ActivateContract, RetireContract,
      Tick, DecideRead, DecideWrite, Authorize, QueueApproval, GatePass,
      GateRefuse, GateCommit, Submit, Evaluate, ClaimWin, ClaimLose, Abandon

-----------------------------------------------------------------------------

(***************************************************************************)
(* The invariant is inductive, conjunct by conjunct.                       *)
(***************************************************************************)

LEMMA NextRowsInv == IInv /\ [Next]_vars => RowsInv'
<1> SUFFICES ASSUME IInv, [Next]_vars PROVE RowsInv'
  OBVIOUS
<1>0. /\ approval \in [Requests -> RowType]
      /\ approvers \in [Requests -> SUBSET Operators]
      /\ origin \in [Requests -> OriginType]
      /\ decision \in [Requests -> {"none", "APPROVAL", "BLOCK"}]
      /\ RowsInv
  BY DEF IInv, TypeOK
<1> USE DEF RowsInv
<1>1. CASE UNCHANGED <<approval, approvers, origin, decision>>
  BY <1>0, <1>1
<1>2. ASSUME NEW r \in Requests, Originate(r)
      PROVE  RowsInv'
  <2>1. CASE Authorize(r) \/ GatePass(r) \/ GateRefuse(r)
    BY <1>0, <2>1 DEF Authorize, GatePass, GateRefuse, OriginType
  <2>2. ASSUME NEW c \in Contents, QueueApproval(r, c)
        PROVE  RowsInv'
    BY <1>0, <2>2 DEF QueueApproval, OriginType
  <2>3. CASE GateCommit(r)
    BY <1>0, <2>3 DEF GateCommit, OriginType, RowType
  <2> QED BY <1>2, <2>1, <2>2, <2>3 DEF Originate
<1>3. ASSUME NEW o \in Operators, DecideWrite(o)
      PROVE  RowsInv'
  <2> DEFINE r == operator[o].req
             v == operator[o].verdict
  <2>1. r \in Requests /\ v \in {"ALLOW", "BLOCK"} /\ approval[r].status # "none"
    BY <1>3 DEF IInv, OperatorsInv, DecideWrite
  <2>2. /\ approval' = [approval EXCEPT ![r] =
                            [approval[r] EXCEPT !.status = StatusOf(v)]]
        /\ approvers' = [approvers EXCEPT ![r] =
                 IF v = "ALLOW" THEN approvers[r] \union {o} ELSE approvers[r]]
        /\ origin' = origin /\ decision' = decision
    BY <1>3 DEF DecideWrite
  <2>3. StatusOf(v) \in {"approved", "denied"} /\ (v = "ALLOW" <=> StatusOf(v) = "approved")
    BY <2>1 DEF StatusOf
  <2> HIDE DEF r, v
  <2>4. /\ approval'[r].status = StatusOf(v)
        /\ approval'[r].content = approval[r].content
        /\ v = "ALLOW" => approvers'[r] # {}
    BY <1>0, <2>1, <2>2 DEF RowType
  <2>5. \A q \in Requests \ {r} : approval'[q] = approval[q] /\ approvers'[q] = approvers[q]
    BY <1>0, <2>2
  <2> QED BY <1>0, <2>1, <2>2, <2>3, <2>4, <2>5
<1>4. ASSUME NEW w \in Redeemers, CommitRun(w)
      PROVE  RowsInv'
  <2>1. approval[redeemer[w].req].status # "none"
    BY <1>4 DEF IInv, RedeemersInv, HandlerInv, CommitRun
  <2> QED BY <1>0, <1>4, <2>1 DEF CommitRun, ConsumedBy, RowType
<1> QED BY <1>1, <1>2, <1>3, <1>4
  DEF Next, vars, Review, Redeem, ActivateContract, RetireContract, Tick,
      DecideRead, Submit, Evaluate, ClaimWin, ClaimLose, Clear, Block,
      MailboxBlock, Dispatch, Abandon

LEMMA NextOperatorsInv == IInv /\ [Next]_vars => OperatorsInv'
<1> SUFFICES ASSUME IInv, [Next]_vars PROVE OperatorsInv'
  OBVIOUS
<1>0. BindingStable /\ OperatorsInv /\ operator \in [Operators -> OperatorType]
  BY Frame DEF IInv, TypeOK
<1>1. CASE UNCHANGED operator
  BY <1>0, <1>1 DEF OperatorsInv, BindingStable
<1>2. ASSUME NEW o \in Operators, NEW r \in Requests, NEW v \in {"ALLOW", "BLOCK"},
             DecideRead(o, r, v)
      PROVE  OperatorsInv'
  BY <1>0, <1>2 DEF OperatorsInv, BindingStable, DecideRead, Decidable
<1>3. ASSUME NEW o \in Operators, DecideWrite(o)
      PROVE  OperatorsInv'
  <2>1. operator' = [operator EXCEPT ![o] = IdleOperator]
    BY <1>3 DEF DecideWrite
  <2> QED BY <1>0, <2>1 DEF OperatorsInv, BindingStable, IdleOperator
<1> QED BY <1>1, <1>2, <1>3
  DEF Next, vars, Review, Originate, Redeem, ActivateContract, RetireContract,
      Tick, Authorize, QueueApproval, GatePass, GateRefuse, GateCommit, Submit,
      Evaluate, ClaimWin, ClaimLose, CommitRun, Clear, Block, MailboxBlock,
      Dispatch, Abandon

\* A handler that does not move keeps its invariant across any step.
LEMMA HandlerStable ==
    ASSUME IInv, [Next]_vars, NEW w \in Redeemers,
           redeemer'[w] = redeemer[w],
           redeemer[w].pc = "claimed" => writer' = w
    PROVE  HandlerInv(w, redeemer[w])'
<1> DEFINE d == redeemer[w]
<1>0. /\ BindingStable /\ ApproversGrow /\ ConsumedStable /\ RunsStable
      /\ HandlerInv(w, d) /\ RedeemersInv /\ RowsInv
  BY Frame, RunsFrame DEF IInv, RedeemersInv
<1>1. CASE d.pc = "idle"
  BY <1>1 DEF HandlerInv
<1>2. CASE d.pc # "idle"
  <2>1. /\ d.req \in Requests /\ d.content \in Contents
        /\ approval'[d.req].status # "none"
        /\ approval'[d.req].content = approval[d.req].content
        /\ approval'[d.req].version = approval[d.req].version
        /\ approvers[d.req] # {} => approvers'[d.req] # {}
    BY <1>0, <1>2 DEF HandlerInv, BindingStable, ApproversGrow
  <2>2. ASSUME d.pc = "claimed"
        PROVE  approval'[d.req].consumedAt = None
    <3>1. approval[d.req].consumedAt = None /\ writer = w
      BY <1>0, <2>2 DEF HandlerInv
    <3>2. ASSUME NEW v \in Redeemers, CommitRun(v)
          PROVE  FALSE
      <4>1. writer = v /\ writer' = None
        BY <1>0, <3>2 DEF CommitRun, RedeemersInv, HandlerInv
      <4> QED BY <2>2, <4>1, ConstantsAssumption
    <3> QED BY <1>0, <2>1, <3>1, <3>2 DEF ConsumedStable
  <2>3. ASSUME d.pc \in {"committed", "cleared"}
        PROVE  d.run \in DOMAIN runs' /\ runs'[d.run].version = d.version
    BY <1>0, <1>2, <2>3 DEF HandlerInv, RunsStable
  <2> QED BY <1>0, <1>2, <2>1, <2>2, <2>3 DEF HandlerInv
<1> QED BY <1>1, <1>2

LEMMA NextRedeemersInv == IInv /\ [Next]_vars => RedeemersInv'
<1> SUFFICES ASSUME IInv, [Next]_vars, NEW v \in Redeemers
             PROVE  HandlerInv(v, redeemer[v])'
  BY DEF RedeemersInv
<1>0. /\ RedeemersInv /\ RowsInv
      /\ redeemer \in [Redeemers -> RedeemerType]
      /\ approval \in [Requests -> RowType]
  BY DEF IInv, TypeOK
<1>1. CASE UNCHANGED <<redeemer, writer>>
  <2>1. redeemer[v].pc = "claimed" => writer' = v
    BY <1>0, <1>1 DEF RedeemersInv, HandlerInv
  <2> QED BY <1>1, <2>1, HandlerStable
<1>2. ASSUME NEW w \in Redeemers, Redeem(w), v # w
      PROVE  HandlerInv(v, redeemer[v])'
  <2>1. redeemer'[v] = redeemer[v]
    BY <1>0, <1>2 DEF Redeem, Submit, Evaluate, ClaimWin, ClaimLose, CommitRun,
                      Clear, Block, MailboxBlock, Dispatch, Abandon
  <2>2. ASSUME redeemer[v].pc = "claimed"
        PROVE  writer' = v
    <3>1. writer = v
      BY <1>0, <2>2 DEF RedeemersInv, HandlerInv
    <3>2. redeemer[w].pc # "claimed"
      BY <1>0, <1>2, <3>1 DEF RedeemersInv, HandlerInv
    <3> QED BY <1>2, <3>1, <3>2, ConstantsAssumption
      DEF Redeem, Submit, Evaluate, ClaimWin, ClaimLose, CommitRun, Clear,
          Block, MailboxBlock, Dispatch, Abandon
  <2> QED BY <2>1, <2>2, HandlerStable
<1>3. ASSUME Redeem(v)
      PROVE  HandlerInv(v, redeemer[v])'
  <2> DEFINE d == redeemer[v]
  <2>0. HandlerInv(v, d) /\ d \in RedeemerType
    BY <1>0 DEF RedeemersInv
  <2>1. ASSUME NEW r \in Requests, NEW c \in Contents, Submit(v, r, c)
        PROVE  HandlerInv(v, redeemer[v])'
    <3>1. redeemer'[v] = [IdleRedeemer EXCEPT !.pc = "loaded", !.req = r,
                              !.content = c, !.row = approval[r]]
      BY <1>0, <2>1 DEF Submit
    <3>2. approval' = approval /\ approvers' = approvers
          /\ approval[r].status # "none"
      BY <1>0, <2>1 DEF Submit, RowsInv
    <3>3. /\ redeemer'[v].pc = "loaded" /\ redeemer'[v].req = r
          /\ redeemer'[v].content = c /\ redeemer'[v].row = approval[r]
      BY <3>1 DEF IdleRedeemer
    <3>4. approval[r].status = "approved" => approvers[r] # {}
      BY <1>0 DEF RowsInv
    <3> QED BY <3>2, <3>3, <3>4 DEF HandlerInv
  <2>2. CASE Evaluate(v)
    <3>1. CASE redeemer'[v] = IdleRedeemer
      BY <3>1 DEF HandlerInv, IdleRedeemer
    <3>2. CASE /\ EvaluateGrant(d.row, d.content, active, now)
               /\ redeemer'[v] = [d EXCEPT !.pc = "granted", !.version = active]
      <4>1. /\ redeemer'[v].pc = "granted" /\ redeemer'[v].req = d.req
            /\ redeemer'[v].content = d.content /\ redeemer'[v].version = active
        BY <2>0, <3>2 DEF RedeemerType
      <4>2. /\ d.req \in Requests /\ d.content \in Contents
            /\ approval[d.req].status # "none"
            /\ d.row.content = approval[d.req].content
            /\ d.row.version = approval[d.req].version
            /\ d.row.status = "approved" => approvers[d.req] # {}
        BY <2>0, <2>2 DEF Evaluate, HandlerInv
      <4>3. /\ d.row.status = "approved" /\ d.row.content = d.content
            /\ d.row.version = active
        BY <3>2 DEF EvaluateGrant, PayloadMatches
      <4>4. approval' = approval /\ approvers' = approvers
        BY <2>2 DEF Evaluate
      <4> HIDE DEF d
      <4> QED BY <4>1, <4>2, <4>3, <4>4 DEF HandlerInv
    <3> QED BY <1>0, <2>2, <3>1, <3>2 DEF Evaluate
  <2>3. CASE ClaimWin(v)
    <3>1. redeemer'[v] = [d EXCEPT !.pc = "claimed", !.claimedAt = now]
      BY <1>0, <2>3 DEF ClaimWin
    <3>2. /\ redeemer'[v].pc = "claimed" /\ redeemer'[v].req = d.req
          /\ redeemer'[v].content = d.content /\ redeemer'[v].version = d.version
      BY <2>0, <3>1 DEF RedeemerType
    <3>3. /\ d.pc = "granted" /\ writer' = v
          /\ approval[d.req].consumedAt = None
          /\ approval' = approval /\ approvers' = approvers
      BY <2>3 DEF ClaimWin, Claimable
    <3> QED BY <2>0, <3>2, <3>3 DEF HandlerInv
  <2>4. CASE CommitRun(v)
    <3>1. redeemer'[v] = [d EXCEPT !.pc = "committed", !.run = Len(runs) + 1]
      BY <1>0, <2>4 DEF CommitRun
    <3>2. /\ Len(runs) + 1 \in DOMAIN runs'
          /\ runs'[Len(runs) + 1].version = d.version
      BY <2>4, CommitRunEffect
    <3>3. BindingStable
      BY Frame
    <3>4. /\ redeemer'[v].pc = "committed" /\ redeemer'[v].req = d.req
          /\ redeemer'[v].content = d.content /\ redeemer'[v].version = d.version
          /\ redeemer'[v].run = Len(runs) + 1
      BY <2>0, <3>1 DEF RedeemerType
    <3>5. /\ d.req \in Requests /\ d.content \in Contents
          /\ approval[d.req].status # "none"
      BY <2>0, <2>4 DEF CommitRun, HandlerInv
    <3> HIDE DEF d
    <3>6. approval'[d.req].status # "none"
      BY <3>3, <3>5 DEF BindingStable
    <3> QED BY <3>2, <3>4, <3>5, <3>6 DEF HandlerInv
  <2>5. CASE \/ ClaimLose(v) \/ Block(v) \/ MailboxBlock(v)
             \/ Dispatch(v) \/ Abandon(v)
    <3>1. redeemer'[v] = IdleRedeemer
      BY <1>0, <2>5 DEF ClaimLose, Block, MailboxBlock, Dispatch, Abandon
    <3> QED BY <3>1 DEF HandlerInv, IdleRedeemer
  <2>6. CASE Clear(v)
    <3>1. redeemer'[v] = [d EXCEPT !.pc = "cleared"]
      BY <1>0, <2>6 DEF Clear
    <3>2. /\ redeemer'[v].pc = "cleared" /\ redeemer'[v].req = d.req
          /\ redeemer'[v].content = d.content /\ redeemer'[v].version = d.version
          /\ redeemer'[v].run = d.run
      BY <2>0, <3>1 DEF RedeemerType
    <3>3. /\ d.req \in Requests /\ d.content \in Contents
          /\ approval[d.req].status # "none"
          /\ d.run \in DOMAIN runs /\ runs[d.run].version = d.version
          /\ approval' = approval
      BY <2>0, <2>6 DEF Clear, HandlerInv
    <3>4. d.run \in DOMAIN runs' /\ runs'[d.run].version = d.version
      BY <3>3, RunsFrame DEF RunsStable
    <3> HIDE DEF d
    <3> QED BY <3>2, <3>3, <3>4 DEF HandlerInv
  <2> QED BY <1>3, <2>1, <2>2, <2>3, <2>4, <2>5, <2>6 DEF Redeem
<1> QED BY <1>1, <1>2, <1>3
  DEF Next, vars, Review, Originate, ActivateContract, RetireContract, Tick,
      DecideRead, DecideWrite, Authorize, QueueApproval, GatePass, GateRefuse,
      GateCommit

LEMMA NextGrantCommitsWithRun == IInv /\ [Next]_vars => GrantCommitsWithRun'
<1> SUFFICES ASSUME IInv, [Next]_vars PROVE GrantCommitsWithRun'
  OBVIOUS
<1>0. /\ GrantCommitsWithRun /\ ConsumedStable /\ RunsStable
      /\ approval \in [Requests -> RowType]
      /\ \A i \in DOMAIN runs : runs[i].req \in Requests
  <2>1. \A i \in DOMAIN runs : runs[i] \in RunType
    BY DEF IInv, TypeOK
  <2> QED BY <2>1, Frame, RunsFrame DEF IInv, TypeOK, RunType
<1>1. ASSUME NEW w \in Redeemers, CommitRun(w)
      PROVE  GrantCommitsWithRun'
  <2> DEFINE r == redeemer[w].req
             n == Len(runs) + 1
  <2>1. r \in Requests /\ approval[r].consumedAt = None
    BY <1>1 DEF CommitRun, IInv, RedeemersInv, HandlerInv
  <2>2. /\ approval'[r].consumedAt # None /\ approval'[r].consumer = n
        /\ \A q \in Requests \ {r} : approval'[q] = approval[q]
    <3>1. redeemer[w].claimedAt \in Nat
      BY DEF IInv, TypeOK, RedeemerType
    <3> QED BY <1>0, <1>1, <2>1, <3>1, ConstantsAssumption
        DEF CommitRun, ConsumedBy, RowType
  <2>3. /\ DOMAIN runs' = DOMAIN runs \union {n}
        /\ \A i \in DOMAIN runs : runs'[i] = runs[i]
        /\ runs'[n].req = r
    BY <1>1, CommitRunEffect
  <2>4. \A i \in DOMAIN runs : runs[i].req # r
    BY <1>0, <2>1 DEF GrantCommitsWithRun
  <2> HIDE DEF r, n
  <2> QED BY <1>0, <2>1, <2>2, <2>3, <2>4 DEF GrantCommitsWithRun
<1>2. CASE /\ DOMAIN runs' = DOMAIN runs
           /\ ~ \E w \in Redeemers : CommitRun(w)
  <2>1. \A r \in Requests :
           \/ /\ approval'[r].consumedAt = approval[r].consumedAt
              /\ approval'[r].consumer = approval[r].consumer
           \/ /\ approval'[r].consumedAt = None
              /\ approval[r].consumedAt = None
    BY <1>0, <1>2 DEF ConsumedStable, IInv, RowsInv
  <2> QED BY <1>0, <1>2, <2>1 DEF GrantCommitsWithRun, RunsStable
<1>3. \/ \E w \in Redeemers : CommitRun(w)
      \/ DOMAIN runs' = DOMAIN runs
  BY OnlyCommitRunAppends
<1> QED BY <1>1, <1>2, <1>3

LEMMA NextRunsAsApproved == IInv /\ [Next]_vars => RunsAsApproved'
<1> SUFFICES ASSUME IInv, [Next]_vars PROVE RunsAsApproved'
  OBVIOUS
<1>0. /\ RunsAsApproved /\ BindingStable /\ ApproversGrow /\ RunsStable
      /\ \A i \in DOMAIN runs : /\ runs[i].req \in Requests
                                /\ approval[runs[i].req].status # "none"
  <2>1. \A i \in DOMAIN runs : runs[i] \in RunType
    BY DEF IInv, TypeOK
  <2> QED BY <2>1, Frame, RunsFrame
      DEF IInv, RunType, GrantCommitsWithRun, RowsInv
<1>1. ASSUME NEW i \in DOMAIN runs
      PROVE  /\ approvers'[runs'[i].req] # {}
             /\ runs'[i].content = approval'[runs'[i].req].content
             /\ runs'[i].version = approval'[runs'[i].req].version
  BY <1>0 DEF RunsAsApproved, BindingStable, ApproversGrow, RunsStable
<1>2. ASSUME NEW w \in Redeemers, CommitRun(w)
      PROVE  RunsAsApproved'
  <2> DEFINE d == redeemer[w]
             n == Len(runs) + 1
  <2>1. /\ d.req \in Requests /\ approval[d.req].status # "none"
        /\ d.content = approval[d.req].content
        /\ d.version = approval[d.req].version
        /\ approvers[d.req] # {}
    BY <1>2 DEF CommitRun, IInv, RedeemersInv, HandlerInv
  <2>2. /\ DOMAIN runs' = DOMAIN runs \union {n}
        /\ runs'[n].req = d.req /\ runs'[n].content = d.content
        /\ runs'[n].version = d.version
    BY <1>2, CommitRunEffect
  <2> HIDE DEF d, n
  <2> QED BY <1>0, <1>1, <2>1, <2>2
      DEF RunsAsApproved, BindingStable, ApproversGrow
<1>3. \/ \E w \in Redeemers : CommitRun(w)
      \/ DOMAIN runs' = DOMAIN runs
  BY OnlyCommitRunAppends
<1> QED BY <1>1, <1>2, <1>3 DEF RunsAsApproved

-----------------------------------------------------------------------------

\* In every reachable state the rows, the handlers and the runs agree as IInv
\* says: whatever a thread still carries after its reads is true of the
\* committed rows (enforcement._resume_approved_request).
THEOREM Invariant == Spec => []IInv
<1>1. IInv /\ [Next]_vars => IInv'
  BY NextTypeOK, NextRowsInv, NextOperatorsInv, NextRedeemersInv,
     NextGrantCommitsWithRun, NextRunsAsApproved DEF IInv
<1> QED BY <1>1, InitIInv, PTL DEF Spec

\* Approval rows, execution events and handler locals keep their types.
THEOREM TypeCorrect == Spec => []TypeOK
<1>1. IInv => TypeOK
  BY DEF IInv
<1> QED BY <1>1, Invariant, PTL

\* Whatever number of threads redeem one approval, at most one execution event
\* is ever committed for it (approval_grant.claim).
THEOREM ApprovalIsSingleUse == Spec => []SingleUse
<1>1. IInv => SingleUse
  BY DEF IInv, GrantCommitsWithRun, SingleUse
<1> QED BY <1>1, Invariant, PTL

\* A consumed row and the event it names exist together or not at all.
THEOREM ConsumptionIsAtomic == Spec => []GrantCommitsWithRun
<1>1. IInv => GrantCommitsWithRun
  BY DEF IInv
<1> QED BY <1>1, Invariant, PTL

\* Every execution has a human's ALLOW, the approved content and the contract
\* version the approval was queued under.
THEOREM ExecutionIsAsApproved == Spec => []RunsAsApproved
<1>1. IInv => RunsAsApproved
  BY DEF IInv
<1> QED BY <1>1, Invariant, PTL

\* A tool call goes out only under the contract version its approval was
\* queued under (contract_store.assert_contract_current_for_dispatch).
THEOREM ClearanceIsBound == Spec => ClearedUnderBoundContract
<1> DEFINE Bound == \A i \in DOMAIN runs :
                       (runs'[i].state = "cleared" /\ runs[i].state # "cleared")
                           => active = approval[runs[i].req].version
<1>1. IInv /\ [Next]_vars => Bound
  <2> SUFFICES ASSUME IInv, [Next]_vars, NEW i \in DOMAIN runs,
                      runs'[i].state = "cleared", runs[i].state # "cleared"
               PROVE  active = approval[runs[i].req].version
    OBVIOUS
  <2>1. CASE UNCHANGED runs
    BY <2>1
  <2>2. ASSUME NEW w \in Redeemers, CommitRun(w)
        PROVE  FALSE
    BY <2>2, CommitRunEffect
  <2>3. ASSUME NEW w \in Redeemers, Clear(w)
        PROVE  active = approval[runs[i].req].version
    <3>1. i = redeemer[w].run
      BY <2>3 DEF Clear
    <3>2. redeemer[w].version = active /\ runs[i].version = redeemer[w].version
      BY <2>3, <3>1
      DEF Clear, CurrentForDispatch, IInv, RedeemersInv, HandlerInv
    <3> QED BY <3>2 DEF IInv, RunsAsApproved
  <2>4. ASSUME NEW w \in Redeemers, Block(w) \/ MailboxBlock(w) \/ Dispatch(w)
        PROVE  FALSE
    <3> DEFINE n == redeemer[w].run
    <3>1. PICK s \in {"blocked", "dispatched"} :
             runs' = [runs EXCEPT ![n] = [runs[n] EXCEPT !.state = s]]
      BY <2>4 DEF Block, MailboxBlock, Dispatch
    <3>2. n \in DOMAIN runs /\ runs[n] \in RunType
      BY <2>4
      DEF Block, MailboxBlock, Dispatch, IInv, RedeemersInv, HandlerInv, TypeOK
    <3> HIDE DEF n
    <3>3. i # n => runs'[i] = runs[i]
      BY <3>1
    <3>4. runs'[n].state = s
      BY <3>1, <3>2 DEF RunType
    <3> QED BY <3>3, <3>4
  <2> QED BY <2>1, <2>2, <2>3, <2>4
    DEF Next, vars, Review, Originate, Redeem, ActivateContract,
        RetireContract, Tick, DecideRead, DecideWrite, Authorize,
        QueueApproval, GatePass, GateRefuse, GateCommit, Submit, Evaluate,
        ClaimWin, ClaimLose, Abandon
<1> QED BY <1>1, Invariant, PTL DEF Spec, ClearedUnderBoundContract

-----------------------------------------------------------------------------

(***************************************************************************)
(* Refinement.                                                             *)
(***************************************************************************)

Asked   == {r \in Requests : approval[r].status # "none"}
Granted == {r \in Requests : approvers[r] # {}}
Spent   == [i \in DOMAIN runs |-> runs[i].req]

LEMMA SpentSame ==
    ASSUME RunsStable, DOMAIN runs' = DOMAIN runs
    PROVE  Spent' = Spent
BY DEF Spent, RunsStable

LEMMA RefineInit == Init => Asked = {} /\ Granted = {} /\ Spent = <<>>
BY DEF Init, Asked, Granted, Spent, NoRow

LEMMA RefineQueue ==
    ASSUME IInv, NEW r \in Requests, NEW c \in Contents, QueueApproval(r, c)
    PROVE  r \notin Asked /\ Asked' = Asked \union {r} /\ UNCHANGED <<Granted, Spent>>
<1>1. approval[r].status = "none" /\ approval \in [Requests -> RowType]
  BY DEF QueueApproval, IInv, RowsInv, TypeOK
<1> QED BY <1>1 DEF QueueApproval, Asked, Granted, Spent

LEMMA RefineDecide ==
    ASSUME IInv, NEW o \in Operators, DecideWrite(o)
    PROVE  \/ UNCHANGED <<Asked, Granted, Spent>>
           \/ \E r \in Requests : /\ r \in Asked
                                  /\ Granted' = Granted \union {r}
                                  /\ UNCHANGED <<Asked, Spent>>
<1> DEFINE r == operator[o].req
           v == operator[o].verdict
<1>0. /\ r \in Requests /\ approval[r].status # "none"
      /\ approval \in [Requests -> RowType]
      /\ approvers \in [Requests -> SUBSET Operators]
  BY DEF DecideWrite, IInv, OperatorsInv, TypeOK
<1>1. /\ approval' = [approval EXCEPT ![r] =
                          [approval[r] EXCEPT !.status = StatusOf(v)]]
      /\ approvers' = [approvers EXCEPT ![r] =
                 IF v = "ALLOW" THEN approvers[r] \union {o} ELSE approvers[r]]
      /\ runs' = runs
  BY DEF DecideWrite
<1>2. StatusOf(v) # "none"
  BY DEF StatusOf
<1> HIDE DEF r, v
<1>3. Asked' = Asked
  <2>1. approval'[r].status # "none"
    BY <1>0, <1>1, <1>2 DEF RowType
  <2>2. \A q \in Requests \ {r} : approval'[q] = approval[q]
    BY <1>0, <1>1
  <2> QED BY <1>0, <2>1, <2>2 DEF Asked
<1>4. Spent' = Spent
  BY <1>1 DEF Spent
<1>5. CASE v = "ALLOW"
  <2>1. /\ approvers'[r] # {}
        /\ \A q \in Requests \ {r} : approvers'[q] = approvers[q]
    BY <1>0, <1>1, <1>5
  <2>2. Granted' = Granted \union {r}
    BY <1>0, <2>1 DEF Granted
  <2> QED BY <1>0, <1>3, <1>4, <2>2 DEF Asked
<1>6. CASE v # "ALLOW"
  <2>1. approvers' = approvers
    BY <1>0, <1>1, <1>6
  <2> QED BY <1>3, <1>4, <2>1 DEF Granted
<1> QED BY <1>5, <1>6

LEMMA RefineCommit ==
    ASSUME IInv, [Next]_vars, NEW w \in Redeemers, CommitRun(w)
    PROVE  \E r \in Requests :
              /\ r \in Granted
              /\ \A i \in DOMAIN Spent : Spent[i] # r
              /\ Spent' = Append(Spent, r)
              /\ UNCHANGED <<Asked, Granted>>
<1> DEFINE r == redeemer[w].req
<1>1. /\ r \in Requests /\ r \in Granted
      /\ approval[r].consumedAt = None /\ approval[r].status # "none"
  BY DEF CommitRun, IInv, RedeemersInv, HandlerInv, Granted
<1>2. \A i \in DOMAIN Spent : Spent[i] # r
  BY <1>1 DEF IInv, GrantCommitsWithRun, Spent
<1>3. Spent' = Append(Spent, r)
  <2> DEFINE run == [req |-> r, content |-> redeemer[w].content,
                     version |-> redeemer[w].version, state |-> "committed"]
  <2>1. runs \in Seq(RunType) /\ runs' = Append(runs, run)
    BY DEF IInv, TypeOK, CommitRun
  <2>2. run.req = r
    OBVIOUS
  <2> HIDE DEF r, run
  <2>3. /\ Len(runs) \in Nat /\ DOMAIN runs = 1..Len(runs)
        /\ DOMAIN runs' = 1..(Len(runs) + 1)
        /\ \A i \in 1..Len(runs) : runs'[i] = runs[i]
        /\ runs'[Len(runs) + 1] = run
    BY <2>1
  <2>4. Append(Spent, r) = [i \in 1..(Len(runs) + 1) |->
                               IF i <= Len(runs) THEN runs[i].req ELSE r]
    BY <2>3 DEF Spent
  <2>5. Spent' = [i \in 1..(Len(runs) + 1) |-> runs'[i].req]
    BY <2>3 DEF Spent
  <2> QED BY <2>2, <2>3, <2>4, <2>5
<1>4. Asked' = Asked /\ Granted' = Granted
  <2>1. approval \in [Requests -> RowType]
    BY DEF IInv, TypeOK
  <2>2. \A q \in Requests : approval'[q].status = approval[q].status
    BY <1>1, <2>1 DEF CommitRun, ConsumedBy, RowType
  <2> QED BY <2>2 DEF Asked, Granted, CommitRun
<1> QED BY <1>1, <1>2, <1>3, <1>4

LEMMA RefineNext ==
    ASSUME IInv, [Next]_vars
    PROVE  [Grants!Next]_<<Asked, Granted, Spent>>
<1> USE DEF Asked, Granted, Spent
<1>0. RunsStable /\ approval \in [Requests -> RowType]
  BY RunsFrame DEF IInv, TypeOK
<1>1. CASE UNCHANGED <<approval, approvers>> /\ DOMAIN runs' = DOMAIN runs
  BY <1>0, <1>1, SpentSame
<1>2. ASSUME NEW r \in Requests, NEW c \in Contents, QueueApproval(r, c)
      PROVE  [Grants!Next]_<<Asked, Granted, Spent>>
  BY <1>2, RefineQueue DEF Grants!Next, Grants!Ask
<1>3. ASSUME NEW r \in Requests, GateCommit(r)
      PROVE  [Grants!Next]_<<Asked, Granted, Spent>>
  <2>1. approval[r].status # "none"
    BY <1>3 DEF GateCommit, IInv, RowsInv
  <2>2. \A q \in Requests : (approval'[q].status = "none") = (approval[q].status = "none")
    BY <1>0, <1>3, <2>1 DEF GateCommit, RowType
  <2> QED BY <1>3, <2>2 DEF GateCommit
<1>4. ASSUME NEW o \in Operators, DecideWrite(o)
      PROVE  [Grants!Next]_<<Asked, Granted, Spent>>
  BY <1>4, RefineDecide DEF Grants!Next, Grants!Grant
<1>5. ASSUME NEW w \in Redeemers, CommitRun(w)
      PROVE  [Grants!Next]_<<Asked, Granted, Spent>>
  BY <1>5, RefineCommit DEF Grants!Next, Grants!Spend
<1>6. ASSUME NEW w \in Redeemers, Touch(w)
      PROVE  UNCHANGED <<approval, approvers>> /\ DOMAIN runs' = DOMAIN runs
  BY <1>6 DEF Touch, Clear, Block, MailboxBlock, Dispatch
<1> QED BY <1>1, <1>2, <1>3, <1>4, <1>5, <1>6
  DEF Touch, Next, vars, Review, Originate, Redeem, ActivateContract, RetireContract,
      Tick, DecideRead, Authorize, GatePass, GateRefuse, Submit, Evaluate,
      ClaimWin, ClaimLose, Abandon

\* The approval loop implements the single-use grant: whatever the threads,
\* the clock and the failures do, an outsider sees requests asked, granted and
\* spent at most once each.
THEOREM Implements == Spec => ImplementsSingleUseGrant
<1>1. Init => Grants!Init
  BY RefineInit DEF Grants!Init, Asked, Granted, Spent
<1>2. IInv /\ [Next]_vars => [Grants!Next]_Grants!vars
  BY RefineNext DEF Grants!vars, Asked, Granted, Spent
<1> QED BY <1>1, <1>2, Invariant, PTL
    DEF Spec, ImplementsSingleUseGrant, Grants!Spec
=============================================================================
