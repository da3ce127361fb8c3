------------------------------ MODULE AgentProofs ------------------------------
(***************************************************************************)
(* Proofs about the agents' side of the gateway.  AgentCredential, for     *)
(* every set of tokens, operators and calls: who is let in.  AgentPrograms,*)
(* for every set of requests and gateway threads, every decision of the    *)
(* rules and every bound on turns, retries and polls: what the gateway     *)
(* keeps, then the email agent, then the reference workflow, then both.    *)
(***************************************************************************)
EXTENDS AgentCredential, AgentPrograms, FiniteSetTheorems, TLAPS

-----------------------------------------------------------------------------
(***************************************************************************)
(* The credential.                                                         *)
(***************************************************************************)


\* In the initial state only the first token is active, and every thread has
\* it for its latest.
LEMMA InitCredential == CredentialInit => CredentialInv
<1> SUFFICES ASSUME CredentialInit PROVE CredentialInv
    OBVIOUS
<1> USE CredentialAssumption DEF CredentialInit
<1>1. CredentialTypeOK
    BY DEF CredentialTypeOK, Free, Waiting
<1>2. LatestInv
  <2>1. ASSUME NEW t \in Active PROVE \E o \in Operators : latest[o] = t
    BY DEF Active
  <2>2. ASSUME NEW o \in Operators PROVE operator[o].pc # "issue"
    BY DEF Free
  <2>3. ASSUME NEW o \in Operators PROVE cred[latest[o]] # "unissued"
    OBVIOUS
  <2> QED BY <2>1, <2>2, <2>3 DEF LatestInv
<1>3. LateInv
    BY DEF LateInv, Waiting
<1> QED BY <1>1, <1>2, <1>3 DEF CredentialInv

\* A step that changes neither rows nor threads of the control plane leaves the
\* tie between active tokens and latest ones alone.
LEMMA LatestKept ==
    ASSUME LatestInv, cred' = cred, latest' = latest, operator' = operator
    PROVE  LatestInv'
    BY DEF LatestInv, Active

\* A thread that goes where it has not loaded the credentials disturbs it as
\* little.
LEMMA LatestMoved ==
    ASSUME CredentialTypeOK, LatestInv, NEW o \in Operators, NEW row,
           operator' = [operator EXCEPT ![o] = row], row.pc # "issue",
           cred' = cred, latest' = latest
    PROVE  LatestInv'
<1>1. ASSUME NEW t \in Active' PROVE \E p \in Operators : latest'[p] = t
    BY <1>1 DEF LatestInv, Active
<1>2. ASSUME NEW p \in Operators, operator'[p].pc = "issue", latest'[p] \in Active'
      PROVE  latest'[p] \in operator'[p].loaded
  <2>1. CASE p = o
    BY <1>2, <2>1 DEF CredentialTypeOK
  <2>2. CASE p # o
    BY <1>2, <2>2 DEF CredentialTypeOK, LatestInv, Active
  <2> QED BY <2>1, <2>2
<1>3. ASSUME NEW p \in Operators PROVE cred'[latest'[p]] # "unissued"
    BY DEF LatestInv
<1> QED BY <1>1, <1>2, <1>3 DEF LatestInv

\* A step that leaves the agent and the calls alone.
LEMMA LateKept ==
    ASSUME LateInv, status' = status, call' = call
    PROVE  LateInv'
    BY DEF LateInv

LEMMA StepCredential == CredentialInv /\ [CredentialNext]_credentialVars => CredentialInv'
<1> SUFFICES ASSUME CredentialInv, [CredentialNext]_credentialVars PROVE CredentialInv'
    OBVIOUS
<1> USE CredentialAssumption
<1>0. CredentialTypeOK /\ LatestInv /\ LateInv
    BY DEF CredentialInv
<1>1. ASSUME NEW o \in Operators, NEW kind \in {"rotate", "revoke"}, LoadAgent(o, kind)
      PROVE  CredentialInv'
  <2> DEFINE row == [operator[o] EXCEPT !.pc = kind]
  <2>1. operator' = [operator EXCEPT ![o] = row] /\ row.pc = kind
    BY <1>0, <1>1 DEF LoadAgent, CredentialTypeOK
  <2>2. CredentialTypeOK'
    BY <1>0, <1>1 DEF CredentialTypeOK, LoadAgent
  <2>3. LatestInv'
    <3> HIDE DEF row
    <3> QED BY <1>0, <1>1, <2>1, LatestMoved DEF LoadAgent
  <2>4. LateInv'
    BY <1>0, <1>1, LateKept DEF LoadAgent
  <2> QED BY <2>2, <2>3, <2>4 DEF CredentialInv
<1>2. ASSUME NEW o \in Operators, NEW kind \in {"rotate", "revoke"}, LoadCredentials(o, kind)
      PROVE  CredentialInv'
  <2> DEFINE row == [pc |-> IF kind = "rotate" THEN "issue" ELSE "disable",
                     loaded |-> Retiring(kind)]
  <2>0. Retiring(kind) \in SUBSET Tokens /\ (kind = "rotate" => Retiring(kind) = Active)
    BY DEF Retiring, Active
  <2>1. row \in [pc : {"free", "rotate", "revoke", "issue", "disable"}, loaded : SUBSET Tokens]
    BY <2>0
  <2>2. operator' = [operator EXCEPT ![o] = row]
    BY <1>2 DEF LoadCredentials
  <2>3. CredentialTypeOK'
    <3> HIDE DEF row
    <3> QED BY <1>0, <1>2, <2>1, <2>2 DEF CredentialTypeOK, LoadCredentials
  <2>4. LatestInv'
    <3>1. Active' = Active /\ latest' = latest
        BY <1>2 DEF LoadCredentials, Active
    <3>2. ASSUME NEW t \in Active' PROVE \E p \in Operators : latest'[p] = t
        BY <1>0, <3>1, <3>2 DEF LatestInv
    <3>3. ASSUME NEW p \in Operators, operator'[p].pc = "issue", latest'[p] \in Active'
          PROVE  latest'[p] \in operator'[p].loaded
      <4>1. CASE p = o
        <5>1. operator'[o] = row
            BY <1>0, <2>2 DEF CredentialTypeOK
        <5>2. kind = "rotate"
            BY <3>3, <4>1, <5>1
        <5> QED BY <2>0, <3>1, <3>3, <4>1, <5>1, <5>2
      <4>2. CASE p # o
        <5>1. operator'[p] = operator[p]
            BY <1>0, <2>2, <4>2 DEF CredentialTypeOK
        <5> QED BY <1>0, <3>1, <3>3, <5>1 DEF LatestInv
      <4> QED BY <4>1, <4>2
    <3>4. ASSUME NEW p \in Operators PROVE cred'[latest'[p]] # "unissued"
        BY <1>0, <1>2, <3>1 DEF LoadCredentials, LatestInv
    <3> QED BY <3>2, <3>3, <3>4 DEF LatestInv
  <2>5. LateInv'
    BY <1>0, <1>2, LateKept DEF LoadCredentials
  <2> QED BY <2>3, <2>4, <2>5 DEF CredentialInv
<1>3. ASSUME NEW o \in Operators, NEW t \in Tokens, Rotate(o, t) PROVE CredentialInv'
  <2> USE <1>3 DEF Rotate
  <2>1. /\ cred' \in [Tokens -> {"unissued", "active", "rotated", "revoked"}]
        /\ latest' \in [Operators -> Tokens] /\ latest'[o] = t
        /\ \A p \in Operators \ {o} : latest'[p] = latest[p]
    BY <1>0 DEF CredentialTypeOK
  <2>2. /\ operator' \in [Operators -> [pc : {"free", "rotate", "revoke", "issue", "disable"},
                                        loaded : SUBSET Tokens]]
        /\ operator'[o] = Free
        /\ \A p \in Operators \ {o} : operator'[p] = operator[p]
    BY <1>0 DEF CredentialTypeOK, Free
  <2>3. CredentialTypeOK'
    BY <1>0, <2>1, <2>2 DEF CredentialTypeOK
  <2>4. /\ t \notin Active
        /\ \A u \in Active' : u = t \/ (u \in Active /\ u \notin operator[o].loaded)
    BY DEF Active
  <2>5. LatestInv'
    <3>1. ASSUME NEW u \in Active' PROVE \E p \in Operators : latest'[p] = u
      <4>1. CASE u = t
        BY <2>1, <4>1
      <4>2. CASE u \in Active /\ u \notin operator[o].loaded
        <5>1. PICK p \in Operators : latest[p] = u
            BY <1>0, <4>2 DEF LatestInv
        <5>2. p # o
            BY <1>0, <4>2, <5>1 DEF LatestInv
        <5> QED BY <2>1, <5>1, <5>2
      <4> QED BY <2>4, <3>1, <4>1, <4>2
    <3>2. ASSUME NEW p \in Operators, operator'[p].pc = "issue", latest'[p] \in Active'
          PROVE  latest'[p] \in operator'[p].loaded
      <4>1. p # o
        BY <2>2, <3>2 DEF Free
      <4>2. operator'[p] = operator[p] /\ latest'[p] = latest[p]
        BY <2>1, <2>2, <4>1
      <4>3. latest[p] # t
        BY <1>0, <4>1 DEF LatestInv
      <4> QED BY <1>0, <2>4, <3>2, <4>2, <4>3 DEF LatestInv
    <3>3. ASSUME NEW p \in Operators PROVE cred'[latest'[p]] # "unissued"
      <4>1. latest[p] \in Tokens /\ cred[latest[p]] # "unissued"
        BY <1>0 DEF LatestInv, CredentialTypeOK
      <4>2. latest'[p] \in {t, latest[p]}
        BY <2>1
      <4> QED BY <4>1, <4>2
    <3> QED BY <3>1, <3>2, <3>3 DEF LatestInv
  <2>6. LateInv'
    BY <1>0, LateKept
  <2> QED BY <2>3, <2>5, <2>6 DEF CredentialInv
<1>4. ASSUME NEW o \in Operators, Revoke(o) PROVE CredentialInv'
  <2> USE <1>4 DEF Revoke
  <2>1. cred' \in [Tokens -> {"unissued", "active", "rotated", "revoked"}]
    BY <1>0 DEF CredentialTypeOK
  <2>2. /\ operator' \in [Operators -> [pc : {"free", "rotate", "revoke", "issue", "disable"},
                                        loaded : SUBSET Tokens]]
        /\ operator'[o] = Free
        /\ \A p \in Operators \ {o} : operator'[p] = operator[p]
    BY <1>0 DEF CredentialTypeOK, Free
  <2>3. CredentialTypeOK'
    BY <1>0, <2>1, <2>2 DEF CredentialTypeOK
  <2>4. Active' \subseteq Active
    BY DEF Active
  <2>5. LatestInv'
    <3>1. ASSUME NEW u \in Active' PROVE \E p \in Operators : latest'[p] = u
      BY <1>0, <2>4, <3>1 DEF LatestInv
    <3>2. ASSUME NEW p \in Operators, operator'[p].pc = "issue", latest'[p] \in Active'
          PROVE  latest'[p] \in operator'[p].loaded
      <4>1. p # o
        BY <2>2, <3>2 DEF Free
      <4> QED BY <1>0, <2>2, <2>4, <3>2, <4>1 DEF LatestInv
    <3>3. ASSUME NEW p \in Operators PROVE cred'[latest'[p]] # "unissued"
      BY <1>0 DEF LatestInv, CredentialTypeOK
    <3> QED BY <3>1, <3>2, <3>3 DEF LatestInv
  <2>6. LateInv'
    BY <1>0 DEF LateInv
  <2> QED BY <2>3, <2>5, <2>6 DEF CredentialInv
<1>5. ASSUME NEW o \in Operators, GiveUp(o) PROVE CredentialInv'
  <2>1. CredentialTypeOK'
    <3>1. Free \in [pc : {"free", "rotate", "revoke", "issue", "disable"}, loaded : SUBSET Tokens]
      BY DEF Free
    <3> QED BY <1>0, <1>5, <3>1 DEF CredentialTypeOK, GiveUp
  <2>2. LatestInv'
    <3>1. Free.pc # "issue"
      BY DEF Free
    <3> QED BY <1>0, <1>5, <3>1, LatestMoved DEF GiveUp
  <2>3. LateInv'
    BY <1>0, <1>5, LateKept DEF GiveUp
  <2> QED BY <2>1, <2>2, <2>3 DEF CredentialInv
<1>6. ASSUME NEW t \in Tokens, Expire(t) PROVE CredentialInv'
  <2>1. CredentialTypeOK'
    BY <1>0, <1>6 DEF CredentialTypeOK, Expire
  <2>2. LatestInv'
    BY <1>0, <1>6, LatestKept DEF Expire
  <2>3. LateInv'
    BY <1>0, <1>6, LateKept DEF Expire
  <2> QED BY <2>1, <2>2, <2>3 DEF CredentialInv
<1>7. ASSUME NEW c \in Calls, NEW t \in Tokens, Arrive(c, t) PROVE CredentialInv'
  <2>1. CredentialTypeOK'
    BY <1>0, <1>7 DEF CredentialTypeOK, Arrive
  <2>2. LatestInv'
    BY <1>0, <1>7, LatestKept DEF Arrive
  <2>3. LateInv'
    BY <1>0, <1>7 DEF Arrive, LateInv, CredentialTypeOK
  <2> QED BY <2>1, <2>2, <2>3 DEF CredentialInv
<1>8. ASSUME NEW c \in Calls, ReadCredential(c) PROVE CredentialInv'
  <2>1. CredentialTypeOK'
    <3>1. CASE Valid(call[c].token)
      BY <1>0, <1>8, <3>1 DEF CredentialTypeOK, ReadCredential
    <3>2. CASE ~Valid(call[c].token)
      BY <1>0, <1>8, <3>2 DEF CredentialTypeOK, ReadCredential, Waiting
    <3> QED BY <3>1, <3>2
  <2>2. LatestInv'
    BY <1>0, <1>8, LatestKept DEF ReadCredential
  <2>3. LateInv'
    BY <1>0, <1>8 DEF ReadCredential, LateInv, CredentialTypeOK, Waiting
  <2> QED BY <2>1, <2>2, <2>3 DEF CredentialInv
<1>9. ASSUME NEW c \in Calls, ReadAgent(c) PROVE CredentialInv'
  <2>1. CredentialTypeOK'
    <3>1. CASE AgentActive
      BY <1>0, <1>9, <3>1 DEF CredentialTypeOK, ReadAgent
    <3>2. CASE ~AgentActive
      BY <1>0, <1>9, <3>2 DEF CredentialTypeOK, ReadAgent, Waiting
    <3> QED BY <3>1, <3>2
  <2>2. LatestInv'
    BY <1>0, <1>9, LatestKept DEF ReadAgent
  \* A late call has found the agent revoked, and finds it so again.
  <2>3. LateInv'
    BY <1>0, <1>9 DEF ReadAgent, AgentActive, LateInv, CredentialTypeOK, Waiting
  <2> QED BY <2>1, <2>2, <2>3 DEF CredentialInv
<1>10. ASSUME NEW c \in Calls, Finish(c) PROVE CredentialInv'
  <2>1. CredentialTypeOK'
    BY <1>0, <1>10 DEF CredentialTypeOK, Finish, Waiting
  <2>2. LatestInv'
    BY <1>0, <1>10, LatestKept DEF Finish
  <2>3. LateInv'
    BY <1>0, <1>10 DEF Finish, LateInv, CredentialTypeOK, Waiting
  <2> QED BY <2>1, <2>2, <2>3 DEF CredentialInv
<1>11. CASE UNCHANGED credentialVars
  BY <1>0, <1>11, LatestKept, LateKept DEF CredentialInv, CredentialTypeOK, credentialVars
<1> QED
  BY <1>1, <1>2, <1>3, <1>4, <1>5, <1>6, <1>7, <1>8, <1>9, <1>10, <1>11
  DEF CredentialNext, Operator, Gateway

\* The inductive invariant holds in every reachable state.
THEOREM CredentialInvariant == CredentialSpec => []CredentialInv
BY InitCredential, StepCredential, PTL DEF CredentialSpec

\* CredentialTypeOK: the rows and the handlers keep their types.
THEOREM CredentialTypes == CredentialSpec => []CredentialTypeOK
<1>1. CredentialInv => CredentialTypeOK
    BY DEF CredentialInv
<1> QED BY <1>1, CredentialInvariant, PTL

\* At most one active token for each thread.
LEMMA BoundOfInv == CredentialInv => ActiveBound
<1> SUFFICES ASSUME CredentialInv PROVE ActiveBound
    OBVIOUS
<1> USE CredentialAssumption
<1> DEFINE Latest == {latest[o] : o \in Operators}
<1>1. IsFiniteSet(Latest) /\ Cardinality(Latest) =< Cardinality(Operators)
  <2>1. latest \in [Operators -> Latest]
    BY DEF CredentialInv, CredentialTypeOK
  <2>2. latest \in Surjection(Operators, Latest)
    BY <2>1 DEF Surjection
  <2> HIDE DEF Latest
  <2> QED BY <2>2, FS_Surjection
<1>2. Active \subseteq Latest
    BY DEF CredentialInv, LatestInv
<1>3. IsFiniteSet(Active) /\ Cardinality(Active) =< Cardinality(Latest)
    BY <1>1, <1>2, FS_Subset
<1>4. Cardinality(Active) \in Nat /\ Cardinality(Latest) \in Nat /\ Cardinality(Operators) \in Nat
    BY <1>1, <1>3, FS_CardinalityType
<1> QED BY <1>1, <1>3, <1>4 DEF ActiveBound

\* ActiveBound: an agent never has more active tokens than there are threads
\* serving operators, however rotations and revocations overlap.
THEOREM TokensAreBounded == CredentialSpec => []ActiveBound
BY CredentialInvariant, BoundOfInv, PTL

\* RevokedStaysOut: a call that comes when the agent is revoked is not let in.
THEOREM RevocationIsFinal == CredentialSpec => []RevokedStaysOut
<1>1. CredentialInv => RevokedStaysOut
    BY DEF CredentialInv, LateInv, RevokedStaysOut
<1> QED BY <1>1, CredentialInvariant, PTL
-----------------------------------------------------------------------------
(***************************************************************************)
(* The gateway.                                                            *)
(***************************************************************************)

USE GatewayAssumption

Heard == {"RAN", "ALLOW", "APPROVAL", "BLOCK", "DENIED", "FORBIDDEN", "ERROR"}

\* What a step of thread g is to the program: it goes on, ends with an answer, or runs
\* the tool.
GoesTo(g, pc) ==
    /\ \E named \in BOOLEAN :
           thread' = [thread EXCEPT ![g] = [thread[g] EXCEPT !.pc = pc, !.approval = named]]
    /\ UNCHANGED client

Continues(g) == (\E pc \in {"decide", "dispatch"} : GoesTo(g, pc)) /\ UNCHANGED runs

\* Thread g answers, and an answer that names an approval is one of three.
MayName == {"RAN", "APPROVAL", "BLOCK"}

Replies(g, answer) ==
    \E named \in BOOLEAN : (named => answer \in MayName) /\ Reply(g, answer, named)

Ends(g, answer) == Replies(g, answer) /\ UNCHANGED runs

Runs(g, answer) ==
    /\ thread[g].pc = "dispatch" /\ Replies(g, answer)
    /\ runs' = [runs EXCEPT ![thread[g].req] = @ + 1]

ThreadRow == [pc : {"rest", "arrived", "decide", "dispatch"}, req : Requests \union {None},
              content : Contents \union {None}, approval : BOOLEAN]

ClientRow == [waits : Threads \union {None}, answer : Heard \union {"none"}, approval : BOOLEAN]

LEMMA RowTypes ==
  ASSUME GatewayTypeOK
  PROVE  thread \in [Threads -> ThreadRow] /\ client \in ClientRow
<1>1. Heard \union {"none"} = {"none", "RAN", "ALLOW", "APPROVAL", "BLOCK", "DENIED", "FORBIDDEN", "ERROR"}
  BY DEF Heard
<1> QED BY <1>1 DEF GatewayTypeOK, ThreadRow, ClientRow

\* An answer without an approval is an answer.
LEMMA Unnamed ==
  ASSUME NEW g, NEW answer, Answer(g, answer)
  PROVE  Replies(g, answer)
BY DEF Answer, Replies

\* Each handler goes on or replies.
LEMMA Handlers ==
  ASSUME GatewayTypeOK, ThreadInv, NEW g \in Threads
  PROVE  /\ Refuse(g) \/ Mismatch(g) \/ DispatchFails(g) => Replies(g, "DENIED") /\ UNCHANGED runs
         /\ Drop(g) => Replies(g, "ERROR") /\ UNCHANGED runs
         /\ Lookup(g) => GoesTo(g, "decide") /\ UNCHANGED runs
         /\ \A decision \in {"ALLOW", "APPROVAL", "BLOCK", "FORBIDDEN"} :
              Decide(g, decision) =>
                /\ IF decision = "ALLOW" THEN GoesTo(g, "dispatch") ELSE Replies(g, decision)
                /\ UNCHANGED runs
         /\ Resubmit(g) =>
              /\ IF Redeemable(thread[g].req) THEN GoesTo(g, "dispatch")
                 ELSE Replies(g, request[thread[g].req].event)
              /\ UNCHANGED runs
         /\ Withdraw(g) => Replies(g, "BLOCK") /\ UNCHANGED runs
         /\ Run(g) => Replies(g, "RAN") \/ (Replies(g, "DENIED") /\ trouble' = TRUE)
<1>1. thread[g] \in ThreadRow /\ thread[g].approval \in BOOLEAN
  BY RowTypes DEF ThreadRow
<1>2. ASSUME NEW pc \in {"decide", "dispatch"}, Goto(g, pc) PROVE GoesTo(g, pc)
  <2>1. [thread[g] EXCEPT !.pc = pc] = [thread[g] EXCEPT !.pc = pc, !.approval = thread[g].approval]
    BY <1>1 DEF ThreadRow
  <2>2. thread' = [thread EXCEPT ![g] = [thread[g] EXCEPT !.pc = pc]] /\ UNCHANGED client
    BY <1>2 DEF Goto
  <2> QED BY <1>1, <2>1, <2>2 DEF GoesTo
<1>3. /\ Refuse(g) \/ Mismatch(g) \/ DispatchFails(g) => Replies(g, "DENIED") /\ UNCHANGED runs
      /\ Drop(g) => Replies(g, "ERROR") /\ UNCHANGED runs
  BY Unnamed DEF Refuse, Mismatch, DispatchFails, Drop
<1>4. Lookup(g) => GoesTo(g, "decide") /\ UNCHANGED runs
  BY <1>2 DEF Lookup
<1>5. ASSUME NEW decision \in {"ALLOW", "APPROVAL", "BLOCK", "FORBIDDEN"}, Decide(g, decision)
      PROVE  /\ IF decision = "ALLOW" THEN GoesTo(g, "dispatch") ELSE Replies(g, decision)
             /\ UNCHANGED runs
  <2>1. CASE decision = "ALLOW"
    BY <1>2, <1>5, <2>1 DEF Decide
  <2>2. CASE decision # "ALLOW"
    <3>1. Reply(g, decision, decision = "APPROVAL") /\ UNCHANGED runs
      BY <1>5, <2>2 DEF Decide
    <3>2. CASE decision = "APPROVAL"
      <4>1. Reply(g, decision, TRUE)
        BY <3>1, <3>2 DEF Reply
      <4> QED BY <2>2, <3>1, <3>2, <4>1 DEF Replies, MayName
    <3>3. CASE decision # "APPROVAL"
      <4>1. Reply(g, decision, FALSE)
        BY <3>1, <3>3 DEF Reply
      <4> QED BY <2>2, <3>1, <4>1 DEF Replies
    <3> QED BY <3>2, <3>3
  <2> QED BY <2>1, <2>2
<1>6. ASSUME Resubmit(g)
      PROVE  /\ IF Redeemable(thread[g].req) THEN GoesTo(g, "dispatch")
                ELSE Replies(g, request[thread[g].req].event)
             /\ UNCHANGED runs
  <2>1. CASE Redeemable(thread[g].req)
    <3>1. thread' = [thread EXCEPT ![g].pc = "dispatch", ![g].approval = TRUE]
          /\ UNCHANGED <<client, runs>>
      BY <1>6, <2>1 DEF Resubmit
    <3>2. thread' = [thread EXCEPT ![g] = [thread[g] EXCEPT !.pc = "dispatch", !.approval = TRUE]]
      BY <3>1, RowTypes DEF ThreadRow
    <3> QED BY <2>1, <3>1, <3>2 DEF GoesTo
  <2>2. CASE ~Redeemable(thread[g].req)
    <3> DEFINE event == request[thread[g].req].event
    <3>1. thread[g].req \in Requests
      BY <1>6 DEF Resubmit, ThreadInv
    <3>2. event \in {"ALLOW", "APPROVAL", "BLOCK"}
      BY <1>6, <3>1 DEF Resubmit, GatewayTypeOK
    <3>3. PICK named \in NamesApproval(event) : Reply(g, event, named)
      BY <1>6, <2>2 DEF Resubmit
    <3>4. named \in BOOLEAN /\ (named => event \in MayName)
      BY <3>2, <3>3 DEF NamesApproval, MayName
    <3> HIDE DEF event
    <3>5. Replies(g, event)
      BY <3>3, <3>4 DEF Replies
    <3> QED BY <1>6, <2>2, <3>5 DEF Resubmit, event
  <2> QED BY <2>1, <2>2
<1>7. Withdraw(g) => Replies(g, "BLOCK") /\ UNCHANGED runs
  BY <1>1 DEF Withdraw, Replies, MayName
<1>8. Run(g) => Replies(g, "RAN") \/ (Replies(g, "DENIED") /\ trouble' = TRUE)
  BY <1>1, Unnamed DEF Run, Replies, MayName
<1> QED BY <1>3, <1>4, <1>5, <1>6, <1>7, <1>8

LEMMA ServeCases ==
  ASSUME GatewayTypeOK, ThreadInv, NEW g \in Threads, Serve(g)
  PROVE  /\ thread[g].pc # "rest" /\ thread[g].req \in Requests /\ thread[g].content \in Contents
         /\ \/ Continues(g)
            \/ \E answer \in Heard \ {"RAN"} : Ends(g, answer)
            \/ \E answer \in {"RAN", "DENIED"} : Runs(g, answer)
<1>1. thread[g].pc # "rest"
  BY DEF Serve, Refuse, Lookup, Decide, Mismatch, Resubmit, Withdraw, Run, DispatchFails, Drop
<1>2. thread[g].req \in Requests /\ thread[g].content \in Contents
  BY <1>1 DEF ThreadInv
<1> SUFFICES \/ Continues(g)
             \/ \E answer \in Heard \ {"RAN"} : Ends(g, answer)
             \/ \E answer \in {"RAN", "DENIED"} : Runs(g, answer)
  BY <1>1, <1>2
<1>3. CASE \/ Refuse(g) \/ Mismatch(g) \/ DispatchFails(g) \/ Drop(g) \/ Withdraw(g)
  <2>1. Ends(g, "DENIED") \/ Ends(g, "ERROR") \/ Ends(g, "BLOCK")
    BY <1>3, Handlers DEF Ends
  <2> QED BY <2>1 DEF Heard
<1>4. CASE Lookup(g)
  BY <1>4, Handlers DEF Continues
<1>5. CASE \E decision \in {"ALLOW", "APPROVAL", "BLOCK", "FORBIDDEN"} : Decide(g, decision)
  <2> PICK decision \in {"ALLOW", "APPROVAL", "BLOCK", "FORBIDDEN"} : Decide(g, decision)
    BY <1>5
  <2>1. CASE decision = "ALLOW"
    BY <2>1, Handlers DEF Continues
  <2>2. CASE decision # "ALLOW"
    <3>1. Ends(g, decision)
      BY <2>2, Handlers DEF Ends
    <3> QED BY <3>1 DEF Heard
  <2> QED BY <2>1, <2>2
<1>6. CASE Resubmit(g)
  <2>1. CASE Redeemable(thread[g].req)
    BY <1>6, <2>1, Handlers DEF Continues
  <2>2. CASE ~Redeemable(thread[g].req)
    <3>1. request[thread[g].req].event \in Heard \ {"RAN"}
      BY <1>2, <1>6 DEF Resubmit, GatewayTypeOK, Heard
    <3>2. Ends(g, request[thread[g].req].event)
      BY <1>6, <2>2, Handlers DEF Ends
    <3> QED BY <3>1, <3>2
  <2> QED BY <2>1, <2>2
<1>7. CASE Run(g)
  <2>1. Replies(g, "RAN") \/ Replies(g, "DENIED")
    BY <1>7, Handlers
  <2> QED BY <1>7, <2>1 DEF Run, Runs
<1> QED BY <1>3, <1>4, <1>5, <1>6, <1>7 DEF Serve

\* A thread that goes on.
LEMMA ContinuesFacts ==
  ASSUME GatewayTypeOK, NEW g \in Threads, thread[g].pc # "rest",
         NEW pc \in {"decide", "dispatch"}, GoesTo(g, pc)
  PROVE  /\ \A h \in Threads : /\ thread'[h].req = thread[h].req /\ thread'[h].content = thread[h].content
                               /\ h # g => thread'[h] = thread[h]
                               /\ thread'[h].pc = "rest" <=> thread[h].pc = "rest"
         /\ thread' \in [Threads -> ThreadRow] /\ thread'[g].pc = pc /\ client' = client
<1>1. PICK named \in BOOLEAN :
        thread' = [thread EXCEPT ![g] = [thread[g] EXCEPT !.pc = pc, !.approval = named]]
  BY DEF GoesTo
<1>2. thread \in [Threads -> ThreadRow]
  BY RowTypes
<1>3. \A h \in Threads : h # g => thread'[h] = thread[h]
  BY <1>1, <1>2
<1>4. thread'[g] = [thread[g] EXCEPT !.pc = pc, !.approval = named]
  BY <1>1, <1>2
<1>5. /\ thread'[g].req = thread[g].req /\ thread'[g].content = thread[g].content
      /\ thread'[g].pc = pc /\ thread'[g] \in ThreadRow
  BY <1>2, <1>4 DEF ThreadRow
<1>6. thread' \in [Threads -> ThreadRow]
  BY <1>1, <1>2, <1>4, <1>5
<1> QED BY <1>3, <1>5, <1>6 DEF GoesTo

\* A thread that answers.
LEMMA AnswerFacts ==
  ASSUME GatewayTypeOK, NEW g \in Threads, NEW answer \in Heard, Replies(g, answer)
  PROVE  /\ thread'[g] = Resting
         /\ \A h \in Threads : h # g => thread'[h] = thread[h]
         /\ client.waits # g => client' = client
         /\ client.waits = g =>
              /\ client'.waits = None /\ client'.answer = answer
              /\ client'.approval => answer \in MayName
         /\ thread' \in [Threads -> ThreadRow] /\ client' \in ClientRow
<1>0. PICK named \in BOOLEAN : (named => answer \in MayName) /\ Reply(g, answer, named)
  BY DEF Replies
<1>1. thread' = [thread EXCEPT ![g] = Resting]
  BY <1>0 DEF Reply
<1>2. Resting \in ThreadRow
  BY DEF Resting, ThreadRow
<1>3. client \in ClientRow /\ thread \in [Threads -> ThreadRow]
  BY RowTypes
<1>4. thread' \in [Threads -> ThreadRow] /\ thread'[g] = Resting
      /\ \A h \in Threads : h # g => thread'[h] = thread[h]
  BY <1>1, <1>2, <1>3
<1>5. CASE client.waits = g
  <2>1. client' = [waits |-> None, answer |-> answer, approval |-> named]
    BY <1>0, <1>5 DEF Reply
  <2>2. client' \in ClientRow
    BY <2>1 DEF ClientRow
  <2> QED BY <1>0, <1>4, <1>5, <2>1, <2>2
<1>6. CASE client.waits # g
  <2>1. client' = client
    BY <1>0, <1>6 DEF Reply
  <2> QED BY <1>3, <1>4, <1>6, <2>1
<1> QED BY <1>5, <1>6

RequestRow == [event : {"none", "ALLOW", "APPROVAL", "BLOCK"}, content : Contents \union {None},
               approval : {"none", "pending", "approved", "denied", "consumed", "lapsed"}]

\* A row of requests that is replaced by another.
LEMMA RowReplaced ==
  ASSUME request \in [Requests -> RequestRow], NEW r \in Requests, NEW row \in RequestRow,
         request' = [request EXCEPT ![r] = row]
  PROVE  /\ request' \in [Requests -> RequestRow] /\ request'[r] = row
         /\ \A q \in Requests : q # r => request'[q] = request[q]
OBVIOUS

\* What a thread does to the row of its request: nothing, or it records the first
\* decision, consumes an approval, or withdraws a decision.
LEMMA ServeRequest ==
  ASSUME GatewayTypeOK, ThreadInv, NEW g \in Threads, NEW r, r = thread[g].req, Serve(g)
  PROVE  \/ request' = request
         \/ \E row \in RequestRow :
              /\ request' = [request EXCEPT ![r] = row]
              /\ \/ /\ request[r].event = "none" /\ row.event \in DecisionOf[r]
                    /\ row.content = thread[g].content
                    /\ row.approval = IF row.event = "APPROVAL" THEN "pending" ELSE "none"
                 \/ /\ request[r].event # "none" /\ request[r].approval = "approved"
                    /\ row = [request[r] EXCEPT !.approval = "consumed"]
                 \/ /\ request[r].event = "ALLOW" /\ row = [request[r] EXCEPT !.event = "BLOCK"]
<1>1. r \in Requests /\ thread[g].content \in Contents
  BY ServeCases
<1>2. request \in [Requests -> RequestRow] /\ request[r] \in RequestRow
  BY <1>1 DEF GatewayTypeOK, RequestRow
<1>3. CASE \/ Refuse(g) \/ Lookup(g) \/ Mismatch(g) \/ Run(g) \/ DispatchFails(g) \/ Drop(g)
  BY <1>3 DEF Refuse, Lookup, Mismatch, Run, DispatchFails, Drop
<1>4. ASSUME NEW decision \in {"ALLOW", "APPROVAL", "BLOCK", "FORBIDDEN"}, Decide(g, decision),
             request' # request
      PROVE  \E row \in RequestRow :
              /\ request' = [request EXCEPT ![r] = row]
              /\ request[r].event = "none" /\ row.event \in DecisionOf[r]
              /\ row.content = thread[g].content
              /\ row.approval = IF row.event = "APPROVAL" THEN "pending" ELSE "none"
  <2> DEFINE row == [event |-> decision, content |-> thread[g].content,
                     approval |-> IF decision = "APPROVAL" THEN "pending" ELSE "none"]
  <2>1. /\ decision # "FORBIDDEN" /\ decision \in DecisionOf[r] /\ request[r].event = "none"
        /\ request' = [request EXCEPT ![r] = row]
    BY <1>4 DEF Decide
  <2>2. row \in RequestRow
    BY <1>1, <2>1 DEF RequestRow
  <2> QED BY <2>1, <2>2
<1>5. ASSUME Resubmit(g), request' # request
      PROVE  \E row \in RequestRow :
              /\ request' = [request EXCEPT ![r] = row]
              /\ request[r].event # "none" /\ request[r].approval = "approved"
              /\ row = [request[r] EXCEPT !.approval = "consumed"]
  <2>1. /\ request[r].event # "none" /\ request[r].approval = "approved"
        /\ request' = [request EXCEPT ![r].approval = "consumed"]
    BY <1>5 DEF Resubmit, Redeemable
  <2>2. [request[r] EXCEPT !.approval = "consumed"] \in RequestRow
    BY <1>2 DEF RequestRow
  <2> QED BY <2>1, <2>2
<1>6. ASSUME Withdraw(g), request' # request
      PROVE  \E row \in RequestRow :
              /\ request' = [request EXCEPT ![r] = row]
              /\ request[r].event = "ALLOW" /\ row = [request[r] EXCEPT !.event = "BLOCK"]
  <2> DEFINE row == [request[r] EXCEPT !.event = IF @ = "ALLOW" THEN "BLOCK" ELSE @]
  <2>1. request' = [request EXCEPT ![r] = row]
    BY <1>2, <1>6 DEF Withdraw
  <2>2. request[r].event = "ALLOW"
    <3>1. request[r].event # "ALLOW" => row = request[r]
      BY <1>2 DEF RequestRow
    <3> HIDE DEF row
    <3> QED BY <1>2, <1>6, <2>1, <3>1
  <2>3. row = [request[r] EXCEPT !.event = "BLOCK"] /\ row \in RequestRow
    BY <1>2, <2>2 DEF RequestRow
  <2> HIDE DEF row
  <2> QED BY <2>1, <2>2, <2>3
<1> QED BY <1>3, <1>4, <1>5, <1>6 DEF Serve

\* What operators and time do to a row.
LEMMA OutsideRequest ==
  ASSUME GatewayTypeOK, Outside
  PROVE  /\ \E r \in Requests : \E row \in RequestRow :
              /\ request' = [request EXCEPT ![r] = row] /\ request[r].approval \in {"pending", "approved"}
              /\ \E approval \in {"approved", "denied", "lapsed"} :
                   /\ row = [request[r] EXCEPT !.approval = approval]
                   /\ trouble' = (trouble \/ approval # "approved")
         /\ UNCHANGED <<runs, thread, client>>
<1>1. PICK r \in Requests : Lapse(r) \/ \E v \in {"approved", "denied"} : Review(r, v)
  BY DEF Outside
<1>2. PICK approval \in {"approved", "denied", "lapsed"} :
         /\ request' = [request EXCEPT ![r].approval = approval]
         /\ request[r].approval \in {"pending", "approved"}
         /\ trouble' = (trouble \/ approval # "approved")
         /\ UNCHANGED <<runs, thread, client>>
  <2>1. CASE Lapse(r)
    <3>1. trouble' = (trouble \/ "lapsed" # "approved")
      BY <2>1 DEF Lapse
    <3> QED BY <2>1, <3>1 DEF Lapse
  <2>2. CASE \E v \in {"approved", "denied"} : Review(r, v)
    <3> PICK v \in {"approved", "denied"} : Review(r, v)
      BY <2>2
    <3>1. trouble' = (trouble \/ v # "approved")
      BY DEF Review
    <3> QED BY <3>1 DEF Review
  <2> QED BY <1>1, <2>1, <2>2
<1>3. request[r] \in RequestRow /\ request \in [Requests -> RequestRow]
  BY DEF GatewayTypeOK, RequestRow
<1>4. [request[r] EXCEPT !.approval = approval] \in RequestRow
  BY <1>3 DEF RequestRow
<1>5. request' = [request EXCEPT ![r] = [request[r] EXCEPT !.approval = approval]]
  BY <1>2, <1>3
<1> QED BY <1>2, <1>4, <1>5

\* The gateway keeps its types, and a thread that is busy keeps its request.
LEMMA ServeTypes ==
  ASSUME GatewayTypeOK, ThreadInv, NEW g \in Threads, Serve(g)
  PROVE  GatewayTypeOK' /\ ThreadInv'
<1>1. thread[g].pc # "rest" /\ thread[g].req \in Requests
  BY ServeCases
<1>2. request' \in [Requests -> RequestRow]
  <2>1. request \in [Requests -> RequestRow]
    BY DEF GatewayTypeOK, RequestRow
  <2> QED BY <1>1, <2>1, ServeRequest, RowReplaced
<1>3. trouble' \in BOOLEAN
  BY DEF Serve, Refuse, Lookup, Decide, Mismatch, Resubmit, Withdraw, Run, DispatchFails, Drop,
         GatewayTypeOK
<1>4. CASE Continues(g)
  <2>1. thread' \in [Threads -> ThreadRow]
    BY <1>1, <1>4, ContinuesFacts DEF Continues
  <2>2. client' = client /\ runs' = runs
    BY <1>4 DEF Continues, GoesTo
  <2>3. GatewayTypeOK'
    BY <1>2, <1>3, <2>1, <2>2 DEF GatewayTypeOK, RequestRow, ThreadRow
  <2>4. ThreadInv'
    <3>1. client'.waits # None => client'.waits \in Threads
      BY <2>2 DEF GatewayTypeOK
    <3>2. \A h \in Threads : /\ thread'[h].req = thread[h].req /\ thread'[h].content = thread[h].content
                             /\ h # g => thread'[h] = thread[h]
                             /\ thread'[h].pc = "rest" <=> thread[h].pc = "rest"
      BY <1>1, <1>4, ContinuesFacts DEF Continues
    <3> QED BY <1>1, <2>2, <3>1, <3>2 DEF ThreadInv
  <2> QED BY <2>3, <2>4
<1>5. ASSUME NEW answer \in Heard, Replies(g, answer), runs' \in [Requests -> Nat]
      PROVE  GatewayTypeOK' /\ ThreadInv'
  <2>1. GatewayTypeOK'
    <3>1. thread' \in [Threads -> ThreadRow] /\ client' \in ClientRow
      BY <1>5, AnswerFacts
    <3>2. Heard \union {"none"} = {"none", "RAN", "ALLOW", "APPROVAL", "BLOCK", "DENIED",
                                   "FORBIDDEN", "ERROR"}
      BY DEF Heard
    <3> QED BY <1>2, <1>3, <1>5, <3>1, <3>2 DEF GatewayTypeOK, RequestRow, ThreadRow, ClientRow
  <2>2. /\ thread'[g] = Resting /\ Resting.pc = "rest"
        /\ \A h \in Threads : h # g => thread'[h] = thread[h]
        /\ client.waits # g => client' = client
        /\ client.waits = g => client'.waits = None
    BY <1>5, AnswerFacts DEF Resting
  <2>3. client'.waits # None => client.waits # g /\ client' = client /\ client.waits \in Threads
    BY <2>2 DEF GatewayTypeOK
  <2>4. ThreadInv'
    BY <2>2, <2>3 DEF ThreadInv
  <2> QED BY <2>1, <2>4
<1>6. CASE \E answer \in Heard \ {"RAN"} : Ends(g, answer)
  <2>1. runs' = runs
    BY <1>6 DEF Ends
  <2>2. runs' \in [Requests -> Nat]
    BY <2>1 DEF GatewayTypeOK
  <2> QED BY <1>5, <1>6, <2>2 DEF Ends
<1>7. CASE \E answer \in {"RAN", "DENIED"} : Runs(g, answer)
  <2> PICK answer \in {"RAN", "DENIED"} : Runs(g, answer)
    BY <1>7
  <2>1. runs' \in [Requests -> Nat]
    BY <1>1 DEF Runs, GatewayTypeOK
  <2>2. answer \in Heard
    BY DEF Heard
  <2> QED BY <1>5, <2>1, <2>2 DEF Runs
<1> QED BY <1>4, <1>6, <1>7, ServeCases

LEMMA LoseTypes ==
  ASSUME GatewayTypeOK, ThreadInv, LoseAnswer
  PROVE  GatewayTypeOK' /\ ThreadInv'
<1>1. /\ client' = [waits |-> None, answer |-> "ERROR", approval |-> FALSE]
      /\ trouble' = TRUE /\ UNCHANGED <<request, runs, thread>>
  BY DEF LoseAnswer, Quiet
<1>2. GatewayTypeOK'
  BY <1>1 DEF GatewayTypeOK
<1>3. ThreadInv'
  BY <1>1 DEF ThreadInv
<1> QED BY <1>2, <1>3

LEMMA OutsideTypes ==
  ASSUME GatewayTypeOK, ThreadInv, Outside
  PROVE  GatewayTypeOK' /\ ThreadInv'
<1>1. UNCHANGED <<runs, thread, client>> /\ trouble' \in BOOLEAN
  <2>1. trouble \in BOOLEAN
    BY DEF GatewayTypeOK
  <2> QED BY <2>1, OutsideRequest
<1>2. request' \in [Requests -> RequestRow]
  <2>1. request \in [Requests -> RequestRow]
    BY DEF GatewayTypeOK, RequestRow
  <2> QED BY <2>1, OutsideRequest, RowReplaced
<1>3. GatewayTypeOK'
  BY <1>1, <1>2 DEF GatewayTypeOK, RequestRow
<1>4. ThreadInv'
  BY <1>1 DEF ThreadInv
<1> QED BY <1>3, <1>4

\* What the program does to the gateway when it posts a request.
LEMMA PostFacts ==
  ASSUME GatewayTypeOK, ThreadInv, NEW r \in Requests, NEW content \in Contents, Post(r, content)
  PROVE  /\ GatewayTypeOK' /\ ThreadInv'
         /\ client'.answer = "none" /\ UNCHANGED <<request, runs, trouble>>
         /\ \E g \in Threads :
              /\ client'.waits = g /\ thread[g].pc = "rest"
              /\ thread'[g] = [pc |-> "arrived", req |-> r, content |-> content, approval |-> FALSE]
              /\ \A h \in Threads : h # g => thread'[h] = thread[h]
<1> DEFINE free == CHOOSE h \in Threads : thread[h].pc = "rest"
           row == [pc |-> "arrived", req |-> r, content |-> content, approval |-> FALSE]
<1>1. free \in Threads /\ thread[free].pc = "rest"
  BY DEF Post
<1>2. /\ thread' = [thread EXCEPT ![free] = row]
      /\ client' = [waits |-> free, answer |-> "none", approval |-> FALSE]
      /\ UNCHANGED <<request, runs, trouble>>
  BY DEF Post, Quiet
<1> HIDE DEF free
<1>3. row \in ThreadRow
  BY DEF ThreadRow
<1>4. /\ thread'[free] = row /\ row.pc = "arrived" /\ row.req = r /\ row.content = content
      /\ \A h \in Threads : h # free => thread'[h] = thread[h]
  BY <1>1, <1>2 DEF GatewayTypeOK
<1> HIDE DEF row
<1>5. GatewayTypeOK'
  BY <1>1, <1>2, <1>3 DEF GatewayTypeOK, ThreadRow
<1>6. ThreadInv'
  BY <1>1, <1>2, <1>4 DEF ThreadInv
<1> QED BY <1>1, <1>2, <1>4, <1>5, <1>6 DEF row

\* A step of the gateway lets no request run twice that one thread serves at a time.
LEMMA ServeOnce ==
  ASSUME GatewayTypeOK, ThreadInv, NEW g \in Threads, Serve(g), NEW r \in Requests, OnceInv(r)
  PROVE  /\ OnceInv(r)' /\ (Untouched(r) => Untouched(r)') /\ (runs[r] = 1 => runs'[r] = 1)
         /\ \A h \in Threads : Serves(h, r)' => Serves(h, r)
<1>1. thread[g].pc # "rest" /\ thread[g].req \in Requests /\ runs \in [Requests -> Nat]
  BY ServeCases DEF GatewayTypeOK
<1>2. CASE Continues(g)
  <2>1. \A h \in Threads : Serves(h, r)' <=> Serves(h, r)
    BY <1>1, <1>2, ContinuesFacts DEF Continues, Serves
  <2>2. runs' = runs
    BY <1>2 DEF Continues, GoesTo
  <2> QED BY <2>1, <2>2 DEF OnceInv, Untouched
<1>3. ASSUME NEW answer \in Heard, Replies(g, answer)
      PROVE  \A h \in Threads : Serves(h, r)' <=> Serves(h, r) /\ h # g
  BY <1>3, AnswerFacts DEF Serves, Resting
<1>4. CASE \E answer \in Heard \ {"RAN"} : Ends(g, answer)
  <2>1. runs' = runs /\ \A h \in Threads : Serves(h, r)' <=> Serves(h, r) /\ h # g
    BY <1>3, <1>4 DEF Ends
  <2> QED BY <2>1 DEF OnceInv, Untouched
<1>5. CASE \E answer \in {"RAN", "DENIED"} : Runs(g, answer)
  <2>1. \A h \in Threads : Serves(h, r)' <=> Serves(h, r) /\ h # g
    BY <1>3, <1>5 DEF Runs, Heard
  <2>2. runs' = [runs EXCEPT ![thread[g].req] = @ + 1]
    BY <1>5 DEF Runs
  <2>3. CASE thread[g].req = r
    <3>1. Serves(g, r)
      BY <1>1, <2>3 DEF Serves
    <3>2. runs[r] = 0 /\ runs'[r] = 1
      BY <1>1, <2>2, <2>3, <3>1 DEF OnceInv
    <3>3. \A h \in Threads : ~Serves(h, r)'
      BY <2>1, <3>1 DEF OnceInv
    <3> QED BY <2>1, <3>1, <3>2, <3>3 DEF OnceInv, Untouched
  <2>4. CASE thread[g].req # r
    <3>1. runs'[r] = runs[r]
      BY <1>1, <2>2, <2>4
    <3> QED BY <2>1, <3>1 DEF OnceInv, Untouched
  <2> QED BY <2>3, <2>4
<1> QED BY <1>2, <1>4, <1>5, ServeCases

\* What the program hears is true when it is said.
LEMMA ServeClient ==
  ASSUME GatewayTypeOK, ThreadInv, NEW g \in Threads, NEW r, r = thread[g].req, Serve(g),
         OnceInv(r)
  PROVE  \/ /\ client' = client
            /\ client.waits # None => \A q : Serves(client.waits, q) => Serves(client.waits, q)'
         \/ /\ client.waits = g /\ client'.waits = None /\ client'.answer \in Heard
            /\ client'.answer = "RAN" => runs'[r] = 1
            /\ client'.answer \in {"APPROVAL", "BLOCK"} => Untouched(r)'
            /\ client'.approval => client'.answer \in MayName
<1>1. thread[g].pc # "rest" /\ r \in Requests /\ runs \in [Requests -> Nat]
  BY ServeCases DEF GatewayTypeOK
<1>2. client.waits \in Threads \union {None}
  BY DEF GatewayTypeOK
<1>3. CASE Continues(g)
  <2>1. client' = client
    BY <1>3 DEF Continues, GoesTo
  <2>2. \A h \in Threads : /\ thread'[h].req = thread[h].req
                           /\ thread'[h].pc = "rest" <=> thread[h].pc = "rest"
    BY <1>1, <1>3, ContinuesFacts DEF Continues
  <2>3. ASSUME client.waits # None, NEW q, Serves(client.waits, q) PROVE Serves(client.waits, q)'
    <3>1. client'.waits \in Threads /\ client'.waits = client.waits
      BY <1>2, <2>1, <2>3
    <3> QED BY <2>2, <2>3, <3>1 DEF Serves
  <2> QED BY <2>1, <2>3
<1>4. ASSUME NEW answer \in Heard, Replies(g, answer), client.waits # g
      PROVE  /\ client' = client
             /\ client.waits # None => \A q : Serves(client.waits, q) => Serves(client.waits, q)'
  <2>1. client' = client /\ \A h \in Threads : h # g => thread'[h] = thread[h]
    BY <1>4, AnswerFacts
  <2>2. ASSUME client.waits # None, NEW q, Serves(client.waits, q) PROVE Serves(client.waits, q)'
    <3>1. client'.waits \in Threads /\ client'.waits = client.waits /\ client.waits # g
      BY <1>2, <1>4, <2>1, <2>2
    <3> QED BY <2>1, <2>2, <3>1 DEF Serves
  <2> QED BY <2>1, <2>2
<1>5. ASSUME NEW answer \in Heard, Replies(g, answer), client.waits = g
      PROVE  /\ client'.waits = None /\ client'.answer = answer
             /\ client'.approval => answer \in MayName
             /\ \A h \in Threads : Serves(h, r)' <=> Serves(h, r) /\ h # g
  BY <1>5, AnswerFacts DEF Serves, Resting
<1>6. Serves(g, r) /\ OnceInv(r)
  BY <1>1 DEF Serves
<1>7. CASE \E answer \in Heard \ {"RAN"} : Ends(g, answer)
  <2> PICK answer \in Heard \ {"RAN"} : Ends(g, answer)
    BY <1>7
  <2>1. Replies(g, answer) /\ runs' = runs
    BY DEF Ends
  <2>2. CASE client.waits = g
    <3>1. \A h \in Threads : ~Serves(h, r)'
      <4>1. \A h \in Threads : Serves(h, r)' <=> Serves(h, r) /\ h # g
        BY <1>5, <2>1, <2>2
      <4> QED BY <1>6, <4>1 DEF OnceInv
    <3>2. runs'[r] = 0
      BY <1>6, <2>1 DEF OnceInv
    <3> QED BY <1>5, <2>1, <2>2, <3>1, <3>2 DEF Untouched
  <2>3. CASE client.waits # g
    BY <1>4, <2>1, <2>3
  <2> QED BY <2>2, <2>3
<1>8. CASE \E answer \in {"RAN", "DENIED"} : Runs(g, answer)
  <2> PICK answer \in {"RAN", "DENIED"} : Runs(g, answer)
    BY <1>8
  <2>1. Replies(g, answer) /\ answer \in Heard /\ runs' = [runs EXCEPT ![r] = @ + 1]
    BY DEF Runs, Heard
  <2>2. CASE client.waits = g
    <3>1. runs'[r] = 1
      BY <1>1, <1>6, <2>1 DEF OnceInv
    <3> QED BY <1>5, <2>1, <2>2, <3>1
  <2>3. CASE client.waits # g
    BY <1>4, <2>1, <2>3
  <2> QED BY <2>2, <2>3
<1> QED BY <1>3, <1>7, <1>8, ServeCases

-----------------------------------------------------------------------------
(***************************************************************************)
(* The email agent.                                                        *)
(***************************************************************************)

InProgress == {"call", "sent", "wait", "polled"}

LEMMA LoopBounds ==
  MaxTurns \in Nat \ {0} /\ MaxRetries \in Nat /\ Patience \in Nat /\ Payload \in Contents
BY LoopAssumption

LEMMA IndexType ==
  /\ Index \subseteq Nat \ {0}
  /\ \A i \in 1..MaxTurns : /\ RequestOf[i] \in Seq(Requests) /\ Len(RequestOf[i]) \in Nat
                            /\ DOMAIN RequestOf[i] = 1..Len(RequestOf[i])
                            /\ DOMAIN RequestOf[i] \subseteq Index
                            /\ \A j \in DOMAIN RequestOf[i] : RequestOf[i][j] \in Requests
<1> USE LoopAssumption
<1>1. \A i \in 1..MaxTurns : RequestOf[i] \in Seq(Requests)
  OBVIOUS
<1>2. \A i \in 1..MaxTurns : /\ Len(RequestOf[i]) \in Nat
                            /\ DOMAIN RequestOf[i] = 1..Len(RequestOf[i])
  BY <1>1
<1>3. \A i \in 1..MaxTurns : \A j \in 1..Len(RequestOf[i]) : RequestOf[i][j] \in Requests
  BY <1>1, <1>2
<1> QED BY <1>1, <1>2, <1>3 DEF Index

\* The places within a turn, and 0 where the agent is at none.
Places == Index \union {0}

LoopRow == [pc : {"off", "model", "call", "sent", "wait", "polled", "done"},
            turn : 0..MaxTurns, tries : 0..MaxRetries,
            calls : Places, index : Places, left : 0..Patience]

LEMMA PlacesType ==
  /\ Places \subseteq Nat /\ 0 \in Places /\ \A i \in Index : i \in Places
  /\ \A i \in 1..MaxTurns : \A j \in DOMAIN RequestOf[i] : j \in Places
<1>1. Index \subseteq Nat
  BY IndexType
<1>2. 0 \in Nat
  OBVIOUS
<1> QED BY <1>1, <1>2, IndexType, Zenon DEF Places

LEMMA LoopTypes ==
  /\ LoopTypeOK <=> /\ loop \in LoopRow /\ told \in [Requests -> Heard \union {"none"}]
                    /\ noted \in SUBSET Requests
  /\ LoopTypeOK' <=> /\ loop' \in LoopRow /\ told' \in [Requests -> Heard \union {"none"}]
                     /\ noted' \in SUBSET Requests
<1>1. Heard \union {"none"} = {"none", "RAN", "ALLOW", "APPROVAL", "BLOCK", "DENIED", "FORBIDDEN", "ERROR"}
  BY DEF Heard
<1> QED BY <1>1, Zenon DEF LoopTypeOK, LoopRow, Places

LEMMA CurrentType ==
  ASSUME LoopTypeOK, PositionInv, loop.pc \in InProgress
  PROVE  /\ Current \in Requests /\ told[Current] = "none" /\ loop.turn \in 1..MaxTurns
         /\ loop.index \in DOMAIN RequestOf[loop.turn] /\ loop.index \in 1..loop.calls
         /\ loop.calls \in Nat /\ Len(RequestOf[loop.turn]) \in Nat
         /\ loop.calls =< Len(RequestOf[loop.turn])
<1>1. loop.turn \in 1..MaxTurns /\ loop.index \in 1..loop.calls
      /\ loop.calls =< Len(RequestOf[loop.turn]) /\ told[Current] = "none"
  BY DEF PositionInv, InProgress
<1>2. /\ RequestOf[loop.turn] \in Seq(Requests) /\ Len(RequestOf[loop.turn]) \in Nat
      /\ DOMAIN RequestOf[loop.turn] = 1..Len(RequestOf[loop.turn])
  BY <1>1, IndexType
<1>3. loop.calls \in Nat
  <2>1. loop.calls \in Places
    BY LoopTypes DEF LoopRow
  <2> QED BY <2>1, PlacesType
<1>4. loop.index \in DOMAIN RequestOf[loop.turn]
  BY <1>1, <1>2, <1>3
<1> QED BY <1>1, <1>2, <1>3, <1>4 DEF Current

\* Gateway, operators and time keep what the agent was told true.
LEMMA LoopGateway ==
  ASSUME GatewayTypeOK, LoopTypeOK, ThreadInv, LoopInv, loop' = loop, told' = told, noted' = noted,
         \/ \E g \in Threads : Serve(g)
         \/ LoseAnswer
         \/ UNCHANGED <<runs, thread, client>>
  PROVE  LoopInv'
<1>0. PositionInv /\ AnswerInv /\ \A r \in Requests : OnceInv(r) /\ ToldInv(r)
  BY DEF LoopInv
<1>1. PositionInv' /\ Current' = Current
  BY <1>0 DEF PositionInv, Current
<1>2. loop.pc \in {"sent", "polled", "call", "wait"} => Current \in Requests
  BY <1>0, CurrentType DEF InProgress
<1>3. ASSUME NEW r \in Requests
      PROVE  OnceInv(r)' /\ (Untouched(r) => Untouched(r)') /\ (runs[r] = 1 => runs'[r] = 1)
  <2>1. CASE \E g \in Threads : Serve(g)
    BY <1>0, <2>1, ServeOnce
  <2>2. CASE LoseAnswer \/ UNCHANGED <<runs, thread, client>>
    <3>1. runs' = runs /\ thread' = thread
      BY <2>2 DEF LoseAnswer
    <3> QED BY <1>0, <3>1 DEF OnceInv, Untouched, Serves
  <2> QED BY <2>1, <2>2
<1>4. ASSUME NEW r \in Requests PROVE ToldInv(r)'
  <2>1. InCourse(r)' <=> InCourse(r)
    BY <1>1 DEF InCourse
  <2> QED BY <1>0, <1>3, <2>1 DEF ToldInv
<1>5. AnswerInv'
  <2>1. loop.pc \in {"call", "wait"} => Untouched(Current)'
    <3>1. \A r \in Requests : r = Current /\ Untouched(r) => Untouched(Current)'
      BY <1>1, <1>3 DEF Untouched
    <3> QED BY <1>0, <1>2, <3>1 DEF AnswerInv
  <2>2. CASE UNCHANGED <<runs, thread, client>>
    BY <1>0, <1>1, <2>2 DEF AnswerInv, Serves, Untouched
  <2>3. CASE LoseAnswer
    <3>1. /\ client'.waits = None /\ client'.answer = "ERROR" /\ ~client'.approval
          /\ client.waits # None /\ Quiet.waits = None
      BY <2>3 DEF LoseAnswer, Quiet
    <3> QED BY <1>0, <2>1, <3>1 DEF AnswerInv
  <2>4. ASSUME NEW g \in Threads, NEW r, r = thread[g].req, Serve(g) PROVE AnswerInv'
    <3>1. r \in Requests /\ OnceInv(r)
      BY <1>0, <2>4, ServeCases
    <3>2. CASE /\ client' = client
               /\ client.waits # None => \A q : Serves(client.waits, q) => Serves(client.waits, q)'
      <4>1. CASE loop.pc \notin {"sent", "polled"}
        BY <1>0, <2>1, <3>2, <4>1 DEF AnswerInv
      <4>2. CASE loop.pc \in {"sent", "polled"} /\ client.waits # None
        <5>1. Serves(client.waits, Current)
          BY <1>0, <4>2 DEF AnswerInv
        <5>2. Serves(client.waits, Current)'
          <6>1. ASSUME NEW q, q = Current PROVE Serves(client.waits, Current)'
            <7>1. Serves(client.waits, q)'
              BY <3>2, <4>2, <5>1, <6>1
            <7> QED BY <1>1, <6>1, <7>1
          <6> QED BY <6>1
        <5> QED BY <3>2, <4>2, <5>2 DEF AnswerInv
      <4>3. CASE loop.pc \in {"sent", "polled"} /\ client.waits = None
        <5> SUFFICES ASSUME NEW q, q = Current PROVE AnswerInv'
          OBVIOUS
        <5>1. /\ q \in Requests /\ client.answer # "none"
              /\ client.answer = "RAN" => runs[q] = 1
              /\ client.answer \in {"APPROVAL", "BLOCK"} => Untouched(q)
              /\ client.approval => client.answer \in {"RAN", "APPROVAL", "BLOCK"}
          BY <1>0, <1>2, <4>3 DEF AnswerInv
        <5>2. /\ client'.approval => client'.answer \in {"RAN", "APPROVAL", "BLOCK"}
              /\ client'.answer = "RAN" => runs'[q] = 1
              /\ client'.answer \in {"APPROVAL", "BLOCK"} => Untouched(q)'
          BY <1>3, <3>2, <5>1
        <5> QED BY <1>1, <3>2, <4>3, <5>1, <5>2 DEF AnswerInv, Untouched, Serves
      <4> QED BY <4>1, <4>2, <4>3
    <3>3. CASE /\ client.waits = g /\ client'.waits = None /\ client'.answer \in Heard
               /\ client'.answer = "RAN" => runs'[r] = 1
               /\ client'.answer \in {"APPROVAL", "BLOCK"} => Untouched(r)'
               /\ client'.approval => client'.answer \in MayName
      <4>1. loop.pc \in {"sent", "polled"} /\ Serves(g, Current)
        <5>1. client.waits # None
          BY <2>4, <3>3, GatewayAssumption
        <5> QED BY <1>0, <3>3, <5>1 DEF AnswerInv, Quiet
      <4>2. r = Current'
        BY <1>1, <2>4, <4>1 DEF Serves
      <4>3. client'.answer # "none"
        BY <3>3 DEF Heard
      <4> QED BY <3>3, <4>1, <4>2, <4>3 DEF AnswerInv, MayName, Untouched, Serves
    <3> QED BY <2>4, <3>1, <3>2, <3>3, ServeClient
  <2> QED BY <2>2, <2>3, <2>4
<1> QED BY <1>1, <1>3, <1>4, <1>5 DEF LoopInv

\* The agent tells what it heard of its call and goes on to the next.
LEMMA TellKeeps ==
  ASSUME GatewayTypeOK, LoopTypeOK, LoopInv, loop.pc \in InProgress,
         NEW answer \in Heard, NEW named \in BOOLEAN, Tell(answer, named),
         runs' = runs, thread' = thread, client' = Quiet,
         named => answer \in MayName,
         answer = "RAN" => runs[Current] = 1,
         answer \in {"APPROVAL", "BLOCK"} => Untouched(Current)
  PROVE  LoopTypeOK' /\ LoopInv'
<1> DEFINE c == Current
<1>0. PositionInv /\ AnswerInv /\ \A r \in Requests : OnceInv(r) /\ ToldInv(r)
  BY DEF LoopInv
<1>1. /\ c \in Requests /\ told[c] = "none" /\ loop.turn \in 1..MaxTurns
      /\ loop.index \in DOMAIN RequestOf[loop.turn] /\ loop.index \in 1..loop.calls
      /\ loop.calls \in Nat /\ Len(RequestOf[loop.turn]) \in Nat
      /\ loop.calls =< Len(RequestOf[loop.turn]) /\ c = RequestOf[loop.turn][loop.index]
  BY <1>0, CurrentType DEF Current
<1>2. /\ told' = [told EXCEPT ![c] = answer] /\ loop' = Advanced
      /\ noted' = IF named THEN noted \union {c} ELSE noted
  BY DEF Tell, Noted
<1> HIDE DEF c
<1>3. /\ loop.pc \in InProgress /\ loop.turn \in Nat /\ loop.index \in Nat \ {0}
      /\ DOMAIN RequestOf[loop.turn] = 1..Len(RequestOf[loop.turn])
      /\ loop \in LoopRow /\ told \in [Requests -> Heard \union {"none"}]
      /\ noted \in SUBSET Requests
  BY <1>1, IndexType, LoopTypes
<1>4. /\ noted' \in SUBSET Requests /\ (c \in noted' => c \in noted \/ answer \in MayName)
      /\ \A r \in Requests : r # c => (r \in noted' <=> r \in noted)
      /\ told' \in [Requests -> Heard \union {"none"}] /\ told'[c] = answer /\ answer # "none"
      /\ \A r \in Requests : r # c => told'[r] = told[r]
  BY <1>1, <1>2, <1>3 DEF Heard
<1>5. \A i \in 1..MaxTurns : \A j \in DOMAIN RequestOf[i] :
        /\ RequestOf[i][j] \in Requests
        /\ RequestOf[i][j] = c => i = loop.turn /\ j = loop.index
  <2>1. \A i \in 1..MaxTurns : \A j \in DOMAIN RequestOf[i] : RequestOf[i][j] \in Requests
    BY IndexType
  <2> QED BY <1>1, <2>1, LoopAssumption
<1>6. \/ /\ loop.index + 1 =< loop.calls
         /\ loop' = [loop EXCEPT !.pc = "call", !.index = loop.index + 1, !.left = 0]
      \/ loop' = [loop EXCEPT !.pc = "done", !.left = 0]
      \/ /\ loop.turn + 1 =< MaxTurns
         /\ loop' = [loop EXCEPT !.pc = "model", !.turn = loop.turn + 1, !.calls = 0, !.index = 0, !.left = 0]
  <2>1. MaxTurns \in Nat
    BY LoopBounds
  <2>2. CASE loop.index < loop.calls
    BY <1>1, <1>2, <1>3, <2>2 DEF Advanced
  <2>3. CASE ~(loop.index < loop.calls) /\ loop.turn = MaxTurns
    BY <1>2, <2>3 DEF Advanced, LastTurn
  <2>4. CASE ~(loop.index < loop.calls) /\ loop.turn # MaxTurns
    <3>1. loop.turn + 1 =< MaxTurns
      BY <1>1, <1>3, <2>1, <2>4
    <3> QED BY <1>2, <2>4, <3>1 DEF Advanced, LastTurn
  <2> QED BY <2>2, <2>3, <2>4
<1>7. LoopTypeOK'
  <2>1. 0 \in 0..Patience
    BY LoopBounds
  <2>2. CASE /\ loop.index + 1 =< loop.calls
             /\ loop' = [loop EXCEPT !.pc = "call", !.index = loop.index + 1, !.left = 0]
    <3>1. loop.index + 1 \in DOMAIN RequestOf[loop.turn]
      BY <1>1, <1>3, <2>2
    <3>2. loop.index + 1 \in Places
      BY <1>1, <3>1, PlacesType
    <3>3. loop' \in LoopRow
      BY <1>3, <2>1, <2>2, <3>2 DEF LoopRow
    <3> QED BY <1>4, <3>3, LoopTypes
  <2>3. CASE loop' = [loop EXCEPT !.pc = "done", !.left = 0]
    <3>3. loop' \in LoopRow
      BY <1>3, <2>1, <2>3 DEF LoopRow
    <3> QED BY <1>4, <3>3, LoopTypes
  <2>4. CASE /\ loop.turn + 1 =< MaxTurns
             /\ loop' = [loop EXCEPT !.pc = "model", !.turn = loop.turn + 1, !.calls = 0,
                                     !.index = 0, !.left = 0]
    <3>1. loop.turn + 1 \in 0..MaxTurns
      BY <1>3, <2>4, LoopBounds
    <3>3. loop' \in LoopRow
      BY <1>3, <2>1, <2>4, <3>1, PlacesType DEF LoopRow
    <3> QED BY <1>4, <3>3, LoopTypes
  <2> QED BY <1>6, <2>2, <2>3, <2>4
<1>8. \A r \in Requests : OnceInv(r)' /\ (Untouched(r) => Untouched(r)')
  BY <1>0 DEF OnceInv, Untouched, Serves
<1>9. ASSUME NEW i \in 1..MaxTurns, NEW j \in DOMAIN RequestOf[i],
             loop.turn < i \/ (loop.turn = i /\ loop.index < j)
      PROVE  /\ RequestOf[i][j] \in Requests \ {c} /\ told'[RequestOf[i][j]] = "none"
             /\ Untouched(RequestOf[i][j])
  <2>1. RequestOf[i][j] \in Requests \ {c}
    BY <1>1, <1>3, <1>5, <1>9
  <2>2. told[RequestOf[i][j]] = "none"
    BY <1>0, <1>9 DEF PositionInv
  <2>3. ~InCourse(RequestOf[i][j])
    BY <2>1 DEF InCourse, c
  <2> QED BY <1>0, <1>4, <2>1, <2>2, <2>3 DEF ToldInv
<1>10. CASE /\ loop.index + 1 =< loop.calls
            /\ loop' = [loop EXCEPT !.pc = "call", !.index = loop.index + 1, !.left = 0]
  <2> DEFINE k == loop.index + 1
             n == RequestOf[loop.turn][k]
  <2>1. /\ loop'.pc = "call" /\ loop'.index = k /\ loop'.turn = loop.turn
        /\ loop'.calls = loop.calls
    BY <1>3, <1>10
  <2>2. k \in DOMAIN RequestOf[loop.turn] /\ k \in 1..loop.calls
    BY <1>1, <1>3, <1>10
  <2>3. n \in Requests \ {c} /\ told'[n] = "none" /\ Untouched(n)
    BY <1>1, <1>3, <1>9, <2>2
  <2>4. Current' = n
    BY <2>1 DEF Current
  <2>5. PositionInv'
    <3>1. ASSUME NEW i \in 1..MaxTurns, NEW j \in DOMAIN RequestOf[i],
                 loop'.turn < i \/ (loop'.turn = i /\ loop'.index < j)
          PROVE  told'[RequestOf[i][j]] = "none"
      <4>1. j \in Nat
        BY IndexType
      <4>2. loop.turn < i \/ (loop.turn = i /\ loop.index < j)
        BY <1>3, <2>1, <3>1, <4>1
      <4> QED BY <1>9, <4>2
    <3> QED BY <1>1, <2>1, <2>2, <2>3, <2>4, <3>1 DEF PositionInv
  <2>6. AnswerInv'
    <3>1. \A r \in Requests : r = n => Untouched(r)'
      BY <1>8, <2>3
    <3>2. Untouched(Current)'
      BY <2>3, <2>4, <3>1 DEF Untouched
    <3> QED BY <2>1, <3>2 DEF AnswerInv
  <2>7. ASSUME NEW r \in Requests PROVE ToldInv(r)'
    <3>1. CASE r = c
      BY <1>0, <1>1, <1>4, <1>8, <3>1 DEF ToldInv, MayName, c
    <3>2. CASE r # c
      <4>1. ~InCourse(r)
        BY <3>2 DEF InCourse, c
      <4> QED BY <1>0, <1>4, <1>8, <3>2, <4>1 DEF ToldInv
    <3> QED BY <3>1, <3>2
  <2> QED BY <1>7, <1>8, <2>5, <2>6, <2>7 DEF LoopInv
<1>11. CASE loop' = [loop EXCEPT !.pc = "done", !.left = 0]
  <2>1. loop'.pc = "done" /\ loop'.index = loop.index /\ loop'.turn = loop.turn
    BY <1>3, <1>11
  <2>2. PositionInv'
    BY <1>9, <2>1 DEF PositionInv
  <2>3. AnswerInv'
    BY <2>1 DEF AnswerInv
  <2>4. ASSUME NEW r \in Requests PROVE ToldInv(r)'
    <3>1. CASE r = c
      BY <1>0, <1>1, <1>4, <1>8, <3>1 DEF ToldInv, MayName, c
    <3>2. CASE r # c
      <4>1. ~InCourse(r)
        BY <3>2 DEF InCourse, c
      <4> QED BY <1>0, <1>4, <1>8, <3>2, <4>1 DEF ToldInv
    <3> QED BY <3>1, <3>2
  <2> QED BY <1>7, <1>8, <2>2, <2>3, <2>4 DEF LoopInv
<1>12. CASE /\ loop.turn + 1 =< MaxTurns
            /\ loop' = [loop EXCEPT !.pc = "model", !.turn = loop.turn + 1, !.calls = 0, !.index = 0, !.left = 0]
  <2>1. loop'.pc = "model" /\ loop'.index = 0 /\ loop'.turn = loop.turn + 1
    BY <1>3, <1>12
  <2>2. PositionInv'
    <3>1. ASSUME NEW i \in 1..MaxTurns, NEW j \in DOMAIN RequestOf[i],
                 loop'.turn < i \/ (loop'.turn = i /\ loop'.index < j)
          PROVE  told'[RequestOf[i][j]] = "none"
      <4>1. loop.turn < i
        BY <1>3, <2>1, <3>1
      <4> QED BY <1>9, <4>1
    <3>2. loop'.turn \in 1..MaxTurns
      BY <1>1, <1>12, <2>1
    <3> QED BY <2>1, <3>1, <3>2 DEF PositionInv
  <2>3. AnswerInv'
    BY <2>1 DEF AnswerInv
  <2>4. ASSUME NEW r \in Requests PROVE ToldInv(r)'
    <3>1. CASE r = c
      BY <1>0, <1>1, <1>4, <1>8, <3>1 DEF ToldInv, MayName, c
    <3>2. CASE r # c
      <4>1. ~InCourse(r)
        BY <3>2 DEF InCourse, c
      <4> QED BY <1>0, <1>4, <1>8, <3>2, <4>1 DEF ToldInv
    <3> QED BY <3>1, <3>2
  <2> QED BY <1>7, <1>8, <2>2, <2>3, <2>4 DEF LoopInv
<1> QED BY <1>6, <1>7, <1>10, <1>11, <1>12

\* The agent posts a request of which nothing has become so far.
LEMMA PostKeeps ==
  ASSUME GatewayTypeOK, ThreadInv, LoopTypeOK, LoopInv, loop.pc \in {"call", "wait"},
         Post(Current, Payload), told' = told, noted' = noted,
         NEW pc \in {"sent", "polled"}, NEW left \in 0..Patience,
         loop' = [loop EXCEPT !.pc = pc, !.left = left]
  PROVE  GatewayTypeOK' /\ ThreadInv' /\ LoopTypeOK' /\ LoopInv'
<1>0. PositionInv /\ AnswerInv /\ \A r \in Requests : OnceInv(r) /\ ToldInv(r)
  BY DEF LoopInv
<1>1. loop.pc \in InProgress /\ Current \in Requests /\ Payload \in Contents /\ Untouched(Current)
  BY <1>0, CurrentType, LoopBounds DEF InProgress, AnswerInv
<1>2. GatewayTypeOK' /\ ThreadInv' /\ runs' = runs
  BY <1>1, PostFacts
<1>3. loop \in LoopRow /\ told \in [Requests -> Heard \union {"none"}]
      /\ noted \in SUBSET Requests
  BY LoopTypes
<1>4. /\ loop' \in LoopRow /\ loop'.pc = pc /\ loop'.turn = loop.turn /\ loop'.index = loop.index
      /\ loop'.calls = loop.calls
  BY <1>3 DEF LoopRow
<1>5. LoopTypeOK' /\ Current' = Current
  BY <1>3, <1>4, LoopTypes DEF Current
<1>6. PICK g \in Threads :
        /\ client'.waits = g /\ thread[g].pc = "rest"
        /\ thread'[g] = [pc |-> "arrived", req |-> Current, content |-> Payload, approval |-> FALSE]
        /\ \A h \in Threads : h # g => thread'[h] = thread[h]
  BY <1>1, PostFacts
<1>7. \A h \in Threads, r \in Requests : Serves(h, r)' <=> Serves(h, r) \/ (h = g /\ r = Current)
  BY <1>6 DEF Serves
<1>8. PositionInv'
  BY <1>0, <1>1, <1>4, <1>5 DEF PositionInv, InProgress
<1>9. AnswerInv'
  <2>1. client'.waits # None /\ client'.waits = g
    BY <1>6
  <2>2. Serves(client.waits, Current)'
    BY <1>5, <1>6, <2>1 DEF Serves
  <2> QED BY <1>4, <2>1, <2>2 DEF AnswerInv
<1>10. ASSUME NEW r \in Requests PROVE OnceInv(r)' /\ ToldInv(r)'
  <2>1. InCourse(r)' <=> InCourse(r)
    BY <1>1, <1>4, <1>5 DEF InCourse, InProgress
  <2>2. CASE r = Current
    <3>1. runs'[r] = 0 /\ \A h \in Threads : Serves(h, r)' <=> h = g
      BY <1>1, <1>2, <1>7, <2>2 DEF Untouched
    <3>2. told'[r] = "none" /\ r \notin noted' /\ InCourse(r)'
      <4>1. told[r] = "none" /\ r \notin noted
        BY <1>0, <1>1, <2>2, CurrentType DEF ToldInv
      <4> QED BY <1>1, <2>1, <2>2, <4>1 DEF InCourse, InProgress
    <3> QED BY <3>1, <3>2 DEF OnceInv, ToldInv
  <2>3. CASE r # Current
    <3>1. runs'[r] = runs[r] /\ \A h \in Threads : Serves(h, r)' <=> Serves(h, r)
      BY <1>2, <1>7, <2>3
    <3>2. Untouched(r)' <=> Untouched(r)
      BY <3>1 DEF Untouched
    <3> QED BY <1>0, <2>1, <3>1, <3>2 DEF OnceInv, ToldInv
  <2> QED BY <2>2, <2>3
<1> QED BY <1>2, <1>5, <1>8, <1>9, <1>10 DEF LoopInv

\* A step that changes nothing outside the agent.
LEMMA GatewayKept ==
  ASSUME GatewayTypeOK, ThreadInv, UNCHANGED gatewayVars PROVE GatewayTypeOK' /\ ThreadInv'
BY DEF GatewayTypeOK, ThreadInv, gatewayVars

\* Every step of the agent keeps what it was told true.
LEMMA LoopStepKeeps ==
  ASSUME GatewayTypeOK, ThreadInv, LoopTypeOK, LoopInv, LoopStep
  PROVE  GatewayTypeOK' /\ ThreadInv' /\ LoopTypeOK' /\ LoopInv' /\ loop'.pc # "off"
<1>0. PositionInv /\ AnswerInv /\ \A r \in Requests : OnceInv(r) /\ ToldInv(r)
  BY DEF LoopInv
<1>1. loop \in LoopRow /\ told \in [Requests -> Heard \union {"none"}]
      /\ noted \in SUBSET Requests
  BY LoopTypes
<1>2. ASSUME NEW answer \in Heard, NEW named \in BOOLEAN, loop.pc \in InProgress, Tell(answer, named)
      PROVE  loop'.pc # "off"
  <2>1. loop' = Advanced
    BY <1>2 DEF Tell
  <2> QED BY <1>1, <2>1 DEF Advanced, LoopRow
<1>3. ASSUME ModelFails \/ ModelEnds
      PROVE  GatewayTypeOK' /\ ThreadInv' /\ LoopTypeOK' /\ LoopInv' /\ loop'.pc # "off"
  <2>1. UNCHANGED gatewayVars /\ told' = told /\ noted' = noted /\ loop.pc = "model"
    BY <1>3 DEF ModelFails, ModelEnds
  <2>2. /\ loop' \in LoopRow /\ loop'.pc \in {"model", "done"}
        /\ loop'.turn = loop.turn /\ loop'.index = loop.index
    <3>1. CASE loop.tries < MaxRetries /\ loop' = [loop EXCEPT !.tries = loop.tries + 1]
      <4>1. loop.tries + 1 \in 0..MaxRetries
        BY <1>1, <3>1, LoopBounds DEF LoopRow
      <4> QED BY <1>1, <2>1, <3>1, <4>1 DEF LoopRow
    <3>2. CASE loop' = [loop EXCEPT !.pc = "done"]
      BY <1>1, <3>2 DEF LoopRow
    <3> QED BY <1>3, <3>1, <3>2 DEF ModelFails, ModelEnds
  <2>3. PositionInv'
    BY <1>0, <2>1, <2>2 DEF PositionInv
  <2>4. AnswerInv'
    BY <1>0, <2>1, <2>2 DEF AnswerInv, gatewayVars
  <2>5. ASSUME NEW r \in Requests PROVE OnceInv(r)' /\ ToldInv(r)'
    <3>1. ~InCourse(r) /\ ~InCourse(r)'
      BY <2>1, <2>2 DEF InCourse
    <3> QED BY <1>0, <2>1, <3>1 DEF OnceInv, ToldInv, Untouched, Serves, gatewayVars
  <2>6. LoopTypeOK'
    BY <1>1, <2>1, <2>2, LoopTypes
  <2> QED BY <2>1, <2>2, <2>3, <2>4, <2>5, <2>6, GatewayKept DEF LoopInv
<1>4. ASSUME UnknownTool
      PROVE  GatewayTypeOK' /\ ThreadInv' /\ LoopTypeOK' /\ LoopInv' /\ loop'.pc # "off"
  <2>1. loop.pc \in InProgress /\ Tell("DENIED", FALSE) /\ UNCHANGED gatewayVars /\ "DENIED" \in Heard
    BY <1>4 DEF UnknownTool, InProgress, Heard
  <2>2. client' = Quiet /\ runs' = runs /\ thread' = thread
    BY <1>0, <1>4, <2>1 DEF AnswerInv, gatewayVars, UnknownTool
  <2>3. LoopTypeOK' /\ LoopInv'
    BY <2>1, <2>2, TellKeeps
  <2> QED BY <1>2, <2>1, <2>3, GatewayKept
<1>5. ASSUME StopWaiting
      PROVE  GatewayTypeOK' /\ ThreadInv' /\ LoopTypeOK' /\ LoopInv' /\ loop'.pc # "off"
  <2>1. loop.pc \in InProgress /\ Tell("APPROVAL", TRUE) /\ UNCHANGED gatewayVars /\ "APPROVAL" \in Heard
    BY <1>5 DEF StopWaiting, InProgress, Heard
  <2>2. /\ client' = Quiet /\ runs' = runs /\ thread' = thread /\ Untouched(Current)
        /\ "APPROVAL" \in MayName
    BY <1>0, <1>5, <2>1 DEF MayName, AnswerInv, gatewayVars, StopWaiting
  <2>3. LoopTypeOK' /\ LoopInv'
    BY <2>1, <2>2, TellKeeps
  <2> QED BY <1>2, <2>1, <2>3, GatewayKept
<1>6. ASSUME Submit
      PROVE  GatewayTypeOK' /\ ThreadInv' /\ LoopTypeOK' /\ LoopInv' /\ loop'.pc # "off"
  <2>1. loop.left \in 0..Patience /\ loop' = [loop EXCEPT !.pc = "sent", !.left = loop.left]
    BY <1>1, <1>6 DEF Submit, LoopRow
  <2>2. loop'.pc = "sent"
    BY <1>1, <2>1 DEF LoopRow
  <2> QED BY <1>6, <2>1, <2>2, PostKeeps DEF Submit
<1>7. ASSUME Poll
      PROVE  GatewayTypeOK' /\ ThreadInv' /\ LoopTypeOK' /\ LoopInv' /\ loop'.pc # "off"
  <2>1. loop.left - 1 \in 0..Patience
    BY <1>1, <1>7, LoopBounds DEF Poll, LoopRow
  <2>2. loop' = [loop EXCEPT !.pc = "polled", !.left = loop.left - 1]
    BY <1>7 DEF Poll, Waited
  <2>3. loop'.pc = "polled"
    BY <1>1, <2>2 DEF LoopRow
  <2> QED BY <1>7, <2>1, <2>2, <2>3, PostKeeps DEF Poll
<1>8. ASSUME loop.pc \in {"sent", "polled"}, client.answer # "none", Hear
      PROVE  /\ GatewayTypeOK' /\ ThreadInv' /\ loop.pc \in InProgress
             /\ client' = Quiet /\ client.answer \in Heard
             /\ client.approval \in BOOLEAN /\ (client.approval => client.answer \in MayName)
             /\ runs' = runs /\ thread' = thread
             /\ client.answer = "RAN" => runs[Current] = 1
             /\ client.answer \in {"APPROVAL", "BLOCK"} => Untouched(Current)
  <2>1. client \in ClientRow
    BY RowTypes
  <2>2. client.waits = None
    BY <1>8 DEF ThreadInv
  <2>3. client' = Quiet /\ UNCHANGED <<request, runs, thread, trouble>>
    BY <1>8 DEF Hear
  <2>4. GatewayTypeOK' /\ ThreadInv'
    BY <2>3 DEF GatewayTypeOK, ThreadInv, Quiet
  <2>5. client.answer \in Heard /\ client.approval \in BOOLEAN
    BY <1>8, <2>1 DEF ClientRow
  <2> QED BY <1>0, <1>8, <2>2, <2>3, <2>4, <2>5 DEF AnswerInv, MayName, InProgress
<1>9. ASSUME loop.pc \in {"sent", "polled"}, client.answer = "APPROVAL", Hear, told' = told, noted' = noted,
             NEW left \in 0..Patience, loop' = [loop EXCEPT !.pc = "wait", !.left = left]
      PROVE  GatewayTypeOK' /\ ThreadInv' /\ LoopTypeOK' /\ LoopInv' /\ loop'.pc # "off"
  <2>1. /\ GatewayTypeOK' /\ ThreadInv' /\ client' = Quiet
        /\ runs' = runs /\ thread' = thread /\ Untouched(Current)
    BY <1>8, <1>9
  <2>2. /\ loop' \in LoopRow /\ loop'.pc = "wait" /\ loop'.turn = loop.turn
        /\ loop'.index = loop.index /\ loop'.calls = loop.calls
    BY <1>1, <1>9 DEF LoopRow
  <2>3. LoopTypeOK' /\ Current' = Current
    BY <1>1, <1>9, <2>2, LoopTypes DEF Current
  <2>4. PositionInv'
    BY <1>0, <1>9, <2>2, <2>3 DEF PositionInv
  <2>5. AnswerInv'
    BY <2>1, <2>2, <2>3 DEF AnswerInv, Untouched, Serves
  <2>6. ASSUME NEW r \in Requests PROVE OnceInv(r)' /\ ToldInv(r)'
    <3>1. InCourse(r)' <=> InCourse(r)
      BY <1>9, <2>2, <2>3 DEF InCourse
    <3> QED BY <1>0, <1>9, <2>1, <3>1 DEF OnceInv, ToldInv, Untouched, Serves
  <2> QED BY <2>1, <2>2, <2>3, <2>4, <2>5, <2>6 DEF LoopInv
<1>10. ASSUME loop.pc \in {"sent", "polled"}, client.answer # "none", Hear,
              Tell(client.answer, client.approval)
       PROVE  GatewayTypeOK' /\ ThreadInv' /\ LoopTypeOK' /\ LoopInv' /\ loop'.pc # "off"
  <2>1. LoopTypeOK' /\ LoopInv'
    BY <1>8, <1>10, TellKeeps
  <2> QED BY <1>2, <1>8, <1>10, <2>1
<1>11. ASSUME TakeAnswer
       PROVE  GatewayTypeOK' /\ ThreadInv' /\ LoopTypeOK' /\ LoopInv' /\ loop'.pc # "off"
  <2>1. loop.pc \in {"sent", "polled"} /\ client.answer # "none" /\ Hear /\ Patience \in 0..Patience
    BY <1>11, LoopBounds DEF TakeAnswer
  <2>2. CASE client.answer = "APPROVAL"
    BY <1>9, <1>11, <2>1, <2>2 DEF TakeAnswer
  <2>3. CASE client.answer # "APPROVAL"
    BY <1>10, <1>11, <2>1, <2>3 DEF TakeAnswer
  <2> QED BY <2>2, <2>3
<1>12. ASSUME TakePoll
       PROVE  GatewayTypeOK' /\ ThreadInv' /\ LoopTypeOK' /\ LoopInv' /\ loop'.pc # "off"
  <2>1. loop.pc \in {"sent", "polled"} /\ client.answer # "none" /\ Hear
    BY <1>12 DEF TakePoll
  <2>2. CASE client.answer = "APPROVAL"
    <3>1. loop' = [loop EXCEPT !.pc = "wait"] /\ told' = told /\ noted' = noted
      BY <1>12, <2>2 DEF TakePoll, StillPending
    <3>2. loop.left \in 0..Patience /\ loop' = [loop EXCEPT !.pc = "wait", !.left = loop.left]
      BY <1>1, <3>1 DEF LoopRow
    <3> QED BY <1>9, <2>1, <2>2, <3>1, <3>2
  <2>3. CASE client.answer # "APPROVAL"
    BY <1>10, <1>12, <2>1, <2>3 DEF TakePoll, StillPending
  <2> QED BY <2>2, <2>3
<1>13. ASSUME NEW n \in Index, ModelCalls(n)
       PROVE  GatewayTypeOK' /\ ThreadInv' /\ LoopTypeOK' /\ LoopInv' /\ loop'.pc # "off"
  <2>1. /\ loop.pc = "model" /\ n =< Len(RequestOf[loop.turn]) /\ UNCHANGED gatewayVars /\ told' = told /\ noted' = noted
        /\ loop' = [loop EXCEPT !.pc = "call", !.tries = 0, !.calls = n, !.index = 1]
    BY <1>13 DEF ModelCalls
  <2>2. /\ loop.turn \in 1..MaxTurns /\ loop.index = 0 /\ n \in Nat \ {0}
        /\ Len(RequestOf[loop.turn]) \in Nat
        /\ DOMAIN RequestOf[loop.turn] = 1..Len(RequestOf[loop.turn])
    BY <1>0, <2>1, IndexType DEF PositionInv
  <2>3. 1 \in DOMAIN RequestOf[loop.turn] /\ 1 \in 1..n /\ 1 \in Places /\ n \in Places
    BY <2>1, <2>2, PlacesType
  <2>4. /\ loop' \in LoopRow /\ loop'.pc = "call" /\ loop'.turn = loop.turn /\ loop'.index = 1
        /\ loop'.calls = n
    <3>1. 0 \in 0..MaxRetries
      BY LoopBounds
    <3> QED BY <1>1, <2>1, <2>3, <3>1 DEF LoopRow
  <2> DEFINE c == RequestOf[loop.turn][1]
  <2>5. Current' = c /\ c \in Requests
    BY <2>2, <2>3, <2>4, IndexType DEF Current
  <2>6. told[c] = "none" /\ ~InCourse(c)
    BY <1>0, <2>1, <2>2, <2>3 DEF PositionInv, InCourse
  <2>7. Untouched(c)
    BY <1>0, <2>5, <2>6 DEF ToldInv
  <2> HIDE DEF c
  <2>8. PositionInv'
    <3>1. ASSUME NEW i \in 1..MaxTurns, NEW j \in DOMAIN RequestOf[i],
                 loop.turn < i \/ (loop.turn = i /\ 1 < j)
          PROVE  told[RequestOf[i][j]] = "none"
      <4>1. j \in Nat
        BY IndexType
      <4> QED BY <1>0, <2>2, <3>1, <4>1 DEF PositionInv
    <3> QED BY <2>1, <2>2, <2>3, <2>4, <2>5, <2>6, <3>1 DEF PositionInv
  <2>9. AnswerInv'
    BY <1>0, <2>1, <2>4, <2>5, <2>7 DEF AnswerInv, Untouched, Serves, gatewayVars
  <2>10. ASSUME NEW r \in Requests PROVE OnceInv(r)' /\ ToldInv(r)'
    <3>1. ~InCourse(r)
      BY <2>1 DEF InCourse
    <3> QED BY <1>0, <2>1, <3>1 DEF OnceInv, ToldInv, Untouched, Serves, gatewayVars
  <2>11. LoopTypeOK'
    BY <1>1, <2>1, <2>4, LoopTypes
  <2> QED BY <2>1, <2>4, <2>8, <2>9, <2>10, <2>11, GatewayKept DEF LoopInv
<1> QED BY <1>3, <1>4, <1>5, <1>6, <1>7, <1>11, <1>12, <1>13 DEF LoopStep

-----------------------------------------------------------------------------
(***************************************************************************)
(* Approvals: a request that is not allowed outright runs by its approval. *)
(***************************************************************************)

\* A step that records nothing, runs nothing and clears no thread to dispatch.
LEMMA GrantKept ==
  ASSUME NEW r, GrantInv(r), request'[r] = request[r], runs'[r] = runs[r],
         \A h \in Threads : Dispatches(h, r)' => Dispatches(h, r)
  PROVE  GrantInv(r)'
BY DEF GrantInv

LEMMA ServeGrant ==
  ASSUME GatewayTypeOK, ThreadInv, NEW g \in Threads, Serve(g), NEW r \in Requests, GrantInv(r)
  PROVE  GrantInv(r)'
<1> DEFINE q == thread[g].req
<1>1. /\ thread[g].pc # "rest" /\ q \in Requests /\ runs \in [Requests -> Nat]
      /\ request \in [Requests -> RequestRow]
  BY ServeCases DEF GatewayTypeOK, RequestRow
<1>2. ASSUME NEW answer \in Heard, Replies(g, answer)
      PROVE  \A h \in Threads : Dispatches(h, r)' <=> Dispatches(h, r) /\ h # g
  BY <1>2, AnswerFacts DEF Dispatches, Resting
<1>3. ASSUME NEW pc \in {"decide", "dispatch"}, GoesTo(g, pc)
      PROVE  \A h \in Threads : Dispatches(h, r)' <=>
               IF h = g THEN q = r /\ pc = "dispatch" ELSE Dispatches(h, r)
  BY <1>1, <1>3, ContinuesFacts DEF Dispatches
<1>4. "BLOCK" \in Heard /\ "RAN" \in Heard /\ "DENIED" \in Heard /\ "ERROR" \in Heard
      /\ "APPROVAL" \in Heard /\ "FORBIDDEN" \in Heard /\ "ALLOW" \in Heard
  BY DEF Heard
<1>5. CASE Refuse(g) \/ Mismatch(g) \/ DispatchFails(g) \/ Drop(g)
  <2>1. request' = request /\ runs' = runs
    BY <1>5 DEF Refuse, Mismatch, DispatchFails, Drop
  <2>2. \A h \in Threads : Dispatches(h, r)' => Dispatches(h, r)
    BY <1>2, <1>4, <1>5, Handlers
  <2> QED BY <2>1, <2>2, GrantKept
<1>6. CASE Lookup(g)
  <2>1. request' = request /\ runs' = runs /\ GoesTo(g, "decide")
    BY <1>6, Handlers DEF Lookup
  <2>2. \A h \in Threads : Dispatches(h, r)' => Dispatches(h, r)
    BY <1>3, <2>1
  <2> QED BY <2>1, <2>2, GrantKept
<1>7. ASSUME NEW decision \in {"ALLOW", "APPROVAL", "BLOCK", "FORBIDDEN"}, Decide(g, decision)
      PROVE  GrantInv(r)'
  <2>1. decision \in DecisionOf[q] /\ runs' = runs
    BY <1>7 DEF Decide
  <2>2. \A h \in Threads : Dispatches(h, r)' =>
          Dispatches(h, r) \/ (decision = "ALLOW" /\ q = r)
    <3>1. CASE decision = "ALLOW"
      BY <1>3, <1>7, <3>1, Handlers
    <3>2. CASE decision # "ALLOW"
      BY <1>2, <1>4, <1>7, <3>2, Handlers
    <3> QED BY <3>1, <3>2
  <2>3. CASE request'[r] = request[r]
    <3>1. CASE decision = "ALLOW" /\ q = r
      BY <2>1, <2>3, <3>1 DEF GrantInv
    <3>2. CASE ~(decision = "ALLOW" /\ q = r)
      BY <2>1, <2>2, <2>3, <3>2, GrantKept
    <3> QED BY <3>1, <3>2
  <2>4. CASE request'[r] # request[r]
    <3> DEFINE row == [event |-> decision, content |-> thread[g].content,
                       approval |-> IF decision = "APPROVAL" THEN "pending" ELSE "none"]
    <3>1. decision # "FORBIDDEN" /\ request[q].event = "none" /\ request' = [request EXCEPT ![q] = row]
      BY <1>7, <2>4 DEF Decide
    <3>2. q = r /\ request'[r] = row
      BY <1>1, <2>4, <3>1
    <3>3. /\ request'[r].event = decision
          /\ request'[r].approval = IF decision = "APPROVAL" THEN "pending" ELSE "none"
      BY <3>2
    <3>4. request[r].approval = "none"
      BY <3>1, <3>2 DEF GrantInv
    <3> HIDE DEF row, q
    <3>5. ASSUME "ALLOW" \notin DecisionOf[r]
          PROVE  /\ request'[r].approval # "none" => "APPROVAL" \in DecisionOf[r]
                 /\ runs'[r] = 0 /\ \A h \in Threads : ~Dispatches(h, r)'
      BY <2>1, <2>2, <3>2, <3>3, <3>4, <3>5 DEF GrantInv
    <3> QED BY <3>3, <3>5 DEF GrantInv
  <2> QED BY <2>3, <2>4
<1>8. CASE Resubmit(g)
  <2>1. runs' = runs
    BY <1>8 DEF Resubmit
  <2>2. CASE ~Redeemable(q)
    <3>1. request' = request /\ Replies(g, request[q].event) /\ request[q].event # "none"
      BY <1>8, <2>2, Handlers DEF Resubmit
    <3>2. request[q].event \in Heard
      BY <1>1, <3>1 DEF RequestRow, Heard
    <3>3. \A h \in Threads : Dispatches(h, r)' => Dispatches(h, r)
      BY <1>2, <3>1, <3>2
    <3> QED BY <2>1, <3>1, <3>3, GrantKept
  <2>3. CASE Redeemable(q)
    <3>1. /\ request' = [request EXCEPT ![q].approval = "consumed"] /\ GoesTo(g, "dispatch")
          /\ request[q].approval = "approved" /\ request[q].event # "none"
      BY <1>8, <2>3, Handlers DEF Resubmit, Redeemable
    <3>2. \A h \in Threads : Dispatches(h, r)' <=> IF h = g THEN q = r ELSE Dispatches(h, r)
      BY <1>3, <3>1
    <3>3. CASE q # r
      <4>1. request'[r] = request[r] /\ \A h \in Threads : Dispatches(h, r)' => Dispatches(h, r)
        BY <1>1, <3>1, <3>2, <3>3
      <4> QED BY <2>1, <4>1, GrantKept
    <3>4. CASE q = r
      <4>1. request'[r].approval = "consumed" /\ request'[r].event = request[r].event
        <5>1. request'[r] = [request[r] EXCEPT !.approval = "consumed"] /\ request[r] \in RequestRow
          BY <1>1, <3>1, <3>4
        <5> QED BY <5>1 DEF RequestRow
      <4> HIDE DEF q
      <4> QED BY <2>1, <3>1, <3>2, <3>4, <4>1 DEF GrantInv
    <3> QED BY <3>3, <3>4
  <2> QED BY <2>2, <2>3
<1>9. CASE Withdraw(g)
  <2>1. /\ request' = [request EXCEPT ![q].event = IF @ = "ALLOW" THEN "BLOCK" ELSE @]
        /\ runs' = runs /\ Replies(g, "BLOCK")
    BY <1>9, Handlers DEF Withdraw
  <2>2. \A h \in Threads : Dispatches(h, r)' => Dispatches(h, r)
    BY <1>2, <1>4, <2>1
  <2>3. /\ request'[r].approval = request[r].approval
        /\ request'[r].event = "none" => request[r].event = "none"
    <3>1. CASE q # r
      BY <1>1, <2>1, <3>1
    <3>2. CASE q = r
      <4>1. /\ request'[r] = [request[r] EXCEPT !.event = IF request[r].event = "ALLOW" THEN "BLOCK"
                                                          ELSE request[r].event]
            /\ request[r] \in RequestRow
        BY <1>1, <2>1, <3>2
      <4> QED BY <4>1 DEF RequestRow
    <3> QED BY <3>1, <3>2
  <2> QED BY <2>1, <2>2, <2>3 DEF GrantInv
<1>10. CASE Run(g)
  <2>1. /\ request' = request /\ runs' = [runs EXCEPT ![q] = @ + 1] /\ thread[g].pc = "dispatch"
        /\ Replies(g, "RAN") \/ Replies(g, "DENIED")
    BY <1>10, Handlers DEF Run
  <2>2. \A h \in Threads : Dispatches(h, r)' <=> Dispatches(h, r) /\ h # g
    BY <1>2, <1>4, <2>1
  <2>3. CASE q # r
    <3>1. runs'[r] = runs[r]
      BY <1>1, <2>1, <2>3
    <3> QED BY <2>1, <2>2, <3>1, GrantKept
  <2>4. CASE q = r
    <3>1. runs'[r] = runs[r] + 1 /\ Dispatches(g, r)
      BY <1>1, <2>1, <2>4 DEF Dispatches
    <3> HIDE DEF q
    <3>2. "ALLOW" \notin DecisionOf[r] => runs'[r] = 1
      BY <3>1 DEF GrantInv
    <3> QED BY <2>1, <2>2, <3>1, <3>2 DEF GrantInv
  <2> QED BY <2>3, <2>4
<1> QED BY <1>5, <1>6, <1>7, <1>8, <1>9, <1>10 DEF Serve

LEMMA OutsideGrant ==
  ASSUME GatewayTypeOK, Outside, NEW r \in Requests, GrantInv(r)
  PROVE  GrantInv(r)'
<1>1. UNCHANGED <<runs, thread, client>> /\ request \in [Requests -> RequestRow]
  BY OutsideRequest DEF GatewayTypeOK, RequestRow
<1>2. PICK q \in Requests, row \in RequestRow :
        /\ request' = [request EXCEPT ![q] = row] /\ request[q].approval \in {"pending", "approved"}
        /\ \E approval \in {"approved", "denied", "lapsed"} : row = [request[q] EXCEPT !.approval = approval]
  BY OutsideRequest
<1>3. CASE q # r
  BY <1>1, <1>2, <1>3, GrantKept DEF Dispatches
<1>4. CASE q = r
  <2>1. request'[r].event = request[r].event /\ request'[r].approval # "none"
        /\ request[r].approval \in {"pending", "approved"}
    <3>1. request'[r] = row /\ request[r] \in RequestRow
      BY <1>1, <1>2, <1>4
    <3> QED BY <1>2, <1>4, <3>1 DEF RequestRow
  <2> QED BY <1>1, <2>1 DEF GrantInv, Dispatches
<1> QED BY <1>3, <1>4

LEMMA PostGrant ==
  ASSUME GatewayTypeOK, ThreadInv, NEW q \in Requests, NEW content \in Contents, Post(q, content),
         NEW r, GrantInv(r)
  PROVE  GrantInv(r)'
<1>1. \A h \in Threads : Dispatches(h, r)' => Dispatches(h, r)
  <2>1. PICK g \in Threads :
          /\ thread'[g] = [pc |-> "arrived", req |-> q, content |-> content, approval |-> FALSE]
          /\ \A h \in Threads : h # g => thread'[h] = thread[h]
    BY PostFacts
  <2> QED BY <2>1 DEF Dispatches
<1>2. request' = request /\ runs' = runs
  BY PostFacts
<1> QED BY <1>1, <1>2, GrantKept

-----------------------------------------------------------------------------
(***************************************************************************)
(* The reference workflow.                                                 *)
(***************************************************************************)

LEMMA Concatenation ==
  ASSUME NEW a, NEW b, NEW c, NEW d, NEW e, NEW f, NEW g, NEW h, NEW i, NEW s,
         s = <<a, b, c, d>> \o <<e>> \o <<f, g, h, i>>
  PROVE  /\ Len(s) = 9
         /\ s[1] = a /\ s[2] = b /\ s[3] = c /\ s[4] = d /\ s[5] = e
         /\ s[6] = f /\ s[7] = g /\ s[8] = h /\ s[9] = i
OBVIOUS

\* The calls of the plan, one by one.
LEMMA PlanCalls ==
  /\ Len(Plan) = 9
  /\ Plan[1] = Call("read", Read, Proper, {"RAN"})
  /\ Plan[2] = Call("delete", Delete, Proper, {"BLOCK"})
  /\ Plan[3] = Call("requested", Update, Proper, {"APPROVAL"})
  /\ Plan[4] = Call("mutation", Update, Forged, NotRun)
  /\ Plan[5] = Call("granted", Update, Proper, {"RAN"})
  /\ Plan[6] = Call("replay", Update, Proper, NotRun)
  /\ Plan[7] = Call("extraction", Extract, Forged, Answers)
  /\ Plan[8] = Call("foreign", Foreign, Proper, {"FORBIDDEN"})
  /\ Plan[9] = Call("denied", Denied, Forged, {"BLOCK"})
<1>1. Plan = BeforeApproval \o <<Granted>> \o AfterApproval
  BY DEF Plan
<1> QED BY <1>1, Concatenation DEF BeforeApproval, AfterApproval, Granted

LEMMA CallFields ==
  ASSUME NEW name, NEW r, NEW content, NEW good, NEW row, row = Call(name, r, content, good)
  PROVE  row.name = name /\ row.req = r /\ row.content = content /\ row.good = good
BY DEF Call

LEMMA PlanRequests ==
  /\ Plan[1].req = Read /\ Plan[2].req = Delete /\ Plan[3].req = Update
  /\ Plan[4].req = Update /\ Plan[5].req = Update /\ Plan[6].req = Update
  /\ Plan[7].req = Extract /\ Plan[8].req = Foreign /\ Plan[9].req = Denied
BY PlanCalls, CallFields

LEMMA PlanContents ==
  /\ Plan[1].content = Proper /\ Plan[2].content = Proper /\ Plan[3].content = Proper
  /\ Plan[4].content = Forged /\ Plan[5].content = Proper /\ Plan[6].content = Proper
  /\ Plan[7].content = Forged /\ Plan[8].content = Proper /\ Plan[9].content = Forged
BY PlanCalls, CallFields

LEMMA PlanGood ==
  /\ Plan[1].good = {"RAN"} /\ Plan[2].good = {"BLOCK"} /\ Plan[3].good = {"APPROVAL"}
  /\ Plan[4].good = NotRun /\ Plan[5].good = {"RAN"} /\ Plan[6].good = NotRun
  /\ Plan[7].good = Answers /\ Plan[8].good = {"FORBIDDEN"} /\ Plan[9].good = {"BLOCK"}
BY PlanCalls, CallFields

LEMMA PlanNames ==
  /\ Plan[1].name = "read" /\ Plan[2].name = "delete" /\ Plan[3].name = "requested"
  /\ Plan[4].name = "mutation" /\ Plan[5].name = "granted" /\ Plan[6].name = "replay"
  /\ Plan[7].name = "extraction" /\ Plan[8].name = "foreign" /\ Plan[9].name = "denied"
BY PlanCalls, CallFields

\* The six request ids are six, and each has the decision that was provisioned.
LEMMA SixIds ==
  /\ Read # Delete /\ Read # Update /\ Read # Extract /\ Read # Foreign /\ Read # Denied
  /\ Delete # Update /\ Delete # Extract /\ Delete # Foreign /\ Delete # Denied
  /\ Update # Extract /\ Update # Foreign /\ Update # Denied
  /\ Extract # Foreign /\ Extract # Denied /\ Foreign # Denied
<1> DEFINE id == <<Read, Delete, Update, Extract, Foreign, Denied>>
<1>1. \A i, j \in DOMAIN id : id[i] = id[j] => i = j
  BY WorkflowAssumption
<1>2. DOMAIN id = 1..6
  OBVIOUS
<1>3. /\ id[1] = Read /\ id[2] = Delete /\ id[3] = Update
      /\ id[4] = Extract /\ id[5] = Foreign /\ id[6] = Denied
  OBVIOUS
<1> HIDE DEF id
<1>4. \A i, j \in 1..6 : i # j => id[i] # id[j]
  BY <1>1, <1>2
<1> QED BY <1>3, <1>4

LEMMA Decisions ==
  /\ DecisionOf[Read] = {"ALLOW"} /\ DecisionOf[Extract] = {"ALLOW"}
  /\ DecisionOf[Update] = {"APPROVAL"} /\ DecisionOf[Foreign] = {"FORBIDDEN"}
  /\ DecisionOf[Delete] = {"BLOCK"} /\ DecisionOf[Denied] = {"BLOCK"}
<1>1. \A r \in MyRequests : DecisionOf[r] = {Provisioned(r)}
  BY WorkflowAssumption
<1> QED BY <1>1, SixIds DEF MyRequests, Provisioned

LEMMA WorkflowConstants ==
  /\ MyRequests \subseteq Requests /\ Proper \in Contents /\ Forged \in Contents
  /\ Proper # Forged /\ Deadline \in Nat
BY WorkflowAssumption

\* Each call is of one of the ids, and only the update is submitted more than once.
LEMMA PlanIds ==
  /\ \A p \in 1..9 : Plan[p].req \in MyRequests /\ Plan[p].req \in Requests /\ Plan[p].content \in Contents
  /\ \A p \in 1..9 : /\ Plan[p].req = Read <=> p = 1
                     /\ Plan[p].req = Update <=> p \in {3, 4, 5, 6}
                     /\ Plan[p].name = "granted" <=> p = 5
                     /\ Plan[p].name = "foreign" <=> p = 8
  /\ \A p \in {1, 2, 3, 7, 8, 9} : \A q \in 1..9 : q < p => Plan[q].req # Plan[p].req
<1>1. \A p \in 1..9 : p = 1 \/ p = 2 \/ p = 3 \/ p = 4 \/ p = 5 \/ p = 6 \/ p = 7 \/ p = 8 \/ p = 9
  OBVIOUS
<1>2. \A p \in 1..9 : Plan[p].req \in MyRequests
  BY <1>1, PlanRequests, Zenon DEF MyRequests
<1>3. \A p \in 1..9 : Plan[p].content \in Contents
  BY <1>1, PlanContents, WorkflowConstants
<1>4. \A p \in 1..9 : /\ Plan[p].req = Read <=> p = 1
                      /\ Plan[p].req = Update <=> p \in {3, 4, 5, 6}
  BY <1>1, PlanRequests, SixIds
<1>5. \A p \in 1..9 : /\ Plan[p].name = "granted" <=> p = 5
                      /\ Plan[p].name = "foreign" <=> p = 8
  BY <1>1, PlanNames
<1>6. ASSUME NEW p \in {1, 2, 3, 7, 8, 9}, NEW q \in 1..9, q < p PROVE Plan[q].req # Plan[p].req
  <2>1. p = 1 \/ p = 2 \/ p = 3 \/ p = 7 \/ p = 8 \/ p = 9
    OBVIOUS
  <2> QED BY <1>1, <1>6, <2>1, PlanRequests, SixIds
<1> QED BY <1>2, <1>3, <1>4, <1>5, <1>6, WorkflowConstants

FlowRow == [pc : {"off", "ready", "sent", "done"}, at : 1..10, left : 0..Deadline,
            ok : BOOLEAN, verdict : {"none", "PASS", "FAIL"}]

LEMMA FlowTypes ==
  /\ WorkflowTypeOK <=> flow \in FlowRow
  /\ WorkflowTypeOK' <=> flow' \in FlowRow
  /\ flow.at =< Len(Plan) <=> flow.at =< 9
  /\ flow.at > Len(Plan) <=> flow.at > 9
  /\ (flow.at =< Len(Plan))' <=> flow'.at =< 9
  /\ (flow.at > Len(Plan))' <=> flow'.at > 9
<1>1. Len(Plan) + 1 = 10 /\ Len(Plan) = 9
  BY PlanCalls
<1> QED BY <1>1 DEF WorkflowTypeOK, FlowRow

\* What gateway, operators and time do to a request: it keeps the content that it was
\* recorded with, which was that of a thread which served it, and what ran has run; and
\* the program that waits hears the truth.
Effect ==
    /\ GatewayTypeOK' /\ ThreadInv'
    /\ \A r \in Requests :
         /\ OnceInv(r) => OnceInv(r)' /\ (Untouched(r) => Untouched(r)')
         /\ GrantInv(r) => GrantInv(r)'
         /\ \A h \in Threads : Serves(h, r)' => Serves(h, r) /\ thread'[h].content = thread[h].content
         /\ request[r].event # "none" =>
              request'[r].event # "none" /\ request'[r].content = request[r].content
         /\ request[r].event = "none" =>
              \/ request'[r].event = "none"
              \/ \E h \in Threads : Serves(h, r) /\ request'[r].content = thread[h].content
         /\ runs[r] # 0 => runs'[r] # 0
    /\ \/ /\ client' = client
          /\ client.waits # None => /\ thread'[client.waits].req = thread[client.waits].req
                                    /\ thread'[client.waits].content = thread[client.waits].content
       \/ /\ client.waits # None /\ client'.waits = None /\ client'.answer \in Heard
          /\ client'.answer = "RAN" => runs'[thread[client.waits].req] # 0
          /\ client'.answer = "APPROVAL" => request'[thread[client.waits].req].event # "none"

\* The part of it that is about the thread's step alone.
LEMMA ServeThreads ==
  ASSUME GatewayTypeOK, ThreadInv, NEW g \in Threads, Serve(g)
  PROVE  /\ \A h \in Threads :
              /\ thread'[h].pc # "rest" => /\ thread[h].pc # "rest" /\ thread'[h].req = thread[h].req
                                           /\ thread'[h].content = thread[h].content
              /\ h # g => thread'[h] = thread[h]
         /\ client' # client => client.waits = g
         /\ thread'[g].pc # "rest" => client' = client
<1>1. thread[g].pc # "rest"
  BY ServeCases
<1>2. CASE Continues(g)
  BY <1>1, <1>2, ContinuesFacts DEF Continues
<1>3. ASSUME NEW answer \in Heard, Replies(g, answer)
      PROVE  /\ thread'[g].pc = "rest" /\ \A h \in Threads : h # g => thread'[h] = thread[h]
             /\ client' # client => client.waits = g
  BY <1>3, AnswerFacts DEF Resting
<1>4. CASE \E answer \in Heard \ {"RAN"} : Ends(g, answer)
  BY <1>1, <1>3, <1>4 DEF Ends
<1>5. CASE \E answer \in {"RAN", "DENIED"} : Runs(g, answer)
  <2>1. "RAN" \in Heard /\ "DENIED" \in Heard
    BY DEF Heard
  <2> QED BY <1>1, <1>3, <1>5, <2>1 DEF Runs
<1> QED BY <1>2, <1>4, <1>5, ServeCases

LEMMA ServeRow ==
  ASSUME GatewayTypeOK, ThreadInv, NEW g \in Threads, Serve(g), NEW r \in Requests
  PROVE  /\ request[r].event # "none" =>
              request'[r].event # "none" /\ request'[r].content = request[r].content
         /\ request'[r] # request[r] => Serves(g, r)
         /\ request[r].event = "none" =>
              request'[r].event = "none" \/ request'[r].content = thread[g].content
         /\ runs[r] # 0 => runs'[r] # 0
<1>1. /\ thread[g].pc # "rest" /\ thread[g].req \in Requests /\ runs \in [Requests -> Nat]
      /\ request \in [Requests -> RequestRow] /\ request[r] \in RequestRow
  BY ServeCases DEF GatewayTypeOK, RequestRow
<1>2. runs[r] # 0 => runs'[r] # 0
  <2>1. runs' = runs \/ runs' = [runs EXCEPT ![thread[g].req] = @ + 1]
    BY ServeCases DEF Continues, Ends, Runs
  <2> QED BY <1>1, <2>1
<1>3. CASE request' = request
  BY <1>2, <1>3
<1>4. ASSUME NEW q, q = thread[g].req, NEW row \in RequestRow, request' = [request EXCEPT ![q] = row],
             \/ /\ request[q].event = "none" /\ row.event \in DecisionOf[q]
                /\ row.content = thread[g].content
                /\ row.approval = IF row.event = "APPROVAL" THEN "pending" ELSE "none"
             \/ /\ request[q].event # "none" /\ request[q].approval = "approved"
                /\ row = [request[q] EXCEPT !.approval = "consumed"]
             \/ /\ request[q].event = "ALLOW" /\ row = [request[q] EXCEPT !.event = "BLOCK"]
      PROVE  /\ request[r].event # "none" =>
                  request'[r].event # "none" /\ request'[r].content = request[r].content
             /\ request'[r] # request[r] => Serves(g, r)
             /\ request[r].event = "none" =>
                  request'[r].event = "none" \/ request'[r].content = thread[g].content
  <2>1. q \in Requests /\ request'[q] = row /\ \A p \in Requests : p # q => request'[p] = request[p]
    BY <1>1, <1>4, RowReplaced
  <2>2. CASE q # r
    BY <2>1, <2>2
  <2>3. CASE q = r
    <3>1. Serves(g, r)
      BY <1>1, <1>4, <2>3 DEF Serves
    <3>2. /\ request[r].event # "none" => row.event # "none" /\ row.content = request[r].content
          /\ request[r].event = "none" => row.content = thread[g].content
      BY <1>1, <1>4, <2>3 DEF RequestRow
    <3> HIDE <1>4
    <3> QED BY <2>1, <2>3, <3>1, <3>2
  <2> QED BY <2>2, <2>3
<1> HIDE DEF RequestRow
<1> QED BY <1>2, <1>3, <1>4, ServeRequest

LEMMA ServeHeard ==
  ASSUME GatewayTypeOK, ThreadInv, NEW g \in Threads, NEW r, r = thread[g].req, Serve(g),
         client' # client
  PROVE  /\ client.waits = g /\ client'.waits = None /\ client'.answer \in Heard
         /\ client'.answer = "RAN" => runs'[r] # 0
         /\ client'.answer = "APPROVAL" => request'[r].event # "none"
<1>1. /\ thread[g].pc # "rest" /\ r \in Requests /\ runs \in [Requests -> Nat]
      /\ request \in [Requests -> RequestRow] /\ request[r] \in RequestRow
  BY ServeCases DEF GatewayTypeOK, RequestRow
<1>2. ASSUME NEW answer \in Heard, Replies(g, answer)
      PROVE  client.waits = g /\ client'.waits = None /\ client'.answer = answer
  BY <1>2, AnswerFacts
<1>3. "BLOCK" \in Heard /\ "RAN" \in Heard /\ "DENIED" \in Heard /\ "ERROR" \in Heard
      /\ "APPROVAL" \in Heard /\ "FORBIDDEN" \in Heard /\ "ALLOW" \in Heard
  BY DEF Heard
<1>4. CASE Refuse(g) \/ Mismatch(g) \/ DispatchFails(g) \/ Drop(g) \/ Withdraw(g)
  <2>1. Replies(g, "DENIED") \/ Replies(g, "ERROR") \/ Replies(g, "BLOCK")
    BY <1>4, Handlers
  <2> QED BY <1>2, <1>3, <2>1
<1>5. ~Lookup(g)
  BY DEF Lookup, Goto
<1>6. ASSUME NEW decision \in {"ALLOW", "APPROVAL", "BLOCK", "FORBIDDEN"}, Decide(g, decision)
      PROVE  /\ client.waits = g /\ client'.waits = None /\ client'.answer \in Heard \ {"RAN"}
             /\ client'.answer = "APPROVAL" => request'[r].event # "none"
  <2>1. decision # "ALLOW" /\ Replies(g, decision)
    BY <1>6, Handlers DEF GoesTo
  <2>2. decision = "APPROVAL" => request'[r].event # "none"
    <3> SUFFICES ASSUME decision = "APPROVAL" PROVE request'[r].event # "none"
      OBVIOUS
    <3>1. CASE request[r].event # "none"
      BY <3>1, ServeRow, <1>1
    <3>2. CASE request[r].event = "none"
      <4> DEFINE row == [event |-> decision, content |-> thread[g].content,
                         approval |-> IF decision = "APPROVAL" THEN "pending" ELSE "none"]
      <4>1. request' = [request EXCEPT ![r] = row]
        BY <1>6, <3>2 DEF Decide
      <4>2. row.event # "none"
        OBVIOUS
      <4> HIDE DEF row
      <4> QED BY <1>1, <4>1, <4>2
    <3> QED BY <3>1, <3>2
  <2>3. decision \in Heard \ {"RAN"}
    BY DEF Heard
  <2> QED BY <1>2, <2>1, <2>2, <2>3
<1>7. CASE Resubmit(g)
  <2>1. request[r].event # "none" /\ Replies(g, request[r].event)
    BY <1>7, Handlers DEF Resubmit, GoesTo
  <2>2. request[r].event \in Heard \ {"RAN"}
    BY <1>1, <2>1 DEF RequestRow, Heard
  <2>3. request'[r].event # "none"
    BY <1>1, <2>1, ServeRow
  <2> QED BY <1>2, <2>1, <2>2, <2>3
<1>8. CASE Run(g)
  <2>1. Replies(g, "RAN") \/ Replies(g, "DENIED")
    BY <1>8, Handlers
  <2>2. runs'[r] # 0
    BY <1>1, <1>8 DEF Run
  <2> QED BY <1>2, <1>3, <2>1, <2>2
<1> QED BY <1>4, <1>5, <1>6, <1>7, <1>8 DEF Serve

LEMMA ServeEffect ==
  ASSUME GatewayTypeOK, ThreadInv, NEW g \in Threads, Serve(g)
  PROVE  Effect
<1>1. GatewayTypeOK' /\ ThreadInv'
  BY ServeTypes
<1>2. ASSUME NEW r \in Requests
      PROVE  /\ OnceInv(r) => OnceInv(r)' /\ (Untouched(r) => Untouched(r)')
             /\ GrantInv(r) => GrantInv(r)'
  BY ServeOnce, ServeGrant
<1>3. ASSUME NEW r \in Requests, NEW h \in Threads, Serves(h, r)'
      PROVE  Serves(h, r) /\ thread'[h].content = thread[h].content
  BY <1>3, ServeThreads DEF Serves
<1>4. ASSUME NEW r \in Requests
      PROVE  /\ request[r].event # "none" =>
                  request'[r].event # "none" /\ request'[r].content = request[r].content
             /\ request[r].event = "none" =>
                  \/ request'[r].event = "none"
                  \/ \E h \in Threads : Serves(h, r) /\ request'[r].content = thread[h].content
             /\ runs[r] # 0 => runs'[r] # 0
  <2>1. request'[r] # request[r] => Serves(g, r)
    BY ServeRow
  <2>2. request[r].event = "none" =>
          request'[r].event = "none" \/ request'[r].content = thread[g].content
    BY ServeRow
  <2> QED BY <2>1, <2>2, ServeRow
<1>5. CASE client' = client
  <2>1. client.waits # None => client.waits \in Threads /\ thread'[client.waits].pc # "rest"
    <3>1. client'.waits # None => thread'[client'.waits].pc # "rest"
      BY <1>1 DEF ThreadInv
    <3> QED BY <1>5, <3>1 DEF GatewayTypeOK
  <2>2. client.waits # None => /\ thread'[client.waits].req = thread[client.waits].req
                               /\ thread'[client.waits].content = thread[client.waits].content
    BY <2>1, ServeThreads
  <2> QED BY <1>1, <1>2, <1>3, <1>4, <1>5, <2>2 DEF Effect
<1>6. CASE client' # client
  <2>1. PICK r : r = thread[g].req
    OBVIOUS
  <2>2. /\ client.waits = g /\ client'.waits = None /\ client'.answer \in Heard
        /\ client'.answer = "RAN" => runs'[r] # 0
        /\ client'.answer = "APPROVAL" => request'[r].event # "none"
    BY <1>6, <2>1, ServeHeard
  <2> QED BY <1>1, <1>2, <1>3, <1>4, <2>1, <2>2 DEF Effect
<1> QED BY <1>5, <1>6

LEMMA LoseEffect ==
  ASSUME GatewayTypeOK, ThreadInv, LoseAnswer
  PROVE  Effect
<1>1. /\ client.waits # None /\ client'.waits = None /\ client'.answer = "ERROR"
      /\ UNCHANGED <<request, runs, thread>>
  BY DEF LoseAnswer, Quiet
<1>2. GatewayTypeOK' /\ ThreadInv'
  BY LoseTypes
<1>3. "ERROR" \in Heard
  BY DEF Heard
<1>4. ASSUME NEW r \in Requests
      PROVE  /\ OnceInv(r) => OnceInv(r)' /\ (Untouched(r) => Untouched(r)')
             /\ GrantInv(r) => GrantInv(r)'
             /\ \A h \in Threads : Serves(h, r)' => Serves(h, r)
  BY <1>1 DEF OnceInv, Untouched, GrantInv, Serves, Dispatches
<1> QED BY <1>1, <1>2, <1>3, <1>4 DEF Effect

\* An operator's verdict and the time change approvals only.
LEMMA OutsideRow ==
  ASSUME GatewayTypeOK, Outside, NEW r \in Requests
  PROVE  /\ request'[r].event = request[r].event /\ request'[r].content = request[r].content
         /\ trouble' \in BOOLEAN /\ (trouble => trouble')
         /\ ~trouble' => \/ request'[r] = request[r]
                         \/ request[r].approval \in {"pending", "approved"} /\ request'[r].approval = "approved"
<1>1. request \in [Requests -> RequestRow] /\ request[r] \in RequestRow /\ trouble \in BOOLEAN
  BY DEF GatewayTypeOK, RequestRow
<1>2. PICK q \in Requests, row \in RequestRow, approval \in {"approved", "denied", "lapsed"} :
        /\ request' = [request EXCEPT ![q] = row] /\ request[q].approval \in {"pending", "approved"}
        /\ row = [request[q] EXCEPT !.approval = approval]
        /\ trouble' = (trouble \/ approval # "approved")
  BY OutsideRequest
<1>3. trouble' \in BOOLEAN /\ (trouble => trouble') /\ (~trouble' => approval = "approved")
  BY <1>1, <1>2
<1>4. CASE q # r
  <2>1. request'[r] = request[r]
    BY <1>1, <1>2, <1>4
  <2> QED BY <1>3, <2>1
<1>5. CASE q = r
  <2>1. request'[r] = row
    BY <1>1, <1>2, <1>5
  <2>2. row.event = request[r].event /\ row.content = request[r].content /\ row.approval = approval
    BY <1>1, <1>2, <1>5 DEF RequestRow
  <2>3. request[r].approval \in {"pending", "approved"}
    BY <1>2, <1>5
  <2> QED BY <1>3, <2>1, <2>2, <2>3
<1> QED BY <1>4, <1>5

LEMMA OutsideEffect ==
  ASSUME GatewayTypeOK, ThreadInv, Outside
  PROVE  Effect
<1>1. UNCHANGED <<runs, thread, client>>
  BY OutsideRequest
<1>2. GatewayTypeOK' /\ ThreadInv'
  BY OutsideTypes
<1>3. ASSUME NEW r \in Requests
      PROVE  /\ OnceInv(r) => OnceInv(r)' /\ (Untouched(r) => Untouched(r)')
             /\ GrantInv(r) => GrantInv(r)'
             /\ \A h \in Threads : Serves(h, r)' => Serves(h, r)
             /\ request'[r].event = request[r].event /\ request'[r].content = request[r].content
  BY <1>1, OutsideGrant, OutsideRow DEF OnceInv, Untouched, Serves
<1> QED BY <1>1, <1>2, <1>3 DEF Effect

\* What the gateway, the operators and the time keep of the run, and of PASS being earned.
LEMMA EffectKeeps ==
  ASSUME GatewayTypeOK, WorkflowTypeOK, ThreadInv, RunInv, EarnedInv, flow' = flow, Effect
  PROVE  RunInv' /\ EarnedInv'
<1>1. flow \in FlowRow /\ Now' = Now
  BY FlowTypes DEF Now
<1>2. Unsent(1)' = Unsent(1) /\ Unsent(3)' = Unsent(3)
  BY DEF Unsent
<1>3. /\ Read \in Requests /\ Update \in Requests /\ Read \in MyRequests /\ Update \in MyRequests
      /\ \A r \in MyRequests : r \in Requests
  BY WorkflowConstants DEF MyRequests
<1>4. flow.pc = "sent" => Now.req \in Requests /\ flow.at \in 1..9
  BY <1>1, FlowTypes, PlanIds DEF RunInv, Now, FlowRow
<1>5. ASSUME client.waits # None
      PROVE  /\ client.waits \in Threads /\ flow.pc = "sent" /\ client.answer = "none"
             /\ thread[client.waits].req = Now.req /\ thread[client.waits].content = Now.content
  BY <1>5 DEF RunInv, Quiet, ThreadInv, GatewayTypeOK
<1>6. \/ /\ client' = client
         /\ client.waits # None => /\ thread'[client.waits].req = Now.req
                                   /\ thread'[client.waits].content = Now.content
      \/ /\ client.waits # None /\ client'.waits = None /\ client'.answer # "none"
         /\ client'.answer = "RAN" => runs'[Now.req] # 0
         /\ client'.answer = "APPROVAL" => request'[Now.req].event # "none"
  <2>1. "none" \notin Heard
    BY DEF Heard
  <2> QED BY <1>5, <2>1 DEF Effect
<1>7. RunInv'
  <2>1. flow.pc # "sent" => client = Quiet /\ client.waits = None /\ client.answer = "none"
    BY DEF RunInv, Quiet
  <2>2. CASE client' = client
    BY <1>1, <1>5, <1>6, <2>1, <2>2 DEF RunInv
  <2>3. CASE client' # client
    BY <1>1, <1>5, <1>6, <2>1, <2>3 DEF RunInv
  <2> QED BY <2>2, <2>3
<1>8. /\ \A r \in MyRequests : GrantInv(r)'
      /\ OnceInv(Read)' /\ (Unsent(1) => Untouched(Read)')
  BY <1>3 DEF Effect, EarnedInv
<1>9. Unsent(3) => request'[Update].event = "none" /\ \A g \in Threads : ~Serves(g, Update)'
  BY <1>3 DEF Effect, EarnedInv
<1>10. flow.at =< 3 =>
         /\ \A g \in Threads : Serves(g, Update)' => thread'[g].content = Proper
         /\ request'[Update].event # "none" => request'[Update].content = Proper
  BY <1>3 DEF Effect, EarnedInv
<1>11. /\ flow.pc = "sent" /\ client'.answer = "RAN" => runs'[Now.req] # 0
       /\ flow.pc = "sent" /\ client'.answer = "APPROVAL" => request'[Now.req].event # "none"
  <2>1. flow.pc = "sent" => /\ runs[Now.req] # 0 => runs'[Now.req] # 0
                            /\ request[Now.req].event # "none" => request'[Now.req].event # "none"
    BY <1>4 DEF Effect
  <2> QED BY <1>6, <2>1 DEF EarnedInv
<1>12. flow.ok =>
         /\ flow.at > 1 => runs'[Read] # 0
         /\ flow.at > 3 => request'[Update].event # "none" /\ request'[Update].content = Proper
         /\ flow.at > 5 => runs'[Update] # 0
  BY <1>3 DEF Effect, EarnedInv
<1>13. EarnedInv'
  BY <1>1, <1>2, <1>8, <1>9, <1>10, <1>11, <1>12 DEF EarnedInv
<1> QED BY <1>7, <1>13

\* While nothing has gone wrong, the only busy thread serves the call of the plan.
LEMMA CalmThread ==
  ASSUME GatewayTypeOK, WorkflowTypeOK, ThreadInv, RunInv, CalmInv, ~trouble,
         NEW g \in Threads, thread[g].pc # "rest"
  PROVE  /\ client.waits = g /\ flow.pc = "sent" /\ flow.at \in 1..9
         /\ thread[g].req = Plan[flow.at].req /\ thread[g].content = Plan[flow.at].content
         /\ \A h \in Threads : h # g => thread[h].pc = "rest"
<1>1. client.waits = g /\ \A h \in Threads : h # g => thread[h].pc = "rest"
  BY DEF CalmInv
<1>2. flow.pc = "sent" /\ flow.at =< 9 /\ flow \in FlowRow
  BY <1>1, FlowTypes DEF RunInv, Quiet
<1>3. thread[g].req = Now.req /\ thread[g].content = Now.content
  BY <1>1, <1>2 DEF RunInv
<1> QED BY <1>1, <1>2, <1>3 DEF Now, FlowRow

\* What a step must keep of the requests.
CalmRequests ==
    /\ \A p \in {1, 2, 3, 7, 8, 9} : flow.at < p => request'[Plan[p].req].event = "none"
    /\ flow.at > 3 => request'[Update].event = "APPROVAL" /\ request'[Update].content = Proper
    /\ flow.at = 4 => request'[Update].approval \in {"pending", "approved"}
    /\ flow.at > 5 => request'[Update].approval = "consumed"

\* The thread goes on.
LEMMA CalmGoes ==
  ASSUME GatewayTypeOK, WorkflowTypeOK, ThreadInv, RunInv, CalmInv, ~trouble, trouble' = trouble,
         flow' = flow, NEW g \in Threads, thread[g].pc # "rest",
         NEW pc \in {"decide", "dispatch"}, GoesTo(g, pc), CalmRequests,
         IF flow.at \in {4, 5, 6}
         THEN pc = "dispatch" /\ flow.at = 5 /\ request'[Update].approval = "consumed"
         ELSE \/ pc = "decide" /\ request'[Plan[flow.at].req].event = "none"
              \/ pc = "dispatch" /\ flow.at \in {1, 7}
  PROVE  CalmInv'
<1>1. /\ client.waits = g /\ flow.pc = "sent" /\ flow.at \in 1..9
      /\ \A h \in Threads : h # g => thread[h].pc = "rest"
  BY CalmThread
<1>2. /\ client' = client /\ thread'[g].pc = pc
      /\ \A h \in Threads : h # g => thread'[h].pc = "rest"
  BY <1>1, ContinuesFacts
<1>3. g # None /\ flow.ok
  BY <1>1 DEF CalmInv
<1>4. Now' = Plan[flow.at]
  BY DEF Now
<1>5. \A p \in {1, 2, 3, 7, 8, 9} : Unsent(p)' => request'[Plan[p].req].event = "none"
  BY <1>1 DEF Unsent, CalmRequests
<1> QED BY <1>1, <1>2, <1>3, <1>4, <1>5 DEF CalmInv, CalmRequests, Waits

\* The thread answers as expected.
LEMMA CalmAnswers ==
  ASSUME GatewayTypeOK, WorkflowTypeOK, ThreadInv, RunInv, CalmInv, ~trouble, trouble' = trouble,
         flow' = flow, NEW g \in Threads, thread[g].pc # "rest",
         NEW answer \in Heard, Replies(g, answer), CalmRequests,
         \/ /\ answer \in Plan[flow.at].good
            /\ flow.at = 3 => /\ request'[Update].event = "APPROVAL" /\ request'[Update].content = Proper
                              /\ request'[Update].approval \in {"pending", "approved"}
            /\ flow.at = 5 => request'[Update].approval = "consumed"
         \/ answer = "APPROVAL" /\ flow.at = 5 /\ request'[Update].approval \in {"pending", "approved"}
  PROVE  CalmInv'
<1>1. /\ client.waits = g /\ flow.pc = "sent" /\ flow.at \in 1..9
      /\ \A h \in Threads : h # g => thread[h].pc = "rest"
  BY CalmThread
<1>2. /\ client'.waits = None /\ client'.answer = answer
      /\ \A h \in Threads : thread'[h].pc = "rest"
  BY <1>1, AnswerFacts DEF Resting
<1>3. flow.ok
  BY DEF CalmInv
<1>4. Now' = Plan[flow.at]
  BY DEF Now
<1>5. \A p \in {1, 2, 3, 7, 8, 9} : Unsent(p)' => request'[Plan[p].req].event = "none"
  BY <1>1 DEF Unsent, CalmRequests
<1> QED BY <1>1, <1>2, <1>3, <1>4, <1>5 DEF CalmInv, CalmRequests, Waits

\* A step of the thread, while nothing goes wrong.
LEMMA CalmServe ==
  ASSUME GatewayTypeOK, WorkflowTypeOK, ThreadInv, RunInv, CalmInv, flow' = flow,
         NEW g \in Threads, Serve(g)
  PROVE  CalmInv'
<1> DEFINE r == Plan[flow.at].req
<1> SUFFICES ASSUME ~trouble' PROVE CalmInv'
  BY DEF CalmInv
<1>1. /\ ~trouble /\ trouble' = trouble
      /\ ~Refuse(g) /\ ~Withdraw(g) /\ ~DispatchFails(g) /\ ~Drop(g)
  <2>1. trouble \in BOOLEAN /\ trouble' \in BOOLEAN
    BY ServeTypes DEF GatewayTypeOK
  <2>2. trouble' = trouble \/ trouble' = TRUE
    BY DEF Serve, Refuse, Lookup, Decide, Mismatch, Resubmit, Withdraw, Run, DispatchFails, Drop
  <2>3. ~Refuse(g) /\ ~Withdraw(g) /\ ~DispatchFails(g) /\ ~Drop(g)
    BY DEF Refuse, Withdraw, DispatchFails, Drop
  <2> QED BY <2>1, <2>2, <2>3
<1>2. thread[g].pc # "rest"
  BY ServeCases
<1>3. /\ client.waits = g /\ g # None /\ flow.pc = "sent" /\ flow.at \in 1..9
      /\ thread[g].req = r /\ thread[g].content = Plan[flow.at].content
  BY <1>1, <1>2, CalmThread
<1>4. /\ r \in Requests /\ request \in [Requests -> RequestRow] /\ request[r] \in RequestRow
      /\ r = Update <=> flow.at \in {3, 4, 5, 6}
      /\ Update \in Requests
      /\ \A p \in {1, 2, 3, 7, 8, 9} : Plan[p].req \in Requests /\ (flow.at < p => Plan[p].req # r)
  BY <1>3, PlanIds, WorkflowConstants DEF GatewayTypeOK, RequestRow, MyRequests
<1>5. IF flow.at \in {4, 5, 6}
      THEN \/ thread[g].pc = "arrived" /\ (flow.at = 5 => request[Update].approval \in {"pending", "approved"})
           \/ thread[g].pc = "dispatch" /\ flow.at = 5 /\ request[Update].approval = "consumed"
      ELSE \/ thread[g].pc \in {"arrived", "decide"} /\ request[r].event = "none"
           \/ thread[g].pc = "dispatch" /\ flow.at \in {1, 7}
  BY <1>1, <1>3 DEF CalmInv, Waits, Now
<1>6. /\ \A p \in {1, 2, 3, 7, 8, 9} : flow.at < p => request[Plan[p].req].event = "none"
      /\ flow.at > 3 => request[Update].event = "APPROVAL" /\ request[Update].content = Proper
      /\ flow.at = 4 => request[Update].approval \in {"pending", "approved"}
      /\ flow.at > 5 => request[Update].approval = "consumed"
  BY <1>1, <1>3 DEF CalmInv, Waits, Unsent
<1>7. ASSUME NEW row, request' = [request EXCEPT ![r] = row], flow.at \notin {3, 4, 5, 6}
      PROVE  CalmRequests
  BY <1>4, <1>6, <1>7 DEF CalmRequests
<1>8. request' = request => CalmRequests
  BY <1>6 DEF CalmRequests
<1>9. /\ flow.at = 1 => r = Read /\ Plan[flow.at].good = {"RAN"}
      /\ flow.at = 2 => r = Delete /\ Plan[flow.at].good = {"BLOCK"}
      /\ flow.at = 3 => Plan[flow.at].good = {"APPROVAL"} /\ Plan[flow.at].content = Proper
      /\ flow.at = 4 => Plan[flow.at].good = NotRun /\ Plan[flow.at].content = Forged
      /\ flow.at = 5 => Plan[flow.at].good = {"RAN"} /\ Plan[flow.at].content = Proper
      /\ flow.at = 6 => Plan[flow.at].good = NotRun /\ Plan[flow.at].content = Proper
      /\ flow.at = 7 => r = Extract /\ Plan[flow.at].good = Answers
      /\ flow.at = 8 => r = Foreign /\ Plan[flow.at].good = {"FORBIDDEN"}
      /\ flow.at = 9 => r = Denied /\ Plan[flow.at].good = {"BLOCK"}
  BY PlanRequests, PlanContents, PlanGood
<1>10. /\ "DENIED" \in NotRun /\ "APPROVAL" \in NotRun /\ "RAN" \in Answers
       /\ "DENIED" \in Heard /\ "APPROVAL" \in Heard /\ "RAN" \in Heard
       /\ "BLOCK" \in Heard /\ "FORBIDDEN" \in Heard
  BY DEF NotRun, Answers, Heard
<1> HIDE DEF r
<1>11. CASE Lookup(g)
  <2>1. /\ request[r].event = "none" /\ GoesTo(g, "decide") /\ request' = request
        /\ flow.at \notin {4, 5, 6}
    <3>1. request[r].event = "none" /\ request' = request
      BY <1>3, <1>11 DEF Lookup
    <3>2. flow.at \notin {4, 5, 6}
      BY <1>3, <1>4, <1>6, <3>1
    <3>3. GoesTo(g, "decide")
      BY <1>11, Handlers
    <3> QED BY <3>1, <3>2, <3>3
  <2>2. request'[Plan[flow.at].req].event = "none" /\ CalmRequests
    BY <1>8, <2>1 DEF r
  <2> QED BY <1>1, <1>2, <2>1, <2>2, CalmGoes
<1>12. ASSUME NEW decision \in {"ALLOW", "APPROVAL", "BLOCK", "FORBIDDEN"}, Decide(g, decision)
       PROVE  CalmInv'
  <2> DEFINE row == [event |-> decision, content |-> thread[g].content,
                     approval |-> IF decision = "APPROVAL" THEN "pending" ELSE "none"]
  <2>1. /\ decision \in DecisionOf[r] /\ flow.at \notin {4, 5, 6} /\ request[r].event = "none"
        /\ request' = IF decision = "FORBIDDEN" THEN request ELSE [request EXCEPT ![r] = row]
        /\ IF decision = "ALLOW" THEN GoesTo(g, "dispatch") ELSE Replies(g, decision)
    BY <1>3, <1>5, <1>12, Handlers DEF Decide
  <2>2. flow.at # 3 => CalmRequests
    <3> HIDE DEF row
    <3> QED BY <1>3, <1>7, <1>8, <2>1
  <2>3. CASE flow.at = 3
    <3>1. r = Update /\ decision = "APPROVAL" /\ thread[g].content = Proper
      BY <1>3, <1>4, <1>9, <2>1, <2>3, Decisions
    <3>2. /\ request'[Update] = row /\ row.event = "APPROVAL" /\ row.content = Proper
          /\ row.approval = "pending"
      BY <1>4, <2>1, <3>1
    <3> HIDE DEF row
    <3>3. CalmRequests
      <4>1. ASSUME NEW p \in {1, 2, 3, 7, 8, 9}, flow.at < p PROVE request'[Plan[p].req].event = "none"
        BY <1>4, <1>6, <2>1, <3>1, <4>1
      <4> QED BY <2>3, <4>1 DEF CalmRequests
    <3>4. Replies(g, "APPROVAL") /\ "APPROVAL" \in Plan[flow.at].good
      BY <1>9, <2>1, <2>3, <3>1
    <3> QED BY <1>1, <1>2, <1>10, <2>3, <3>2, <3>3, <3>4, CalmAnswers
  <2>4. CASE flow.at \in {1, 7}
    <3>1. decision = "ALLOW" /\ GoesTo(g, "dispatch")
      BY <1>9, <2>1, <2>4, Decisions
    <3> QED BY <1>1, <1>2, <2>2, <2>4, <3>1, CalmGoes
  <2>5. CASE flow.at \in {2, 8, 9}
    <3>1. decision \in Plan[flow.at].good /\ decision \in Heard /\ Replies(g, decision)
      BY <1>9, <1>10, <2>1, <2>5, Decisions
    <3> QED BY <1>1, <1>2, <2>2, <2>5, <3>1, CalmAnswers
  <2> QED BY <1>3, <2>1, <2>3, <2>4, <2>5
<1>13. CASE Mismatch(g)
  <2>1. /\ thread[g].pc = "arrived" /\ request[r].event # "none" /\ request[r].content # thread[g].content
        /\ Replies(g, "DENIED") /\ request' = request
    BY <1>3, <1>13, Handlers DEF Mismatch, SameContent
  <2>2. flow.at = 4
    BY <1>3, <1>4, <1>5, <1>6, <1>9, <2>1
  <2> QED BY <1>1, <1>2, <1>8, <1>9, <1>10, <2>1, <2>2, CalmAnswers
<1>14. CASE Resubmit(g)
  <2>1. /\ thread[g].pc = "arrived" /\ request[r].event # "none" /\ request[r].content = thread[g].content
        /\ IF Redeemable(r)
           THEN request' = [request EXCEPT ![r].approval = "consumed"] /\ GoesTo(g, "dispatch")
           ELSE Replies(g, request[r].event) /\ request' = request
    BY <1>3, <1>14, Handlers DEF Resubmit, SameContent
  <2>2. flow.at \in {5, 6} /\ r = Update
    BY <1>3, <1>4, <1>5, <1>6, <1>9, <2>1, WorkflowConstants
  <2>3. CASE Redeemable(r)
    <3>1. flow.at = 5 /\ request' = [request EXCEPT ![r].approval = "consumed"] /\ GoesTo(g, "dispatch")
      BY <1>6, <2>1, <2>2, <2>3 DEF Redeemable
    <3>2. /\ request'[Update].approval = "consumed" /\ request'[Update].event = request[Update].event
          /\ request'[Update].content = request[Update].content
          /\ \A q \in Requests : q # r => request'[q] = request[q]
      BY <1>4, <2>2, <3>1 DEF RequestRow
    <3>3. CalmRequests
      <4>1. ASSUME NEW p \in {1, 2, 3, 7, 8, 9}, flow.at < p PROVE request'[Plan[p].req].event = "none"
        BY <1>4, <1>6, <3>2, <4>1
      <4> QED BY <1>6, <3>1, <3>2, <4>1 DEF CalmRequests
    <3> QED BY <1>1, <1>2, <3>1, <3>2, <3>3, CalmGoes
  <2>4. CASE ~Redeemable(r)
    <3>1. Replies(g, "APPROVAL") /\ request' = request
      BY <1>6, <2>1, <2>2, <2>4
    <3>2. flow.at = 5 => request[Update].approval \in {"pending", "approved"}
      BY <1>5, <2>1
    <3> QED BY <1>1, <1>2, <1>8, <1>9, <1>10, <2>2, <3>1, <3>2, CalmAnswers
  <2> QED BY <2>3, <2>4
<1>15. CASE Run(g)
  <2>1. thread[g].pc = "dispatch" /\ request' = request /\ Replies(g, "RAN")
    BY <1>1, <1>15, Handlers DEF Run
  <2>2. /\ flow.at \in {1, 5, 7} /\ (flow.at = 5 => request[Update].approval = "consumed")
        /\ "RAN" \in Plan[flow.at].good
    BY <1>5, <1>9, <1>10, <2>1
  <2> QED BY <1>1, <1>2, <1>8, <1>10, <2>1, <2>2, CalmAnswers
<1> QED BY <1>1, <1>11, <1>12, <1>13, <1>14, <1>15 DEF Serve

\* An operator's verdict, while nothing goes wrong.
LEMMA CalmOutside ==
  ASSUME GatewayTypeOK, WorkflowTypeOK, RunInv, CalmInv, flow' = flow, Outside
  PROVE  CalmInv'
<1> SUFFICES ASSUME ~trouble' PROVE CalmInv'
  BY DEF CalmInv
<1>1. /\ Update \in Requests /\ flow \in FlowRow
      /\ \A p \in {1, 2, 3, 7, 8, 9} : Plan[p].req \in Requests
      /\ flow.pc = "sent" => flow.at \in 1..9 /\ Now.req \in Requests
  BY FlowTypes, PlanIds, WorkflowConstants DEF MyRequests, Now, RunInv, FlowRow
<1>2. ~trouble
  BY <1>1, OutsideRow
<1>3. /\ \A q \in Requests : request'[q].event = request[q].event /\ request'[q].content = request[q].content
      /\ UNCHANGED <<runs, thread, client>> /\ Now' = Now
  BY OutsideRow, OutsideRequest DEF Now
<1>4. /\ Waits({"pending", "approved"}) => Waits({"pending", "approved"})'
      /\ Waits({"consumed"}) => Waits({"consumed"})'
  BY <1>1, OutsideRow DEF Waits
<1>5. \A p \in {1, 2, 3, 7, 8, 9} : Unsent(p)' => request'[Plan[p].req].event = "none"
  BY <1>1, <1>2, <1>3 DEF CalmInv, Unsent
<1>6. flow.at > 3 => request'[Update].event = "APPROVAL" /\ request'[Update].content = Proper
  BY <1>1, <1>2, <1>3 DEF CalmInv
<1>7. ASSUME flow.pc = "sent", client.waits # None
      PROVE  LET pc == thread[client.waits].pc IN
             IF flow.at \in {4, 5, 6}
             THEN \/ pc = "arrived" /\ (flow.at = 5 => Waits({"pending", "approved"})')
                  \/ pc = "dispatch" /\ flow.at = 5 /\ Waits({"consumed"})'
             ELSE \/ pc \in {"arrived", "decide"} /\ request'[Now.req].event = "none"
                  \/ pc = "dispatch" /\ flow.at \in {1, 7}
  BY <1>1, <1>2, <1>3, <1>4, <1>7 DEF CalmInv
<1>8. ASSUME flow.pc = "sent", client.waits = None
      PROVE  \/ client.answer \in Now.good
                /\ (flow.at = 3 => /\ request'[Update].event = "APPROVAL"
                                   /\ request'[Update].content = Proper
                                   /\ Waits({"pending", "approved"})')
                /\ (flow.at = 5 => Waits({"consumed"})')
             \/ client.answer = "APPROVAL" /\ flow.at = 5 /\ Waits({"pending", "approved"})'
  BY <1>1, <1>2, <1>3, <1>4, <1>8 DEF CalmInv
<1>9. /\ flow.ok /\ \A g \in Threads : thread[g].pc # "rest" => g = client.waits
      /\ flow.at = 4 \/ (flow.at = 5 /\ flow.pc # "sent") => Waits({"pending", "approved"})'
      /\ flow.at > 5 => Waits({"consumed"})'
  BY <1>2, <1>4 DEF CalmInv
<1> HIDE DEF Waits
<1> QED BY <1>3, <1>5, <1>6, <1>7, <1>8, <1>9 DEF CalmInv

\* The three invariants of the run under every step that is not the program's own.
LEMMA WorkflowGateway ==
  ASSUME GatewayTypeOK, WorkflowTypeOK, ThreadInv, RunInv, EarnedInv, CalmInv, flow' = flow,
         \/ \E g \in Threads : Serve(g)
         \/ LoseAnswer
         \/ Outside
  PROVE  GatewayTypeOK' /\ ThreadInv' /\ RunInv' /\ EarnedInv' /\ CalmInv'
<1>1. Effect
  BY ServeEffect, LoseEffect, OutsideEffect
<1>2. GatewayTypeOK' /\ ThreadInv' /\ RunInv' /\ EarnedInv'
  BY <1>1, EffectKeeps DEF Effect
<1>3. CASE LoseAnswer
  BY <1>2, <1>3 DEF LoseAnswer, CalmInv
<1> QED BY <1>2, <1>3, CalmServe, CalmOutside

\* The program sends the call it is at, of which nothing is under way.
LEMMA SendKeeps ==
  ASSUME GatewayTypeOK, WorkflowTypeOK, ThreadInv, RunInv, EarnedInv, CalmInv, SendCall
  PROVE  GatewayTypeOK' /\ ThreadInv' /\ WorkflowTypeOK' /\ RunInv' /\ EarnedInv' /\ CalmInv'
<1> DEFINE r == Plan[flow.at].req
           content == Plan[flow.at].content
<1>1. /\ flow \in FlowRow /\ flow.pc = "ready" /\ flow.at \in 1..9 /\ flow.left \in 0..Deadline
      /\ client.waits = None /\ flow.verdict = "none"
  BY FlowTypes DEF SendCall, FlowRow, RunInv, Quiet
<1>2. /\ r \in Requests /\ content \in Contents /\ (r = Read <=> flow.at = 1)
      /\ (r = Update <=> flow.at \in {3, 4, 5, 6}) /\ Now = Plan[flow.at]
      /\ Read \in Requests /\ Update \in Requests /\ \A q \in MyRequests : q \in Requests
  BY <1>1, PlanIds, WorkflowConstants DEF Now, MyRequests
<1>3. Post(r, content)
  BY <1>2 DEF SendCall
<1>4. /\ flow' \in FlowRow /\ flow'.pc = "sent" /\ flow'.at = flow.at /\ flow'.ok = flow.ok
      /\ flow'.verdict = flow.verdict
  <2>1. Now.name = "granted" => flow.left - 1 \in 0..Deadline
    BY <1>1, WorkflowConstants DEF SendCall
  <2>2. PICK left \in 0..Deadline : flow' = [flow EXCEPT !.pc = "sent", !.left = left]
    BY <1>1, <2>1 DEF SendCall, OnePollLess
  <2> QED BY <1>1, <2>2 DEF FlowRow
<1>5. /\ GatewayTypeOK' /\ ThreadInv' /\ client'.answer = "none"
      /\ request' = request /\ runs' = runs /\ trouble' = trouble
      /\ \E g \in Threads : /\ client'.waits = g /\ thread[g].pc = "rest"
                            /\ thread'[g] = [pc |-> "arrived", req |-> r, content |-> content, approval |-> FALSE]
                            /\ \A h \in Threads : h # g => thread'[h] = thread[h]
  BY <1>2, <1>3, PostFacts
<1>6. PICK g \in Threads : /\ client'.waits = g /\ thread[g].pc = "rest"
                           /\ thread'[g] = [pc |-> "arrived", req |-> r, content |-> content, approval |-> FALSE]
                           /\ \A h \in Threads : h # g => thread'[h] = thread[h]
  BY <1>5
<1>7. /\ thread'[g].pc = "arrived" /\ thread'[g].req = r /\ thread'[g].content = content
      /\ Now' = Plan[flow.at]
  BY <1>4, <1>6 DEF Now
<1>8. \A q, h : h \in Threads /\ Serves(h, q)' => (h = g /\ q = r) \/ (h # g /\ Serves(h, q))
  BY <1>6, <1>7 DEF Serves
<1> HIDE DEF r, content
<1>9. RunInv'
  BY <1>1, <1>4, <1>5, <1>6, <1>7, FlowTypes DEF RunInv, r, content
<1>10. EarnedInv'
  <2>1. \A q \in MyRequests : GrantInv(q)'
    <3>1. \A q \in MyRequests : GrantInv(q)
      BY DEF EarnedInv
    <3> QED BY <1>2, <1>3, <3>1, PostGrant
  <2>2. OnceInv(Read)' /\ ~Unsent(1)'
    <3>1. r = Read => Untouched(Read)
      BY <1>1, <1>2 DEF EarnedInv, Unsent
    <3> QED BY <1>1, <1>2, <1>4, <1>5, <1>8, <3>1 DEF EarnedInv, OnceInv, Untouched, Unsent
  <2>3. Unsent(3)' => request'[Update].event = "none" /\ \A h \in Threads : ~Serves(h, Update)'
    <3>1. Unsent(3)' => Unsent(3) /\ r # Update
      BY <1>1, <1>2, <1>4 DEF Unsent
    <3> QED BY <1>5, <1>8, <3>1 DEF EarnedInv
  <2>4. flow.at =< 3 =>
          /\ \A h \in Threads : Serves(h, Update)' => thread'[h].content = Proper
          /\ request'[Update].event # "none" => request'[Update].content = Proper
    <3>1. flow.at = 3 => content = Proper
      BY PlanContents DEF content
    <3> QED BY <1>1, <1>2, <1>5, <1>6, <1>7, <1>8, <3>1 DEF EarnedInv
  <2> QED BY <1>4, <1>5, <2>1, <2>2, <2>3, <2>4 DEF EarnedInv
<1>11. CalmInv'
  <2> SUFFICES ASSUME ~trouble PROVE CalmInv'
    BY <1>5 DEF CalmInv
  <2>1. flow.ok /\ \A h \in Threads : thread'[h].pc # "rest" => h = g
    BY <1>1, <1>6 DEF CalmInv
  <2>2. \A p \in {1, 2, 3, 7, 8, 9} : /\ Unsent(p)' => request[Plan[p].req].event = "none"
                                      /\ flow.at = p => request[r].event = "none"
    BY <1>1, <1>4 DEF CalmInv, Unsent, r
  <2>3. /\ flow.at > 3 => request[Update].event = "APPROVAL" /\ request[Update].content = Proper
        /\ flow.at \in {4, 5} => Waits({"pending", "approved"})'
        /\ flow.at > 5 => Waits({"consumed"})'
    BY <1>1, <1>5 DEF CalmInv, Waits
  <2>4. g # None /\ Now'.req = r
    BY <1>7 DEF r
  <2>5. flow.at \notin {4, 5, 6} => request'[r].event = "none"
    BY <1>1, <1>5, <2>2
  <2> HIDE DEF Waits
  <2> QED BY <1>4, <1>5, <1>6, <1>7, <2>1, <2>2, <2>3, <2>4, <2>5 DEF CalmInv
<1> QED BY <1>4, <1>5, <1>9, <1>10, <1>11, FlowTypes

LEMMA CheckedFacts ==
  ASSUME flow \in FlowRow, flow.at \in 1..9, NEW ok \in BOOLEAN, flow' = Checked(ok)
  PROVE  /\ flow' \in FlowRow /\ flow'.pc = "ready" /\ flow'.at = flow.at + 1
         /\ flow'.ok = (flow.ok /\ ok) /\ flow'.verdict = flow.verdict
<1>1. flow.at + 1 \in 1..10 /\ (flow.ok /\ ok) \in BOOLEAN
  BY DEF FlowRow
<1> QED BY <1>1 DEF Checked, FlowRow

\* The program goes on to its next call.
LEMMA CheckedKeeps ==
  ASSUME GatewayTypeOK, WorkflowTypeOK, ThreadInv, RunInv, EarnedInv, CalmInv,
         flow.pc \in {"ready", "sent"}, flow.at \in 1..9, NEW ok \in BOOLEAN, flow' = Checked(ok),
         UNCHANGED <<request, runs, thread>>,
         client.waits = None, client' = Quiet,
         ok => /\ flow.at = 1 => runs[Read] # 0
               /\ flow.at = 3 => request[Update].event # "none"
               /\ flow.at = 5 => runs[Update] # 0,
         ~trouble' => /\ ~trouble /\ ok
                      /\ flow.at = 3 => /\ request[Update].event = "APPROVAL"
                                        /\ request[Update].content = Proper
                                        /\ Waits({"pending", "approved"})
                      /\ flow.at = 5 => Waits({"consumed"})
  PROVE  WorkflowTypeOK' /\ RunInv' /\ EarnedInv' /\ CalmInv'
<1>1. /\ flow \in FlowRow /\ flow.at \in Nat /\ flow' \in FlowRow /\ flow'.pc = "ready"
      /\ flow'.at = flow.at + 1 /\ flow'.ok = (flow.ok /\ ok) /\ flow'.verdict = flow.verdict
      /\ client'.waits = None /\ client'.answer = "none"
  BY FlowTypes, CheckedFacts DEF Quiet
<1>2. RunInv'
  BY <1>1 DEF RunInv
<1>3. \A p \in 1..9 : Unsent(p)' => Unsent(p) /\ flow.at < p
  BY <1>1 DEF Unsent
<1>4. EarnedInv'
  <2>1. \A q \in MyRequests : GrantInv(q)'
    <3>1. \A q \in MyRequests : GrantInv(q)
      BY DEF EarnedInv
    <3>2. \A q \in MyRequests : GrantInv(q)' <=> GrantInv(q)
      BY DEF GrantInv, Dispatches
    <3> QED BY <3>1, <3>2
  <2>2. OnceInv(Read)' /\ ~Unsent(1)'
    <3>1. OnceInv(Read)
      BY DEF EarnedInv
    <3> QED BY <1>1, <3>1 DEF OnceInv, Serves, Unsent
  <2>3. Unsent(3)' => request'[Update].event = "none" /\ \A h \in Threads : ~Serves(h, Update)'
    BY <1>3 DEF EarnedInv, Serves
  <2>4. flow'.at =< 3 =>
          /\ \A h \in Threads : Serves(h, Update)' => thread'[h].content = Proper
          /\ request'[Update].event # "none" => request'[Update].content = Proper
    BY <1>1 DEF EarnedInv, Serves
  <2>5. flow'.ok =>
          /\ flow'.at > 1 => runs[Read] # 0
          /\ flow'.at > 3 => request[Update].event # "none" /\ request[Update].content = Proper
          /\ flow'.at > 5 => runs[Update] # 0
    <3>1. flow.ok => /\ flow.at > 1 => runs[Read] # 0
                     /\ flow.at > 3 => request[Update].event # "none" /\ request[Update].content = Proper
                     /\ flow.at > 5 => runs[Update] # 0
      BY DEF EarnedInv
    <3>2. flow.at = 3 /\ request[Update].event # "none" => request[Update].content = Proper
      BY DEF EarnedInv
    <3>3. flow'.ok => flow.ok /\ ok
      BY <1>1
    <3>4. /\ flow'.at > 1 => flow.at = 1 \/ flow.at > 1
          /\ flow'.at > 3 => flow.at = 3 \/ flow.at > 3
          /\ flow'.at > 5 => flow.at = 5 \/ flow.at > 5
      BY <1>1
    <3> QED BY <3>1, <3>2, <3>3, <3>4
  <2> QED BY <1>1, <2>1, <2>2, <2>3, <2>4, <2>5 DEF EarnedInv
<1>5. CalmInv'
  <2> SUFFICES ASSUME ~trouble' PROVE CalmInv'
    BY DEF CalmInv
  <2>1. flow'.ok /\ \A h \in Threads : thread'[h].pc = "rest"
    BY <1>1 DEF CalmInv
  <2>2. \A p \in {1, 2, 3, 7, 8, 9} : Unsent(p)' => request'[Plan[p].req].event = "none"
    BY <1>3 DEF CalmInv
  <2>3. /\ flow'.at > 3 => request'[Update].event = "APPROVAL" /\ request'[Update].content = Proper
        /\ flow'.at \in {4, 5} => Waits({"pending", "approved"})'
        /\ flow'.at > 5 => Waits({"consumed"})'
    BY <1>1 DEF CalmInv, Waits
  <2> HIDE DEF Waits
  <2> QED BY <1>1, <2>1, <2>2, <2>3 DEF CalmInv
<1> QED BY <1>1, <1>2, <1>4, <1>5, FlowTypes

\* The answer to the call settles it, or the program polls on.
LEMMA TakeKeeps ==
  ASSUME GatewayTypeOK, WorkflowTypeOK, ThreadInv, RunInv, EarnedInv, CalmInv, TakeReply
  PROVE  GatewayTypeOK' /\ ThreadInv' /\ WorkflowTypeOK' /\ RunInv' /\ EarnedInv' /\ CalmInv'
<1>1. /\ flow \in FlowRow /\ flow.pc = "sent" /\ flow.at \in 1..9 /\ client.answer # "none"
      /\ client \in ClientRow
      /\ UNCHANGED <<request, runs, thread, trouble>> /\ client' = Quiet
  <2>1. flow.pc = "sent" /\ flow \in FlowRow /\ flow.at =< 9
    BY FlowTypes DEF TakeReply, RunInv
  <2>2. flow.at \in 1..9
    BY <2>1 DEF FlowRow
  <2> QED BY <2>1, <2>2, RowTypes DEF TakeReply
<1>2. client.waits = None
  BY <1>1 DEF ThreadInv
<1>3. client'.waits = None /\ client'.answer = "none"
  BY <1>1 DEF Quiet
<1>4. GatewayTypeOK' /\ ThreadInv'
  BY <1>1 DEF GatewayTypeOK, ThreadInv, Quiet
<1>5. Now = Plan[flow.at] /\ (Now.name = "granted" <=> flow.at = 5)
  BY <1>1, PlanIds DEF Now
<1>6. /\ client.answer = "RAN" => runs[Now.req] # 0
      /\ client.answer = "APPROVAL" => request[Now.req].event # "none"
  BY <1>1 DEF EarnedInv
<1>7. /\ flow.at = 1 => Now.req = Read /\ Now.good = {"RAN"}
      /\ flow.at = 3 => Now.req = Update /\ Now.good = {"APPROVAL"}
      /\ flow.at = 5 => Now.req = Update /\ Now.good = {"RAN"}
  BY <1>5, PlanRequests, PlanGood
<1>8. ~trouble =>
        \/ client.answer \in Now.good
           /\ (flow.at = 3 => /\ request[Update].event = "APPROVAL"
                              /\ request[Update].content = Proper
                              /\ Waits({"pending", "approved"}))
           /\ (flow.at = 5 => Waits({"consumed"}))
        \/ client.answer = "APPROVAL" /\ flow.at = 5 /\ Waits({"pending", "approved"})
  BY <1>1, <1>2 DEF CalmInv
<1>9. CASE ~(Now.name = "granted" /\ ~Settles(client.answer))
  <2>1. flow' = Checked(client.answer \in Now.good)
    BY <1>9 DEF TakeReply, Expected
  <2>2. PICK ok \in BOOLEAN : (ok <=> client.answer \in Now.good) /\ flow' = Checked(ok)
    <3>1. CASE client.answer \in Now.good
      <4>1. flow' = Checked(TRUE)
        BY <2>1, <3>1 DEF Checked
      <4> QED BY <3>1, <4>1
    <3>2. CASE client.answer \notin Now.good
      <4>1. flow' = Checked(FALSE)
        BY <2>1, <3>2 DEF Checked
      <4> QED BY <3>2, <4>1
    <3> QED BY <3>1, <3>2
  <2>3. ok => /\ flow.at = 1 => runs[Read] # 0
              /\ flow.at = 3 => request[Update].event # "none"
              /\ flow.at = 5 => runs[Update] # 0
    BY <1>6, <1>7, <2>2
  <2>4. flow.at = 5 => client.answer # "APPROVAL"
    BY <1>5, <1>9 DEF Settles
  <2>5. ~trouble' => /\ ~trouble /\ ok
                     /\ flow.at = 3 => /\ request[Update].event = "APPROVAL"
                                       /\ request[Update].content = Proper
                                       /\ Waits({"pending", "approved"})
                     /\ flow.at = 5 => Waits({"consumed"})
    BY <1>1, <1>8, <2>2, <2>4
  <2> QED BY <1>1, <1>2, <1>3, <1>4, <2>2, <2>3, <2>5, CheckedKeeps
<1>10. CASE Now.name = "granted" /\ ~Settles(client.answer)
  <2>1. flow' = [flow EXCEPT !.pc = "ready"] /\ flow.at = 5
    BY <1>5, <1>10 DEF TakeReply
  <2>2. /\ flow' \in FlowRow /\ flow'.pc = "ready" /\ flow'.at = 5 /\ flow'.ok = flow.ok
        /\ flow'.verdict = flow.verdict
    BY <1>1, <2>1 DEF FlowRow
  <2>3. RunInv'
    BY <1>1, <1>3, <2>2 DEF RunInv
  <2>4. ~Unsent(1)' /\ ~Unsent(3)' /\ \A p \in {7, 8, 9} : Unsent(p)
    BY <2>1, <2>2 DEF Unsent
  <2>5. EarnedInv'
    <3>1. \A q \in MyRequests : GrantInv(q)'
      <4>1. \A q \in MyRequests : GrantInv(q)
        BY DEF EarnedInv
      <4>2. \A q \in MyRequests : GrantInv(q)' <=> GrantInv(q)
        BY <1>1 DEF GrantInv, Dispatches
      <4> QED BY <4>1, <4>2
    <3>2. OnceInv(Read)'
      <4>1. OnceInv(Read)
        BY DEF EarnedInv
      <4> QED BY <1>1, <4>1 DEF OnceInv, Serves
    <3>3. flow.ok => /\ flow.at > 1 => runs[Read] # 0
                     /\ flow.at > 3 => request[Update].event # "none" /\ request[Update].content = Proper
                     /\ flow.at > 5 => runs[Update] # 0
      BY DEF EarnedInv
    <3> QED BY <1>1, <2>1, <2>2, <2>4, <3>1, <3>2, <3>3 DEF EarnedInv
  <2>6. CalmInv'
    <3> SUFFICES ASSUME ~trouble PROVE CalmInv'
      BY <1>1 DEF CalmInv
    <3>1. Waits({"pending", "approved"})
      BY <1>7, <1>8, <1>10, <2>1 DEF Settles
    <3>2. flow.ok /\ (\A h \in Threads : thread'[h].pc = "rest")
      BY <1>1, <1>2 DEF CalmInv
    <3>3. request'[Update].event = "APPROVAL" /\ request'[Update].content = Proper
      BY <1>1, <2>1 DEF CalmInv
    <3>4. \A p \in {7, 8, 9} : request'[Plan[p].req].event = "none"
      BY <1>1, <2>4 DEF CalmInv
    <3>5. \A p \in {1, 2, 3, 7, 8, 9} : Unsent(p)' => p \in {7, 8, 9}
      BY <2>2 DEF Unsent
    <3>6. Waits({"pending", "approved"})'
      BY <1>1, <3>1 DEF Waits
    <3> HIDE DEF Waits
    <3> QED BY <2>2, <3>2, <3>3, <3>4, <3>5, <3>6 DEF CalmInv
  <2> QED BY <1>4, <2>2, <2>3, <2>5, <2>6, FlowTypes
<1> QED BY <1>9, <1>10

\* A step of the run alone, by which it does not go to another call.
LEMMA RunAlone ==
  ASSUME EarnedInv, CalmInv, UNCHANGED gatewayVars, flow.pc # "sent", flow'.pc # "sent",
         flow'.at = flow.at, flow'.ok = flow.ok
  PROVE  EarnedInv' /\ CalmInv'
<1>1. \A p \in 1..9 : Unsent(p)' <=> Unsent(p)
  BY DEF Unsent
<1>2. UNCHANGED <<request, runs, thread, client, trouble>>
  BY DEF gatewayVars
<1>3. EarnedInv'
  <2>1. \A q \in MyRequests : GrantInv(q)'
    <3>1. \A q \in MyRequests : GrantInv(q)
      BY DEF EarnedInv
    <3>2. \A q \in MyRequests : GrantInv(q)' <=> GrantInv(q)
      BY <1>2 DEF GrantInv, Dispatches
    <3> QED BY <3>1, <3>2
  <2> QED BY <1>1, <1>2, <2>1 DEF EarnedInv, OnceInv, Untouched, Serves
<1>4. CalmInv'
  <2>1. \A p \in {1, 2, 3, 7, 8, 9} : Unsent(p)' => Unsent(p)
    BY <1>1
  <2> QED BY <1>2, <2>1 DEF CalmInv, Waits
<1> QED BY <1>3, <1>4

\* Every step of the program.
LEMMA WorkflowStepKeeps ==
  ASSUME GatewayTypeOK, WorkflowTypeOK, ThreadInv, RunInv, EarnedInv, CalmInv, WorkflowStep
  PROVE  /\ GatewayTypeOK' /\ ThreadInv' /\ WorkflowTypeOK' /\ RunInv' /\ EarnedInv' /\ CalmInv'
         /\ flow.pc # "off" /\ flow'.pc # "off"
<1>0. flow \in FlowRow /\ flow.at \in 1..10
  BY FlowTypes DEF FlowRow
<1>1. flow.pc # "off" /\ flow'.pc # "off"
  <2>1. flow.pc \in {"ready", "sent"}
    BY DEF WorkflowStep, SendCall, TakeReply, DeadlinePasses, SkipForeign, Conclude
  <2>2. flow'.pc \in {"ready", "sent", "done"}
    BY <1>0 DEF WorkflowStep, SendCall, TakeReply, DeadlinePasses, SkipForeign, Conclude, Checked, FlowRow
  <2> QED BY <2>1, <2>2
<1>2. CASE DeadlinePasses
  <2>1. /\ flow.pc = "ready" /\ flow.at \in 1..9 /\ flow.at = 5 /\ flow' = Checked(FALSE)
        /\ UNCHANGED <<request, runs, thread, client>> /\ FALSE \in BOOLEAN
        /\ trouble' = (trouble \/ request[Update].approval \in {"pending", "approved"})
    <3>1. flow.at \in 1..9 /\ Plan[flow.at].name = "granted"
      BY <1>0, <1>2, FlowTypes DEF DeadlinePasses, Now
    <3> QED BY <1>2, <3>1, PlanIds DEF DeadlinePasses
  <2>2. client = Quiet /\ client.waits = None
    BY <2>1 DEF RunInv, Quiet
  <2>3. trouble' = TRUE
    <3>1. trouble \in BOOLEAN
      BY DEF GatewayTypeOK
    <3>2. ~trouble => Waits({"pending", "approved"})
      BY <2>1 DEF CalmInv
    <3> QED BY <2>1, <3>1, <3>2 DEF Waits
  <2>4. GatewayTypeOK' /\ ThreadInv'
    BY <2>1, <2>3 DEF GatewayTypeOK, ThreadInv
  <2>5. WorkflowTypeOK' /\ RunInv' /\ EarnedInv' /\ CalmInv'
    BY <2>1, <2>2, <2>3, CheckedKeeps
  <2> QED BY <1>1, <2>4, <2>5
<1>3. CASE SkipForeign
  <2>1. /\ flow.pc = "ready" /\ flow.at \in 1..9 /\ flow.at = 8 /\ flow' = Checked(TRUE)
        /\ UNCHANGED <<request, runs, thread, client, trouble>>
    <3>1. flow.at \in 1..9 /\ Plan[flow.at].name = "foreign"
      BY <1>0, <1>3, FlowTypes DEF SkipForeign, Now
    <3> QED BY <1>3, <3>1, PlanIds DEF SkipForeign, gatewayVars
  <2>2. client = Quiet /\ client.waits = None
    BY <2>1 DEF RunInv, Quiet
  <2>3. GatewayTypeOK' /\ ThreadInv'
    BY <2>1 DEF GatewayTypeOK, ThreadInv
  <2>4. PICK ok \in BOOLEAN : ok /\ flow' = Checked(ok)
    BY <2>1
  <2>5. /\ flow.pc \in {"ready", "sent"} /\ flow.at \in 1..9 /\ UNCHANGED <<request, runs, thread>>
        /\ client' = Quiet
        /\ flow.at # 1 /\ flow.at # 3 /\ flow.at # 5 /\ trouble' = trouble
    BY <2>1, <2>2
  <2>6. WorkflowTypeOK' /\ RunInv' /\ EarnedInv' /\ CalmInv'
    BY <2>2, <2>4, <2>5, CheckedKeeps
  <2> QED BY <1>1, <2>3, <2>6
<1>4. CASE Conclude
  <2>1. /\ flow.pc = "ready" /\ flow.at > Len(Plan) /\ UNCHANGED gatewayVars
        /\ flow' = [flow EXCEPT !.pc = "done", !.verdict = IF flow.ok THEN "PASS" ELSE "FAIL"]
    BY <1>4 DEF Conclude
  <2>2. /\ flow' \in FlowRow /\ flow'.pc = "done" /\ flow'.at = flow.at /\ flow'.ok = flow.ok
        /\ flow'.verdict = IF flow.ok THEN "PASS" ELSE "FAIL"
    BY <1>0, <2>1 DEF FlowRow
  <2>3. RunInv'
    BY <2>1, <2>2, FlowTypes DEF RunInv, gatewayVars
  <2>4. GatewayTypeOK' /\ ThreadInv'
    BY <2>1 DEF GatewayTypeOK, ThreadInv, gatewayVars
  <2> QED BY <1>1, <2>1, <2>2, <2>3, <2>4, FlowTypes, RunAlone
<1> QED BY <1>1, <1>2, <1>3, <1>4, SendKeeps, TakeKeeps DEF WorkflowStep

-----------------------------------------------------------------------------
(***************************************************************************)
(* The two programs together.                                              *)
(***************************************************************************)

LEMMA InitPrograms == Init => IInv
<1> SUFFICES ASSUME Init PROVE IInv
  OBVIOUS
<1>1. /\ request = [r \in Requests |-> NoRequest] /\ runs = [r \in Requests |-> 0]
      /\ thread = [g \in Threads |-> Resting] /\ client = Quiet
      /\ trouble = FALSE
  BY DEF Init, GatewayInit
<1>2. GatewayTypeOK
  BY <1>1 DEF GatewayTypeOK, NoRequest, Resting, Quiet
<1>3. ThreadInv
  BY <1>1 DEF ThreadInv, Resting, Quiet
<1>4. WorkflowTypeOK
  <2>1. flow = [pc |-> "off", at |-> 1, left |-> Deadline, ok |-> TRUE, verdict |-> "none"]
    BY DEF Init, WorkflowInit
  <2>2. Deadline \in 0..Deadline
    BY WorkflowConstants
  <2>3. flow \in FlowRow
    BY <2>1, <2>2 DEF FlowRow
  <2> QED BY <2>3, FlowTypes
<1>5. LoopTypeOK
  <2>1. /\ loop = [pc |-> "off", turn |-> 0, tries |-> 0, calls |-> 0, index |-> 0, left |-> 0]
        /\ told = [r \in Requests |-> "none"] /\ noted = {}
    BY DEF Init, LoopInit
  <2>2. 0 \in 0..MaxTurns /\ 0 \in 0..MaxRetries /\ 0 \in 0..Patience
    BY LoopBounds
  <2>3. loop \in LoopRow
    BY <2>1, <2>2, PlacesType DEF LoopRow
  <2> QED BY <2>1, <2>3, LoopTypes
<1>6. flow.pc = "off" /\ flow.at = 1 /\ flow.ok = TRUE /\ flow.verdict = "none"
  BY DEF Init, WorkflowInit
<1>7. RunInv
  BY <1>1, <1>6 DEF RunInv, Quiet
<1>8. \A g \in Threads : thread[g].pc = "rest"
  BY <1>1 DEF Resting
<1>9. /\ \A r \in Requests : /\ request[r].event = "none" /\ request[r].approval = "none"
                             /\ runs[r] = 0
      /\ \A r \in MyRequests : r \in Requests
      /\ Read \in Requests /\ Update \in Requests
  BY <1>1, WorkflowConstants DEF NoRequest, MyRequests
<1>10. EarnedInv
  BY <1>6, <1>8, <1>9 DEF EarnedInv, GrantInv, OnceInv, Untouched, Serves, Dispatches
<1>11. CalmInv
  <2>1. \A p \in {1, 2, 3, 7, 8, 9} : request[Plan[p].req].event = "none"
    BY <1>9, PlanIds
  <2> QED BY <1>6, <1>8, <2>1 DEF CalmInv
<1>12. loop.pc = "off"
  BY DEF Init, LoopInit
<1> QED BY <1>2, <1>3, <1>4, <1>5, <1>7, <1>10, <1>11, <1>12 DEF IInv, TypeOK, Init

\* Before a program is started, nothing moves.
LEMMA NothingMoves ==
  ASSUME GatewayInit
  PROVE  ~Outside /\ ~LoseAnswer /\ \A g \in Threads : ~Serve(g)
<1>1. /\ \A r \in Requests : request[r].approval = "none"
      /\ client.waits = None /\ \A g \in Threads : thread[g].pc = "rest"
  BY DEF GatewayInit, NoRequest, Resting, Quiet
<1> QED BY <1>1 DEF Outside, Lapse, Review, LoseAnswer, Serve, Refuse, Lookup, Decide, Mismatch,
                    Resubmit, Withdraw, Run, DispatchFails, Drop

\* The email agent is started.
LEMMA StartLoopKeeps ==
  ASSUME GatewayTypeOK, GatewayInit, LoopInit, StartLoop
  PROVE  LoopTypeOK' /\ LoopInv' /\ loop'.pc # "off"
<1>1. /\ loop = [pc |-> "off", turn |-> 0, tries |-> 0, calls |-> 0, index |-> 0, left |-> 0]
      /\ loop' = [loop EXCEPT !.pc = "model", !.turn = 1]
      /\ told = [r \in Requests |-> "none"] /\ told' = told /\ UNCHANGED gatewayVars
      /\ noted = {} /\ noted' = noted
  BY DEF LoopInit, StartLoop
<1>2. loop' = [pc |-> "model", turn |-> 1, tries |-> 0, calls |-> 0, index |-> 0, left |-> 0]
  BY <1>1
<1>3. 1 \in 1..MaxTurns /\ 1 \in 0..MaxTurns /\ 0 \in 0..MaxRetries /\ 0 \in 0..Patience
  BY LoopBounds
<1>4. LoopTypeOK'
  <2>1. loop' \in LoopRow
    BY <1>2, <1>3, PlacesType DEF LoopRow
  <2> QED BY <1>1, <2>1, LoopTypes
<1>5. /\ loop'.pc = "model" /\ loop'.turn = 1 /\ loop'.index = 0
      /\ \A r \in Requests : told'[r] = "none" /\ r \notin noted'
  BY <1>1, <1>2
<1>6. PositionInv'
  <2>1. \A i \in 1..MaxTurns : \A j \in DOMAIN RequestOf[i] : told'[RequestOf[i][j]] = "none"
    BY <1>5, IndexType
  <2> QED BY <1>3, <1>5, <2>1 DEF PositionInv
<1>7. /\ client' = Quiet
      /\ \A g \in Threads : thread'[g].pc = "rest"
      /\ \A r \in Requests : runs'[r] = 0
  BY <1>1 DEF GatewayInit, Resting, gatewayVars
<1>8. AnswerInv'
  BY <1>5, <1>7 DEF AnswerInv
<1>9. \A r \in Requests : OnceInv(r)' /\ ToldInv(r)'
  BY <1>5, <1>7 DEF OnceInv, ToldInv, Untouched, Serves
<1> QED BY <1>4, <1>5, <1>6, <1>8, <1>9 DEF LoopInv

\* The harness starts the reference agent.
LEMMA StartWorkflowKeeps ==
  ASSUME WorkflowTypeOK, RunInv, EarnedInv, CalmInv, StartWorkflow
  PROVE  WorkflowTypeOK' /\ RunInv' /\ EarnedInv' /\ CalmInv' /\ flow'.pc # "off"
<1>1. /\ flow \in FlowRow /\ flow.pc = "off" /\ flow' = [flow EXCEPT !.pc = "ready"]
      /\ UNCHANGED gatewayVars
  BY FlowTypes DEF StartWorkflow
<1>2. /\ flow' \in FlowRow /\ flow'.pc = "ready" /\ flow'.at = flow.at /\ flow'.ok = flow.ok
      /\ flow'.verdict = flow.verdict
  BY <1>1 DEF FlowRow
<1>3. RunInv'
  BY <1>1, <1>2 DEF RunInv, gatewayVars
<1> QED BY <1>1, <1>2, <1>3, FlowTypes, RunAlone

LEMMA StepPrograms == IInv /\ [Next]_vars => IInv'
<1> SUFFICES ASSUME IInv, [Next]_vars PROVE IInv'
  OBVIOUS
<1>1. /\ GatewayTypeOK /\ LoopTypeOK /\ WorkflowTypeOK /\ ThreadInv
      /\ loop.pc = "off" => LoopInit /\ RunInv /\ EarnedInv /\ CalmInv
      /\ loop.pc # "off" => WorkflowInit /\ LoopInv
      /\ loop.pc = "off" /\ flow.pc = "off" => GatewayInit /\ WorkflowInit
  BY DEF IInv, TypeOK
<1>2. WorkflowInit => flow.pc = "off"
  BY DEF WorkflowInit
<1>3. CASE UNCHANGED vars
  <2>1. UNCHANGED <<request, runs, thread, client, trouble, loop, told, noted, flow>>
    BY <1>3 DEF vars, gatewayVars, loopVars
  <2>2. TypeOK' /\ ThreadInv'
    BY <1>1, <2>1 DEF TypeOK, GatewayTypeOK, LoopTypeOK, WorkflowTypeOK, ThreadInv
  <2>3. loop.pc = "off" => LoopInit' /\ RunInv'
    BY <1>1, <2>1 DEF LoopInit, RunInv, Now
  <2>4. loop.pc = "off" => EarnedInv' /\ CalmInv'
    <3> SUFFICES ASSUME loop.pc = "off" PROVE EarnedInv' /\ CalmInv'
      OBVIOUS
    <3>1. EarnedInv /\ CalmInv
      BY <1>1
    <3>2. \A q \in MyRequests : GrantInv(q)' <=> GrantInv(q)
      BY <2>1 DEF GrantInv, Dispatches
    <3>3. Now' = Now /\ \A p : Unsent(p)' <=> Unsent(p)
      BY <2>1 DEF Now, Unsent
    <3>4. EarnedInv'
      BY <2>1, <3>1, <3>2, <3>3 DEF EarnedInv, OnceInv, Untouched, Serves
    <3>5. CalmInv'
      BY <2>1, <3>1, <3>3 DEF CalmInv, Waits
    <3> QED BY <3>4, <3>5
  <2>5. loop.pc # "off" => WorkflowInit' /\ LoopInv'
    <3>1. loop.pc # "off" => LoopInv'
      BY <1>1, <2>1, LoopGateway
    <3> QED BY <1>1, <2>1, <3>1 DEF WorkflowInit
  <2>6. loop.pc = "off" /\ flow.pc = "off" => GatewayInit' /\ WorkflowInit'
    BY <1>1, <2>1 DEF GatewayInit, WorkflowInit
  <2> QED BY <2>1, <2>2, <2>3, <2>4, <2>5, <2>6 DEF IInv
<1>4. ASSUME loop' = loop, told' = told, noted' = noted, flow' = flow,
             Outside \/ (\E g \in Threads : Serve(g)) \/ LoseAnswer
      PROVE  IInv'
  <2>1. LoopTypeOK' /\ WorkflowTypeOK'
    BY <1>1, <1>4 DEF LoopTypeOK, WorkflowTypeOK
  <2>2. CASE loop.pc # "off"
    <3>1. GatewayTypeOK' /\ ThreadInv'
      BY <1>1, <1>4, ServeTypes, LoseTypes, OutsideTypes
    <3>2. Outside => UNCHANGED <<runs, thread, client>>
      BY <1>1, OutsideRequest
    <3>3. LoopInv'
      BY <1>1, <1>4, <2>2, <3>2, LoopGateway
    <3>4. WorkflowInit'
      BY <1>1, <1>4, <2>2 DEF WorkflowInit
    <3> QED BY <1>4, <2>1, <2>2, <3>1, <3>3, <3>4 DEF IInv, TypeOK
  <2>3. CASE loop.pc = "off"
    <3>1. flow.pc # "off"
      BY <1>1, <1>4, <2>3, NothingMoves
    <3>2. GatewayTypeOK' /\ ThreadInv' /\ RunInv' /\ EarnedInv' /\ CalmInv'
      BY <1>1, <1>4, <2>3, WorkflowGateway
    <3>3. LoopInit'
      BY <1>1, <1>4, <2>3 DEF LoopInit
    <3> QED BY <1>4, <2>1, <2>3, <3>1, <3>2, <3>3 DEF IInv, TypeOK
  <2> QED BY <2>2, <2>3
<1>5. CASE Outside /\ UNCHANGED <<loopVars, flow>>
  BY <1>4, <1>5 DEF loopVars
<1>6. CASE HumanApproves /\ UNCHANGED loopVars
  <2>1. Update \in Requests
    BY WorkflowConstants DEF MyRequests
  <2>2. Outside
    BY <1>6, <2>1 DEF HumanApproves, Outside
  <2> QED BY <1>4, <1>6, <2>2 DEF HumanApproves, loopVars
<1>7. CASE (\E g \in Threads : Served(g)) \/ TimesOut
  BY <1>4, <1>7 DEF Served, TimesOut, loopVars
<1>8. CASE Start
  <2>1. GatewayInit /\ LoopInit /\ RunInv /\ EarnedInv /\ CalmInv
    BY <1>1, <1>8 DEF Start
  <2>2. UNCHANGED gatewayVars
    BY <1>8 DEF Start, StartLoop, StartWorkflow
  <2>3. GatewayTypeOK' /\ ThreadInv'
    BY <1>1, <2>2, GatewayKept
  <2>4. CASE StartLoop /\ UNCHANGED flow
    <3>1. LoopTypeOK' /\ LoopInv' /\ loop'.pc # "off"
      BY <1>1, <2>1, <2>4, StartLoopKeeps
    <3>2. WorkflowTypeOK' /\ WorkflowInit'
      <4>1. WorkflowInit
        BY <1>1, <1>8 DEF Start
      <4> QED BY <1>1, <2>4, <4>1 DEF WorkflowTypeOK, WorkflowInit
    <3> QED BY <2>3, <3>1, <3>2 DEF IInv, TypeOK
  <2>5. CASE StartWorkflow /\ UNCHANGED loopVars
    <3>1. WorkflowTypeOK' /\ RunInv' /\ EarnedInv' /\ CalmInv' /\ flow'.pc # "off"
      BY <1>1, <2>1, <2>5, StartWorkflowKeeps
    <3>2. LoopTypeOK' /\ LoopInit' /\ loop'.pc = "off"
      BY <1>1, <1>8, <2>1, <2>5 DEF LoopTypeOK, LoopInit, loopVars, Start
    <3> QED BY <2>3, <3>1, <3>2 DEF IInv, TypeOK
  <2> QED BY <1>8, <2>4, <2>5 DEF Start
<1>9. CASE LoopStep /\ UNCHANGED flow
  <2>1. loop.pc # "off"
    BY <1>9 DEF LoopStep, ModelFails, ModelEnds, UnknownTool, Submit, TakeAnswer, Poll, TakePoll,
                StopWaiting, ModelCalls
  <2>2. GatewayTypeOK' /\ ThreadInv' /\ LoopTypeOK' /\ LoopInv' /\ loop'.pc # "off"
    BY <1>1, <1>9, <2>1, LoopStepKeeps
  <2>3. WorkflowTypeOK' /\ WorkflowInit'
    BY <1>1, <1>9, <2>1 DEF WorkflowTypeOK, WorkflowInit
  <2> QED BY <2>2, <2>3 DEF IInv, TypeOK
<1>10. CASE WorkflowStep /\ UNCHANGED loopVars
  <2>1. flow.pc # "off"
    BY <1>10 DEF WorkflowStep, SendCall, TakeReply, DeadlinePasses, SkipForeign, Conclude
  <2>2. loop.pc = "off"
    BY <1>1, <1>2, <2>1
  <2>3. /\ GatewayTypeOK' /\ ThreadInv' /\ WorkflowTypeOK' /\ RunInv' /\ EarnedInv' /\ CalmInv'
        /\ flow'.pc # "off"
    BY <1>1, <1>10, <2>2, WorkflowStepKeeps
  <2>4. LoopTypeOK' /\ LoopInit' /\ loop'.pc = "off"
    BY <1>1, <1>10, <2>2 DEF LoopTypeOK, LoopInit, loopVars
  <2> QED BY <2>3, <2>4 DEF IInv, TypeOK
<1> QED BY <1>3, <1>5, <1>6, <1>7, <1>8, <1>9, <1>10 DEF Next, Proceed

\* The inductive invariant of an agent that runs either program.
THEOREM AgentInvariant == Spec => []IInv
<1>1. Init => IInv
  BY InitPrograms
<1>2. IInv /\ [Next]_vars => IInv'
  BY StepPrograms
<1> QED BY <1>1, <1>2, PTL DEF Spec

\* Gateway and programs keep their types, whatever the rules decide and however many
\* turns, retries and polls there are.
THEOREM AgentTypes == Spec => []TypeOK
<1>1. IInv => TypeOK
  BY DEF IInv
<1> QED BY <1>1, AgentInvariant, PTL

\* What the email agent tells its model of a request is true when it is told and stays so:
\* what is said to have run ran once, what is said to await approval or to be blocked has
\* not run, and no thread is left that could belie it.  The note that a request has not
\* happened is true of each request of which it is not also told that it ran.
THEOREM ToldTheTruth == Spec => []ToldTruly
<1>1. IInv => ToldTruly
  <2> SUFFICES ASSUME IInv, NEW r \in Requests
               PROVE  /\ told[r] = "RAN" => runs[r] = 1
                      /\ told[r] \in {"APPROVAL", "BLOCK"} => runs[r] = 0
                      /\ r \in noted /\ told[r] # "RAN" => runs[r] = 0
    BY DEF ToldTruly
  <2>1. CASE loop.pc = "off"
    <3>1. told[r] = "none" /\ r \notin noted
      BY <2>1 DEF IInv, LoopInit
    <3> QED BY <3>1
  <2>2. CASE loop.pc # "off"
    <3>1. ToldInv(r)
      BY <2>2 DEF IInv, LoopInv
    <3> QED BY <3>1 DEF ToldInv, Untouched
  <2> QED BY <2>1, <2>2
<1> QED BY <1>1, AgentInvariant, PTL

\* A PASS of the reference workflow is earned, whatever was lost on the way: the read and
\* the update ran once, the update by its approval and with the payload that was approved,
\* and neither the deletion, nor the foreign execution, nor the denied field ran.
THEOREM EarnedPass == Spec => []PassIsEarned
<1>1. IInv => PassIsEarned
  <2> SUFFICES ASSUME IInv, flow.verdict = "PASS"
               PROVE  /\ runs[Read] = 1 /\ runs[Update] = 1
                      /\ request[Update].content = Proper /\ request[Update].approval = "consumed"
                      /\ \A r \in {Delete, Foreign, Denied} : runs[r] = 0
    BY DEF PassIsEarned
  <2>1. loop.pc = "off"
    BY DEF IInv, WorkflowInit
  <2>2. WorkflowTypeOK /\ RunInv /\ EarnedInv
    BY <2>1 DEF IInv, TypeOK
  <2>3. flow.at > 9 /\ flow.ok
    BY <2>2, FlowTypes DEF RunInv
  <2>4. flow.at \in 1..10
    BY <2>2, FlowTypes DEF FlowRow
  <2>5. runs[Read] # 0 /\ request[Update].content = Proper /\ runs[Update] # 0
    BY <2>2, <2>3, <2>4 DEF EarnedInv
  <2>6. runs[Read] = 1
    BY <2>2, <2>5 DEF EarnedInv, OnceInv
  <2>7. runs[Update] = 1 /\ request[Update].approval = "consumed"
    <3>1. GrantInv(Update)
      BY <2>2 DEF EarnedInv, MyRequests
    <3>2. "ALLOW" \notin DecisionOf[Update]
      BY Decisions
    <3> QED BY <2>5, <3>1, <3>2 DEF GrantInv
  <2>8. ASSUME NEW r \in {Delete, Foreign, Denied} PROVE runs[r] = 0
    <3>1. GrantInv(r)
      BY <2>2 DEF EarnedInv, MyRequests
    <3>2. "ALLOW" \notin DecisionOf[r] /\ "APPROVAL" \notin DecisionOf[r]
      BY Decisions
    <3> QED BY <3>1, <3>2 DEF GrantInv
  <2> QED BY <2>5, <2>6, <2>7, <2>8
<1> QED BY <1>1, AgentInvariant, PTL

\* A FAIL of the reference workflow has a cause: something was lost, refused, expired or
\* withdrawn, or no human decided in time.  The order of events alone brings none about.
THEOREM CausedFailure == Spec => []FailsForCause
<1>1. IInv => FailsForCause
  <2> SUFFICES ASSUME IInv, flow.verdict = "FAIL" PROVE trouble
    BY DEF FailsForCause
  <2>1. loop.pc = "off"
    BY DEF IInv, WorkflowInit
  <2>2. RunInv /\ CalmInv
    BY <2>1 DEF IInv
  <2>3. ~flow.ok
    BY <2>2 DEF RunInv
  <2> QED BY <2>2, <2>3 DEF CalmInv
<1> QED BY <1>1, AgentInvariant, PTL
=============================================================================
