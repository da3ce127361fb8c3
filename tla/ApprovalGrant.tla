--------------------------- MODULE ApprovalGrant ---------------------------
(***************************************************************************)
(* One human approval as a single-use execution authority: the approval    *)
(* rows, the operators who review them, the gateway threads that queue and *)
(* redeem them, and the contract they are bound to.                        *)
(*                                                                         *)
(* Every handler runs in its own thread with its own database session.     *)
(* SQLite in pysqlite's default mode gives each SELECT the latest          *)
(* committed state and takes the single write lock at the first            *)
(* INSERT/UPDATE, until commit or rollback.  A row a handler has loaded    *)
(* keeps its attributes until the session commits, so each handler below   *)
(* carries the row it read in its own record.                              *)
(*                                                                         *)
(* What a request is for (kind, action, scope, destination, payload) is    *)
(* one member of Contents; an agent's contract is its version, 0 for none. *)
(***************************************************************************)
EXTENDS Integers, Sequences

CONSTANTS
    Requests,     \* the authorization requests whose decision was APPROVAL
    Redeemers,    \* gateway threads handling a re-submitted request
    Operators,    \* control-plane threads handling POST /approvals/{id}/decide
    Contents,     \* what a request may ask for
    MaxVersion,   \* bound: how many contract versions there are
    MaxTime,      \* bound: the last instant of the clock
    TTL,          \* config.APPROVAL_TTL_SECONDS
    None          \* SQL NULL, and the holder of a free write lock

NoContract == 0
Versions   == 1..MaxVersion
Statuses   == {"pending", "approved", "denied"}

ASSUME ConstantsAssumption ==
    /\ MaxVersion \in Nat /\ MaxTime \in Nat /\ TTL \in Nat \ {0}
    /\ None \notin Requests /\ None \notin Redeemers
    /\ None \notin Contents /\ None \notin Nat

VARIABLES
    approval,  \* approval[r]: the row of the approvals table for request r
    decision,  \* decision[r]: events.decision of r's original event
    runs,      \* the "<r>:approved" ALLOW events, in commit order
    active,    \* version of the agent's ACTIVE contract, NoContract if none
    now,       \* the clock
    origin,    \* origin[r]: the gateway thread that first authorized r
    redeemer,  \* redeemer[w]: the state of one redeeming handler
    operator,  \* operator[o]: the state of one deciding handler
    writer,    \* holder of SQLite's write lock between two steps
    approvers  \* history: approvers[r], the operators whose ALLOW was written

vars == <<approval, decision, runs, active, now, origin, redeemer,
          operator, writer, approvers>>

(***************************************************************************)
(* The grant's checks.                                                     *)
(***************************************************************************)

\* Faulty variants, each a plausible slip in the check it is named after.
PayloadNotBound(bound, content) == TRUE
ClaimUnconditionally(row) == TRUE
GrantWithoutStatus(row, content, version, t) ==
    row.consumedAt = None /\ t < row.expires /\ row.version = version
NoCheckAtDispatch(version) == TRUE
ConsumerForgotten(row, t, n) == [row EXCEPT !.consumedAt = t]

\* The stored digest against that of the body now submitted.
PayloadMatches(bound, content) == bound = content

Expired(row, t) == t >= row.expires

\* Does this row, as loaded, authorize this exact request now?
EvaluateGrant(row, content, version, t) ==
    /\ row.status = "approved"
    /\ row.consumedAt = None
    /\ ~Expired(row, t)
    /\ PayloadMatches(row.content, content)
    /\ row.version = version

\* The WHERE clause of claim's conditional UPDATE, on the committed row.
Claimable(row) == row.consumedAt = None

\* record_consuming_event, in the transaction of the claim.
ConsumedBy(row, t, n) == [row EXCEPT !.consumedAt = t, !.consumer = n]

\* decide's refusals, on the row the handler loaded, and what it writes.
Decidable(row, verdict, t) ==
    /\ row.status = "pending"
    /\ verdict = "ALLOW" => ~Expired(row, t)

StatusOf(verdict) == IF verdict = "ALLOW" THEN "approved" ELSE "denied"

\* assert_contract_current_for_dispatch, on the version the grant resolved.
CurrentForDispatch(version) == version = active

-----------------------------------------------------------------------------

NoRow == [status |-> "none", content |-> None, version |-> NoContract,
          expires |-> 0, consumedAt |-> None, consumer |-> 0]

IdleRedeemer == [pc |-> "idle", req |-> None, content |-> None, row |-> NoRow,
                 version |-> NoContract, claimedAt |-> 0, run |-> 0]

IdleOperator == [pc |-> "idle", req |-> None, verdict |-> "none"]

Init ==
    /\ approval = [r \in Requests |-> NoRow]
    /\ decision = [r \in Requests |-> "none"]
    /\ runs = <<>>
    /\ active = NoContract
    /\ now = 0
    /\ origin = [r \in Requests |-> [pc |-> "idle", version |-> NoContract]]
    /\ redeemer = [w \in Redeemers |-> IdleRedeemer]
    /\ operator = [o \in Operators |-> IdleOperator]
    /\ writer = None
    /\ approvers = [r \in Requests |-> {}]

(***************************************************************************)
(* The agent's contract and the clock.                                     *)
(***************************************************************************)

\* An operator activates a version, or its validity begins; an agent has one
\* ACTIVE contract at a time.
ActivateContract ==
    /\ writer = None
    /\ active = NoContract
    /\ active' \in Versions
    /\ UNCHANGED <<approval, decision, runs, now, origin, redeemer, operator,
                   writer, approvers>>

\* The contract is revoked or superseded, or its validity ends.
RetireContract ==
    /\ writer = None
    /\ active # NoContract
    /\ active' = NoContract
    /\ UNCHANGED <<approval, decision, runs, now, origin, redeemer,
                   operator, writer, approvers>>

Tick ==
    /\ now < MaxTime
    /\ now' = now + 1
    /\ UNCHANGED <<approval, decision, runs, active, origin, redeemer,
                   operator, writer, approvers>>

(***************************************************************************)
(* The first submission of a request: authorize_request up to the commit   *)
(* of the APPROVAL event, then invoke_tool's gmail access gate.            *)
(***************************************************************************)

\* The contract is resolved; without one the decision is BLOCK.
Authorize(r) ==
    /\ origin[r].pc = "idle"
    /\ active # NoContract
    /\ origin' = [origin EXCEPT ![r] = [pc |-> "authorized", version |-> active]]
    /\ UNCHANGED <<approval, decision, runs, active, now, redeemer,
                   operator, writer, approvers>>

\* The APPROVAL event and the pending row commit together.
QueueApproval(r, c) ==
    /\ origin[r].pc = "authorized"
    /\ writer = None
    /\ decision' = [decision EXCEPT ![r] = "APPROVAL"]
    /\ approval' = [approval EXCEPT ![r] =
                      [status |-> "pending", content |-> c,
                       version |-> origin[r].version, expires |-> now + TTL,
                       consumedAt |-> None, consumer |-> 0]]
    /\ origin' = [origin EXCEPT ![r].pc = "gate"]
    /\ UNCHANGED <<runs, active, now, redeemer, operator, writer,
                   approvers>>

\* The agent has access to the mailbox, or the tool is not gmail.
GatePass(r) ==
    /\ origin[r].pc = "gate"
    /\ origin' = [origin EXCEPT ![r].pc = "done"]
    /\ UNCHANGED <<approval, decision, runs, active, now, redeemer,
                   operator, writer, approvers>>

\* No access: the handler loads the row it queued, to close it if pending.
GateRefuse(r) ==
    /\ origin[r].pc = "gate"
    /\ origin' = [origin EXCEPT ![r].pc =
                     IF approval[r].status = "pending" THEN "deny" ELSE "block"]
    /\ UNCHANGED <<approval, decision, runs, active, now, redeemer,
                   operator, writer, approvers>>

\* Its commit blocks the event, and denies the row it saw pending.
GateCommit(r) ==
    /\ origin[r].pc \in {"deny", "block"}
    /\ writer = None
    /\ decision' = [decision EXCEPT ![r] = "BLOCK"]
    /\ approval' = IF origin[r].pc = "deny"
                   THEN [approval EXCEPT ![r].status = "denied"]
                   ELSE approval
    /\ origin' = [origin EXCEPT ![r].pc = "done"]
    /\ UNCHANGED <<runs, active, now, redeemer, operator, writer,
                   approvers>>

(***************************************************************************)
(* Human review.                                                           *)
(***************************************************************************)

\* decide loads the row and refuses what is reviewed already, or expired.
DecideRead(o, r, verdict) ==
    /\ operator[o].pc = "idle"
    /\ Decidable(approval[r], verdict, now)
    /\ operator' = [operator EXCEPT ![o] =
                      [pc |-> "deciding", req |-> r, verdict |-> verdict]]
    /\ UNCHANGED <<approval, decision, runs, active, now, origin,
                   redeemer, writer, approvers>>

\* Its UPDATE names the row by id only.
DecideWrite(o) ==
    LET r == operator[o].req
        v == operator[o].verdict
    IN  /\ operator[o].pc = "deciding"
        /\ writer = None
        /\ approval' = [approval EXCEPT ![r].status = StatusOf(v)]
        /\ approvers' = [approvers EXCEPT ![r] =
                            IF v = "ALLOW" THEN @ \union {o} ELSE @]
        /\ operator' = [operator EXCEPT ![o] = IdleOperator]
        /\ UNCHANGED <<decision, runs, active, now, origin, redeemer,
                       writer>>

(***************************************************************************)
(* Redemption: the agent submits the request again.                        *)
(***************************************************************************)

\* The stored event and the approval row are loaded; a changed body is 409.
Submit(w, r, c) ==
    /\ redeemer[w].pc = "idle"
    /\ decision[r] = "APPROVAL"
    /\ PayloadMatches(approval[r].content, c)
    /\ redeemer' = [redeemer EXCEPT ![w] =
                      [IdleRedeemer EXCEPT !.pc = "loaded", !.req = r,
                                           !.content = c, !.row = approval[r]]]
    /\ UNCHANGED <<approval, decision, runs, active, now, origin,
                   operator, writer, approvers>>

\* The contract is resolved and the loaded row evaluated against it.
Evaluate(w) ==
    /\ redeemer[w].pc = "loaded"
    /\ redeemer' = [redeemer EXCEPT ![w] =
           IF /\ active # NoContract
              /\ EvaluateGrant(@.row, @.content, active, now)
           THEN [@ EXCEPT !.pc = "granted", !.version = active]
           ELSE IdleRedeemer]
    /\ UNCHANGED <<approval, decision, runs, active, now, origin,
                   operator, writer, approvers>>

\* The conditional UPDATE takes the write lock and matches the row, ...
ClaimWin(w) ==
    /\ redeemer[w].pc = "granted"
    /\ writer = None
    /\ Claimable(approval[redeemer[w].req])
    /\ writer' = w
    /\ redeemer' = [redeemer EXCEPT ![w].pc = "claimed", ![w].claimedAt = now]
    /\ UNCHANGED <<approval, decision, runs, active, now, origin,
                   operator, approvers>>

\* ... or matches nothing, and the loser answers with the stored event.
ClaimLose(w) ==
    /\ redeemer[w].pc = "granted"
    /\ writer = None
    /\ ~Claimable(approval[redeemer[w].req])
    /\ redeemer' = [redeemer EXCEPT ![w] = IdleRedeemer]
    /\ UNCHANGED <<approval, decision, runs, active, now, origin,
                   operator, writer, approvers>>

\* The ALLOW event is sealed and commits with the consumption of the grant.
CommitRun(w) ==
    LET r == redeemer[w].req
    IN  /\ redeemer[w].pc = "claimed"
        /\ runs' = Append(runs, [req |-> r, content |-> redeemer[w].content,
                                 version |-> redeemer[w].version,
                                 state |-> "committed"])
        /\ approval' = [approval EXCEPT ![r] =
                           ConsumedBy(@, redeemer[w].claimedAt, Len(runs) + 1)]
        /\ writer' = None
        /\ redeemer' = [redeemer EXCEPT ![w].pc = "committed",
                                        ![w].run = Len(runs) + 1]
        /\ UNCHANGED <<decision, active, now, origin, operator,
                       approvers>>

\* The gateway checks the contract again: still the one resolved, ...
Clear(w) ==
    /\ redeemer[w].pc = "committed"
    /\ CurrentForDispatch(redeemer[w].version)
    /\ runs' = [runs EXCEPT ![redeemer[w].run].state = "cleared"]
    /\ redeemer' = [redeemer EXCEPT ![w].pc = "cleared"]
    /\ UNCHANGED <<approval, decision, active, now, origin, operator, writer,
                   approvers>>

\* ... or not, and the event is rewritten to BLOCK.
Block(w) ==
    /\ redeemer[w].pc = "committed"
    /\ ~CurrentForDispatch(redeemer[w].version)
    /\ writer = None
    /\ runs' = [runs EXCEPT ![redeemer[w].run].state = "blocked"]
    /\ redeemer' = [redeemer EXCEPT ![w] = IdleRedeemer]
    /\ UNCHANGED <<approval, decision, active, now, origin, operator, writer,
                   approvers>>

\* Before that check, the gmail gate rewrites the event of an agent that has
\* lost its mailbox.
MailboxBlock(w) ==
    /\ redeemer[w].pc = "committed"
    /\ writer = None
    /\ runs' = [runs EXCEPT ![redeemer[w].run].state = "blocked"]
    /\ redeemer' = [redeemer EXCEPT ![w] = IdleRedeemer]
    /\ UNCHANGED <<approval, decision, active, now, origin, operator, writer,
                   approvers>>

\* The tool is called; the contract may have changed since the check.
Dispatch(w) ==
    /\ redeemer[w].pc = "cleared"
    /\ runs' = [runs EXCEPT ![redeemer[w].run].state = "dispatched"]
    /\ redeemer' = [redeemer EXCEPT ![w] = IdleRedeemer]
    /\ UNCHANGED <<approval, decision, active, now, origin, operator, writer,
                   approvers>>

\* The handler ends early: the write lock times out, the chain does not
\* verify, or the process dies.  What it had not committed is rolled back.
Abandon(w) ==
    /\ redeemer[w].pc # "idle"
    /\ redeemer' = [redeemer EXCEPT ![w] = IdleRedeemer]
    /\ writer' = IF writer = w THEN None ELSE writer
    /\ UNCHANGED <<approval, decision, runs, active, now, origin,
                   operator, approvers>>

-----------------------------------------------------------------------------

Review == \/ \E o \in Operators, r \in Requests, v \in {"ALLOW", "BLOCK"} :
                DecideRead(o, r, v)
          \/ \E o \in Operators : DecideWrite(o)

Originate(r) == \/ Authorize(r)
                \/ \E c \in Contents : QueueApproval(r, c)
                \/ GatePass(r) \/ GateRefuse(r) \/ GateCommit(r)

Redeem(w) == \/ \E r \in Requests, c \in Contents : Submit(w, r, c)
             \/ Evaluate(w) \/ ClaimWin(w) \/ ClaimLose(w) \/ CommitRun(w)
             \/ Clear(w) \/ Block(w) \/ MailboxBlock(w) \/ Dispatch(w)
             \/ Abandon(w)

Next == \/ ActivateContract \/ RetireContract \/ Tick
        \/ Review
        \/ \E r \in Requests : Originate(r)
        \/ \E w \in Redeemers : Redeem(w)

Spec == Init /\ [][Next]_vars

-----------------------------------------------------------------------------

RowType == [status     : Statuses \union {"none"},
            content    : Contents \union {None},
            version    : 0..MaxVersion,
            expires    : Nat,
            consumedAt : Nat \union {None},
            consumer   : Nat]

RunType == [req : Requests, content : Contents, version : 0..MaxVersion,
            state : {"committed", "cleared", "dispatched", "blocked"}]

OriginType == [pc : {"idle", "authorized", "gate", "deny", "block", "done"},
               version : 0..MaxVersion]

RedeemerType ==
    [pc        : {"idle", "loaded", "granted", "claimed", "committed", "cleared"},
     req       : Requests \union {None},
     content   : Contents \union {None},
     row       : RowType,
     version   : 0..MaxVersion,
     claimedAt : Nat,
     run       : Nat]

OperatorType == [pc      : {"idle", "deciding"},
                 req     : Requests \union {None},
                 verdict : {"none", "ALLOW", "BLOCK"}]

\* Every variable keeps its type (models.Approval and the handlers' locals).
TypeOK ==
    /\ approval \in [Requests -> RowType]
    /\ decision \in [Requests -> {"none", "APPROVAL", "BLOCK"}]
    /\ runs \in Seq(RunType)
    /\ active \in 0..MaxVersion
    /\ now \in Nat
    /\ origin \in [Requests -> OriginType]
    /\ redeemer \in [Redeemers -> RedeemerType]
    /\ operator \in [Operators -> OperatorType]
    /\ writer \in Redeemers \union {None}
    /\ approvers \in [Requests -> SUBSET Operators]

\* One approval never authorizes two executions, however many threads redeem
\* it at once (approval_grant.py, claim: "The winner is decided by the
\* database").
SingleUse ==
    \A i, j \in DOMAIN runs : runs[i].req = runs[j].req => i = j

\* The grant and its execution event commit together: a row is consumed
\* exactly when the event it names exists and is its run
\* (approval_grant.py:163-165).
GrantCommitsWithRun ==
    /\ \A r \in Requests :
          approval[r].consumedAt # None =>
              /\ approval[r].consumer \in DOMAIN runs
              /\ runs[approval[r].consumer].req = r
    /\ \A i \in DOMAIN runs :
          /\ approval[runs[i].req].consumedAt # None
          /\ approval[runs[i].req].consumer = i

\* What ran is what a human said yes to: some operator's ALLOW was written for
\* that request, and the run has the content and the contract version the
\* approval row is bound to (enforcement._resume_approved_request).
RunsAsApproved ==
    \A i \in DOMAIN runs :
        /\ approvers[runs[i].req] # {}
        /\ runs[i].content = approval[runs[i].req].content
        /\ runs[i].version = approval[runs[i].req].version

\* An approved run is cleared for the tool only while the contract version in
\* force when the request was queued is in force again or still
\* (approval_grant.py:138-143 with contract_store.py:258-284).
ClearedUnderBoundContract ==
    [][\A i \in DOMAIN runs :
          (runs'[i].state = "cleared" /\ runs[i].state # "cleared")
              => active = approval[runs[i].req].version]_vars

\* The loop implements the single-use grant: review, redemption, the write
\* lock, the clock and every failure map to Ask, Grant, Spend or a stutter.
Grants == INSTANCE SingleUseGrant WITH
    asked   <- {r \in Requests : approval[r].status # "none"},
    granted <- {r \in Requests : approvers[r] # {}},
    spent   <- [i \in DOMAIN runs |-> runs[i].req]

ImplementsSingleUseGrant == Grants!Spec

(***************************************************************************)
(* The inductive strengthening the proofs use.                             *)
(***************************************************************************)

\* A row is "none" until it is queued, is never "approved" without a human,
\* and an event only says APPROVAL once its row exists.
RowsInv ==
    \A r \in Requests :
        /\ origin[r].pc \in {"idle", "authorized"} <=> approval[r].status = "none"
        /\ approval[r].status = "none" => /\ decision[r] # "APPROVAL"
                                          /\ approval[r].consumedAt = None
        /\ approval[r].status # "none" => approval[r].content \in Contents
        /\ approval[r].status = "approved" => approvers[r] # {}

OperatorsInv ==
    \A o \in Operators : operator[o].pc = "deciding" =>
        /\ operator[o].req \in Requests
        /\ operator[o].verdict \in {"ALLOW", "BLOCK"}
        /\ approval[operator[o].req].status # "none"

\* What a handler carries is still true of the committed row: the binding of
\* a row never changes, a human's yes is never unsaid in approvers, and the
\* lock keeps the claimed row unconsumed until the claimant commits.
HandlerInv(w, d) ==
    d.pc # "idle" =>
        /\ d.req \in Requests
        /\ d.content \in Contents
        /\ approval[d.req].status # "none"
        /\ d.pc = "loaded" =>
              /\ d.row.content = approval[d.req].content
              /\ d.row.version = approval[d.req].version
              /\ d.row.status = "approved" => approvers[d.req] # {}
        /\ d.pc \in {"granted", "claimed"} =>
              /\ d.content = approval[d.req].content
              /\ d.version = approval[d.req].version
              /\ approvers[d.req] # {}
        /\ d.pc = "claimed" => writer = w /\ approval[d.req].consumedAt = None
        /\ d.pc \in {"committed", "cleared"} =>
              /\ d.run \in DOMAIN runs
              /\ runs[d.run].version = d.version

RedeemersInv == \A w \in Redeemers : HandlerInv(w, redeemer[w])

\* SingleUse and ClearedUnderBoundContract follow from this invariant.
IInv == /\ TypeOK
        /\ RowsInv
        /\ OperatorsInv
        /\ RedeemersInv
        /\ GrantCommitsWithRun
        /\ RunsAsApproved
=============================================================================
