# Aegis in TLA+

Aegis is an authorization gateway for AI agents. An agent submits an action; the
gateway decides ALLOW, APPROVAL or BLOCK, seals the decision into a hash chain,
waits for a human where one is needed, and has the action executed by processes
the agent cannot reach. These modules model the parts of the backend whose
correctness depends on the order in which concurrent handlers, processes and
messages act. Paths below are under `src/`; unless a path says otherwise it is
under `src/backend/app/`.

## 1. The system

### Processes and what they share

| Process | Code | State |
|---|---|---|
| control plane | `main.py` and the routers of operators (`approvals`, `contracts`, `agents`, `verification`, `gmail`, `policies`, ...) | the SQLite database |
| enforcement gateway | `routers/gateway.py`, `routers/authorize.py`, `routers/agentctl.py`, `engines/` | the same database file (`docker-compose.yml` 43, 85) |
| credential broker | `routers/broker.py`, `replay.py`, `eat.py` | the replay store, in memory |
| protected tool, Gmail connector | `routers/tool.py`, `protected/` | the CRM's data; a token cache, in memory |
| agents | `infra/reference-agent/`, `infra/ai-agent/` | none that lasts |

Handlers are synchronous functions that FastAPI runs in a thread pool, each with
its own database session (`database.py` 94-99). What the models rest on:

- a SELECT sees the latest commit and takes no lock;
- the first INSERT or UPDATE of a transaction takes SQLite's only write lock, until
  commit or rollback;
- an object a session has loaded keeps its attributes until the session commits,
  and is written back by id: `UPDATE ... WHERE id = ?` says nothing of the values
  that were read. This is the source of most of what is interesting here;
- a statement that carries its own condition (`services/approval_grant.py` 168-176,
  `routers/agentctl.py` 82-90), a unique index (`models.py` 335-343, 474-483) or a tip
  compared while the lock is held (`services/evidence_verifier.py` 110) is atomic.

Between gateway, broker and tool there are HTTP calls with timeouts. The caller may
have gone when the work is done.

### Components

| Component | State | Operations | Interacts with | What is hard | What makes it correct |
|---|---|---|---|---|---|
| Approval grant | rows of `approvals` | queue, decide, evaluate, claim, attach the event | evidence chain, contract store | two redeemers, two operators, expiry, crash between claim and commit | one approval authorizes one run, of what was approved |
| Evidence chain | rows of `events`, `executions.evidence_chain_tip` | seal, verify, reseal, reconstruct the trajectory | every decision of the gateway | concurrent appends, a decision withdrawn after commit, repeated request ids | decisions of one execution come out as if made one at a time; the chain verifies |
| Contract store | rows of `runtime_contracts` | store, transition, activate and supersede, resolve, re-check | grant, dispatch | transitions from stale reads, governance that must not lapse, windows | one ACTIVE contract; terminal states are final; nothing runs outside its contract |
| Dispatch | the token, the broker's replay store, `connector_calls` | re-check, sign, send, verify, consume, run, record | contract store, connectors | timeouts that race with late answers, restarts, clocks | a token is used once; the record of what ran is true |
| Verification runs | rows of `verification_runs` | request, cancel, claim, report | agents | two processes write one row; lost calls | a run goes to one runner and ends |
| Decision engines | none (pure), plus reads of history | permission, policy, contract clauses, behaviour, risk | gateway | precedence, limits, boundaries | BLOCK wins; a limit is a limit |
| Agent credentials | rows of `agents`, `credentials` | create, rotate, revoke, authenticate | every agent call | concurrent rotation, a rotation that overlaps a revocation | a revoked agent authenticates nowhere; tokens do not pile up |
| Gmail access | rows of `gmail_grants`, a JSON file, a token cache | grant, revoke, connect, disconnect, evaluate, call | gateway, connector | read-modify-write of a file, caches of another process | a request reaches its own tenant's mailbox, and comes to use the one on record |
| Agent programs | the run of a program | ask the model, call a tool, poll for a human, conclude | gateway | answers that are lost while the work goes on | what is reported of a call is true, and the program ends |
| Policies, resources, capabilities, login, export, simulation, posture | their tables | CRUD, reads | dashboard | little | - |

`PROJECT.json` lists the components with their sources, and under `hazards` what is
hard to test, each at its line with the properties that watch it.

## 2. The modules

Every module but `RuntimeDecision` and `AgentPrograms` models handlers at the grain of their database statements:
one action per statement that another thread can get between, with what the handler has
read so far kept in a record of its own. Statements between which nothing can be
observed are one action.

### ApprovalGrant, refining SingleUseGrant

Code: `services/approval_grant.py`, `routers/approvals.py`, and the parts of
`engines/enforcement.py` and `routers/gateway.py` that queue, resume and dispatch an
approved request. `Authorize`, `QueueApproval`, `GatePass`, `GateRefuse`, `GateCommit`
are the first submission; `DecideRead` and `DecideWrite` an operator's verdict;
`Submit`, `Evaluate`, `ClaimWin`, `ClaimLose`, `CommitRun`, `Clear`, `Block`,
`MailboxBlock`, `Dispatch` the redemption; `Abandon` the rollback of a handler that
fails or dies at any point. `ActivateContract` and `RetireContract` are the
environment the grant is bound to, `Tick` the clock. A request's contents (kind,
action, scope, destination, payload) are one model value.
`SingleUseGrant` is the promise: ask, grant, spend once.

### EvidenceChain, refining SequentialTrail

Code: `authorize_request`, `_resume_approved_request` (`engines/enforcement.py`),
`seal_execution_event`, `reseal_execution_event`, `verify_execution_chain`
(`services/evidence_verifier.py`), `next_seq` and the trajectory (`engines/behavior.py`,
`engines/trajectory.py`), and the gateway's withdrawal of a decision. One action per
read the decision rests on (`Lookup`, `Load`, `Verify`, `ReadTrajectory`, `Decide`,
`Number`), the sealing commit (`Record`, `SealFails`), the resumption, and the two
steps of a reseal. A digest is the sequence of decisions it covers: injective, as
HMAC-SHA256 is taken to be. `SequentialTrail` decides, redeems and withdraws one at a
time.

### ContractStore, refining ContractRegistry

Code: `contract_store.py`, `routers/contracts.py`, `runtime_contract.py` 123-150, and
the gateway's resolution and re-check. Operators insert (`SaveCheck`, `SaveInsert`)
and move a version (`TransitionRead`, `ActivateCheck`, `TransitionWrite`); gateway
threads resolve, evaluate, re-check and finish. The partial unique index is
`IndexAllows`, evaluated when the write happens. `ContractRegistry` has the same
lifecycle in single steps.

### Dispatch

Code: `routers/gateway.py` 197-297, `remote.py`, `eat.py`, `routers/broker.py`,
`replay.py`, `routers/tool.py`, `services/connector_evidence.py`. The gateway's
handler goes through `Allow`/`Refuse`, `Recheck`, `Sign`, then `TimeOut` or the
response, then `Record`; `Crash` may end it anywhere. A delivery is one call at the
broker: `Deliver`, `Verify`, `Reject`, `Consume`, `CallTool`, `ToolRuns`,
`ToolAnswers`, `ToolFails`, `BrokerTimesOut`. A delivery is the gateway's own, or a
second presentation of the same token (`own = FALSE`). `Restart` empties the replay
store.

### VerificationRun

Code: `routers/verification.py`, `routers/agentctl.py`,
`infra/reference-agent/runner.py`. `LookForRun`/`Insert` and `LookToCancel`/`Cancel`
are the two steps of the operators' handlers, `Poll`/`Claim` and `Report`/`Store` those
of the gateway's; `Work` is the scenario; `Refused` and `Lost` are the ways a report
does not arrive, which the runner never notices.

### GmailAccess

Code: `services/gmail_access.py`, `gmail_store.py`, `routers/gmail.py`,
`protected/gmail.py`. Operators' handlers are `Callback` (the OAuth consent),
`LoadToSave`/`Save` and `LoadToDelete`/`Delete` (the file is read whole, changed and
written back whole, so `snap` holds every tenant's record), `ListGrants`/`DropGrants`,
`PickGrant`, and `StartGrant`, `LookForGrant`, `InsertGrant`; each may stop at any point
(`HandlerFails`). The partial unique index on active grants is `IndexAdmits`, evaluated when
the row is inserted; a second row fails there with an IntegrityError that nobody catches
(`GrantConflict`). A request of an agent reads the connection and the grant
(`ReadConnection`, `ReadGrant`), and in the connector's process takes the cached token or
has one made (`TakeCached`, `Reveal`, `Refresh`) before it is served. Tokens age by
`Tick`. A mailbox is a model value; each tenant has accounts of its own to consent for.

### AgentCredential

Code: `routers/agents.py` 34-154 and `get_agent_from_token` (`security.py` 101-127). An
operator's thread reads the agent (`LoadAgent`), then the credentials
(`LoadCredentials`), and commits (`Rotate`, `Revoke`); a call is let in on two reads,
`ReadCredential` and `ReadAgent`. `latest` and `late` are history.

### AgentPrograms: GatewayCalls, AgentLoop, ReferenceWorkflow

Code: `infra/ai-agent/agent.py`, `infra/reference-agent/agent.py` and
`run_reference_workflow.py`. `GatewayCalls` is the gateway as a program meets it: a call
is refused, matched with an earlier decision of its request id, or decided, and then
dispatched, by a thread that goes on when the program has stopped waiting
(`LoseAnswer`). It is coarser than the modules above, which say how each of these steps
is made: here a request id has its first decision, its approval and the number of times
its tool took effect. An answer carries, besides the decision or error, whether it names
an approval: that of a pending request does, that of its redemption too, and that of a
withdrawn redemption (`Reply`, `NamesApproval`). `AgentLoop` is the email agent: model calls with retries
(`ModelFails`), tool calls in order (`Submit`, `TakeAnswer`, `Advanced`), a bounded wait
for a human (`Poll`, `TakePoll`, `StopWaiting`), and what it tells the model: the answer, and the note that `for_model` adds
to every answer that names an approval (`Tell`, `Noted`). `ReferenceWorkflow` is the scripted agent and the harness that provisions it
(`Provisioned`), plays the human (`HumanApproves`) and has it judged: its calls are the
sequence `Plan`, each with the answers that `evaluate` accepts. `AgentPrograms` composes
either with the gateway.

### RuntimeDecision

Code: `engines/permission.py`, `engines/policy.py`, `engines/contract.py`,
`engines/behavior.py`, `engines/trajectory.py`, the decision in `authorize_request` and
`_resume_approved_request` (`engines/enforcement.py`), the gate on the mailbox
(`routers/gateway.py` 174-195), validation of contracts and patterns
(`runtime_contract.py`, `behavior.py`), and `routers/simulate.py`. The engines are
operators over requests, rules and the history of one execution: `Permitted`,
`PolicyDecision`, the five checks of `WithinContract`, `RequiresHuman`,
`PatternMatches`; `Decision` is their precedence and `Simulated` the simulator's own
assembly of them. Here a handler is one step (`Submit`, `Decide`, `Redeem`), since
`EvidenceChain` shows that the decisions of an execution come out as if made one at a
time; operators change permissions, policies, the contract and the mailbox in between.
A glob pattern is the set of values it matches; a contract holding a clause the code
does not know is one flag (`verifiable`). `_evaluate_workflow` follows sets of possible
steps and `_match_sequence` scans greedily: both are written as recursive functions and
compared with declarative definitions, a path (`IsPath`) and an embedding (`Occurs`).

Each `MC*` module instantiates its specification and defines the symmetry sets; each
`.cfg` gives the constants. Next to the definitions that model a decision of the code
stand its faulty variants, named as such: they are not part of any specification and
serve to show that each property can fail.

## 3. What the runs check

| Run | Instance | What it shows |
|---|---|---|
| `approval_grant` | 1 request, 3 redeeming threads, 2 operators, 2 contents, 2 versions, clock to 2, TTL 1 | an approval is spent once, for what was approved, under the contract it was bound to, and commits with its run; refines `SingleUseGrant` |
| `evidence_chain` | 2 threads, 2 ids, `max_calls` 2, 4 events | decisions on a prefix, the limit, what can break a chain and what can be rewritten; refines `SequentialTrail` |
| `contract_store` | 2 operators, 1 gateway, 1 contract, 2 versions | one ACTIVE row, governance does not lapse, clearance under the contract of the decision |
| `dispatch` | fair, 1 request, 2 calls, TTL 1, clock to 2, a restart | use once until expiry, "executed" is true, only ALLOW runs, a revocation before the check stops the request, every dispatch ends |
| `runtime_decision` | 4 requests, 5 contracts (plain, limited, ordered, narrow, unverifiable), 2 policies, 2 patterns, 4 events, 1 change | limits hold across redemptions; what runs follows its workflow, and an execution that left it gets nothing more; the dry run agrees with the gateway; a pattern signals once, where it first occurs |
| `verification_run` | fair, 2 runs, 2 operators, 2 runners | one runner per run, bounded number in flight, pending runs are served, claimed runs end or were abandoned |
| `gmail_access` | fair, 2 tenants, 1 agent, 3 accounts, 2 grant rows, 2 operators, 1 request, tokens of life 1 | calls do not cross tenants, an agent whose grant is revoked has no other left, requests come to use what stays on record |
| `agent_credential` | 4 tokens, 2 operators, 1 call | active tokens are bounded by the threads, a revoked agent is not let in |
| `agent_programs` | fair, 2 gateway threads, 2 turns with 2 and 1 tool calls, 1 retry of the model, 2 polls; the 8 calls of the workflow with 2 polls | what the model is told stays true (but for the note on a call that ran), PASS is earned, FAIL has a cause, a started program ends |

Type correctness, the numbering of the chain (`Numbered`), `ResultMeansClaimed` and the
inductive invariants held on these instances before they were proved; the runs leave
them out, since each is a theorem now. Only `AgentPrograms` keeps its type invariant in
the run, where it says that the email agent takes no turn too many.

**Why the bounds are enough.** Every hazard here is between two actors, or between two
and a clock: two redeemers and an operator, two appenders and a reseal, an activation
and a revocation. The instances have one actor more than the shortest bad trace needs,
and ids, contents and versions enough to be mixed up (two of each where one could be
taken for the other). Clocks run one instant past every deadline, so that each
boundary is met at, before and after. In `runtime_decision` four events are one more than the
longest pattern, path or limit needs, and one change by an operator meets every point of
a history; the policies start all on or all off. `MaxTime`, `MaxVersion`, `MaxEvents`,
`MaxChanges` and `MaxRestarts` bound what the code leaves unbounded; the theorems of section 5 do not
need them to be small. Deadlock is not checked: a bounded instance ends when its
requests are decided or its clock has stopped.

In `contract_store` contracts are not required (`RequireContract = FALSE`), which only adds
behaviours: requests of an agent that never had a contract are let through too. In `gmail_access` a tenant has two accounts, so that it can change its mailbox, and the
other tenant one, which is enough for a mix-up. In `agent_programs` two threads are one
more than a program waits for: one that is left behind, one that serves the next call;
two polls are one that is lost or too early and one that is not.

**Runs that are expected to fail.** Each states what the repository says of itself, and TLC
finds the trace:

| Run | Statement | What happens |
|---|---|---|
| `contract_terminal` | terminal states never return to ACTIVE (`contract_store.py` 297) | an activation overwrites a revocation it did not read |
| `gmail_stale_mailbox` | the live connection is resolved from the store at call time (`models.py` 466) | an operator connects another mailbox; the connector, another process, goes on using the cached token of the first |
| `agent_note` | "This has NOT happened. A human must approve it before it can run." (`infra/ai-agent/agent.py` 112) | the answer to a redemption names its approval, so the note is added to a call that ran |

**Further disagreements** between the code and what is said of it are steps of the
models that no run singles out; where a property says what holds all the same, it is named:

- `claim` tests only `consumed_at`, so a grant that expires, or is denied by a second
  operator, after its evaluation is still consumed (`ClaimWin`), although it "is valid
  only while it is approved, unexpired and unconsumed" (`services/approval_grant.py` 18);
- two operators overwrite each other's verdict (`DecideWrite`, `routers/approvals.py` 58),
  so that what one denied may run, although "denied" "never runs"
  (`docs/PHASE_17_RUNTIME_PROOF.md` 234); what ran had an approval (`RunsAsApproved`);
- a withdrawn decision is rewritten and the chain still verifies
  (`services/evidence_verifier.py` 119), although an intact chain means a record that has
  not been altered (`docs/OPERATOR_GUIDE.md` 153); only withdrawals rewrite
  (`OnlyWithdrawn`);
- two copies of one request id at once both find no event and are both decided
  (`Lookup`; `events.request_id` is not unique), although the id is idempotent
  (`docs/PHASE_13F_FAIL_CLOSED_VALIDATION.md` 81);
- a reseal finds its event last, another event is sealed on the old digest, and the
  chain no longer verifies (`ResealRead`, `ResealCommit`), although concurrent requests
  never commit a wrong previous hash (`docs/PHASE_16B_LOAD_CONCURRENCY.md` section 12);
- an approved request runs although a permission added in the meantime denies it
  (`Redeem`, `engines/enforcement.py` 119-163), although permissions and contract "must
  both agree" (`docs/OPERATOR_GUIDE.md` 75-77);
- the gateway gives up on the broker and records that nothing ran; the tool then takes
  effect (`TimeOut`, `Record`), although `connector_operation` is NULL "when nothing ran"
  (`models.py` 425); a row that says executed is true (`ExecutedMeansRan`);
- a replayed call that was verified before its token's expiry and consumed after it is
  accepted (`routers/broker.py` 152, 179), although a replay is answered with 401
  (`docs/PHASE_13F_FAIL_CLOSED_VALIDATION.md` 74);
- two requests at once put two runs in flight (`routers/verification.py` 110), and a
  running run can be cancelled by a handler that read it while it was pending (`Cancel`),
  both against the names of tests (`test_only_one_run_in_flight_per_agent`,
  `test_pending_run_can_be_cancelled_but_running_cannot`); `OutstandingBound` and
  `OneWorker` say what holds;
- two rotations at once leave two active tokens (`Rotate`), although a rotation "kills
  the old one immediately" (`docs/OPERATOR_GUIDE.md` 80-81); `ActiveBound` says how many;
- connecting another mailbox over the present one keeps the grants of its agents, and so
  does a crash between the two halves of a disconnect, or a grant that found the mailbox
  connected and adds its row after the disconnect (`Callback`, `HandlerFails`,
  `InsertGrant`), although connecting a different mailbox cannot re-arm agents
  (`docs/PHASE_19_GMAIL.md` 301-302);
- writing the connection file back late undoes another tenant's disconnect (`Save`),
  which was to forget the credential entirely (`gmail_store.py` 207); no tenant gets
  another's mailbox (`OwnMailbox`);
- two runs of the email agent that start in one second use the same request ids
  (`infra/ai-agent/agent.py` 455): the second is answered with the decisions of the first.

Three windows are in the models and no statement of the repository excludes them: a
contract revoked after the dispatch check still yields a token (`routers/gateway.py` 221);
a decision that raced with an append is refused as a broken chain
(`engines/enforcement.py` 271), which `docs/PHASE_16B_LOAD_CONCURRENCY.md` 286 describes;
and the gateway may die after the tool ran and before the call is recorded
(`routers/gateway.py` 280).

## 4. Fairness

Safety properties need none. Four specifications assume some:

- `Dispatch!FairSpec`: the steps of a gateway handler and of a broker handler are
  weakly fair, because threads are scheduled and every wait has a timeout
  (`remote.py` 71, `config.REMOTE_TIMEOUT_SECONDS`). Agents, operators, the clock and
  restarts are not assumed to do anything.
- `VerificationRun!FairSpec`: the loop of each runner is weakly fair
  (`infra/reference-agent/runner.py` `main` polls for ever, catching every exception,
  and its container is restarted). Operators need not act. `ClaimedEnds` excludes
  reports that were lost and revoked agents, for which it is false: such a run stays
  RUNNING and blocks further requests, since nothing retries a report and no handler
  expires a run.
- `GmailAccess!FairSpec`: time passes, so cached tokens expire, and a request that was
  begun comes to an end (every wait of gateway and connector has a time-out).
  `MailboxSettles` asks only for what happens when the record stays as it is.
- `AgentPrograms!FairSpec`: the program proceeds when it can, each thread of the gateway
  comes to an end, and so does each wait for an answer (`AEGIS_TIMEOUT`, the time-out of
  `_post`). The human is not assumed to decide anything, nor the model to stop calling
  tools: `ProgramEnds` rests on the program's own bounds.

## 5. What is proved

The `*Proofs` modules are checked by TLAPS and hold for every value of the constants
(any number of threads, operators, requests, runs; any TTL and limit), under each
module's assumption on its constants, which mostly types the constants and keeps `None`
apart from them. `AgentLoop` and `ReferenceWorkflow` assume in addition that the calls of
one run have distinct request ids, which the programs build from execution, turn and index
(`infra/ai-agent/agent.py` 373) or write out one by one
(`infra/reference-agent/agent.py` 273-440), and that each call of the workflow is decided
as the harness provisions it. In `VerificationRun` and `AgentCredential` the set of operator
threads is finite, which the thread pool is.

Each follows one scheme: an inductive invariant (`IInv`; in `AgentCredential`
`CredentialInv`), proved from `Init` and for every action, and the properties as its
consequences.

- **ApprovalGrantProofs.** `SingleUse` is not inductive: one must know that a thread
  between its claim and its commit holds the write lock and that the row it claimed is
  still unconsumed in the database (`RedeemersInv`), and that a consumed row names the
  run it was consumed by (`GrantCommitsWithRun`).
- **EvidenceChainProofs.** The number a handler read bounds the chain from below, and
  the tip it loaded is compared under the lock: together they give gapless numbers and
  decisions on a prefix (`ThreadsInv`). `OwnersInv` gives each withdrawable decision one
  owner, so a resealed event is never one already withdrawn.
- **ContractStoreProofs.** `OneActive` needs only the index; clearance needs what a
  gateway thread carries from resolution to re-check (`GatesInv`). For one operator
  thread the store implements `ContractRegistry`, step by step: with nobody between,
  what was read still holds at the write (`Unraced`).
- **DispatchProofs.** While the broker runs, an unexpired token that was consumed is in
  the store (`SeenInv`), so it is consumed once; a positive answer comes only from a
  delivery that ran (`AnsweredInv`), so a row that says so is true. `RevokedNeverRuns`
  is an action property from the same invariant.
- **VerificationRunProofs.** The number of runs in flight is bounded by counting them
  together with the threads that have looked and not yet inserted (`OutstandingInv`).
  One operator thread then gives one run in flight.

- **RuntimeDecisionProofs.** `WithinLimit` counts what runs, but a redemption is not
  compared with the limit. The invariant follows each event that runs to the decision
  behind it (`OriginInv`, `ResumedOnce`): a redemption consumed the grant of an event
  that did not run itself, so distinct runs have distinct origins, each within the limit
  (`LimitedInv`), and an injection into `1..max_calls` gives the bound. `DryRunAgrees`
  proves the simulator equal to the gateway on an empty history, and a longer history
  never more permissive where there is no workflow. A second invariant is about the
  history as a sequence (`HistoryInv`): what has progressed is a path of the workflow at
  every length (`FollowedInv`), whence `FollowsItsWorkflow` and `OffWorkflowIsBlocked`, and
  a pattern has signalled if and only if it occurs, whence `OneSignalPerPattern`. It rests
  on two theorems about the algorithms themselves: `WorkflowSearch`, that following sets of
  possible steps accepts exactly the paths, and `PatternSearch`, that the greedy scan finds
  exactly the embeddings. The provers cannot instantiate an induction theorem with an
  operator, so these inductions are over sets: the set of lengths at which the function
  and its meaning differ has no least element (`SetInduction`, from the well-foundedness
  of the naturals). This module assumes in addition what `create_contract` and
  `create_pattern` validate (`ValidAssumption`).
- **GmailAccessProofs.** Every copy of a tenant's record, in the file, in a handler's
  snapshot of the file, in the cache or in a request under way, is of an account of that
  tenant (`RecordsInv`), so `OwnMailbox` needs no lock. The index keeps one active row of an agent
  (`GrantsInv`), whatever threads have found none and are about to insert theirs; so a
  step that revokes a row of an agent, loaded by an earlier query, leaves none
  (`RevocationDisarms`).
- **AgentProofs**, the credential. Every active token is the latest that some thread
  issued, and a thread about to issue one will retire its own latest (`LatestInv`): the
  active tokens are covered by the image of the threads, hence `ActiveBound`. A call that
  comes late finds the agent revoked, and nothing activates it again (`LateInv`).
- **AgentProofs**, the email agent. `ToldTruly` is about answers, and an answer that was
  lost leaves a thread behind that may still run the call. What makes it true is that the
  agent never sends a call again unless the last answer to it said APPROVAL, and then no
  thread serves it any more: a request is served by one thread at a time, and only before
  it ran (`OnceInv`), and what was told of it is told when nothing is under way
  (`AnswerInv`, `ToldInv`). The note comes with an answer that names an approval, which says
  RAN, APPROVAL or BLOCK (`AnswerInv`): it is true but for the first, which is what
  `ToldTruly` claims of it and `NoteIsTrue` does not. That the calls still to come are untouched needs the distinct
  ids (`PositionInv`).
- **AgentProofs**, the reference workflow. `PassIsEarned` needs to know which payload the
  approval was given to: the forged update is sent only after an answer to the first
  submission, when either the proper payload is on record or a check has failed
  (`EarnedInv`), and from there on an approval is consumed once (`GrantInv`).
  `FailsForCause` is the other direction: as long as nothing has gone wrong, one thread at
  most is busy and every call meets the state of the approval that its check expects
  (`CalmInv`), which any loss, refusal or lapse ends for good.
  `Outside`, `LoseAnswer` and the threads' steps are treated together by what they may do
  to a request (`Effect`).

The refinements of `SingleUseGrant`, `SequentialTrail` and (for one operator thread)
`ContractRegistry` are theorems too, the last without a run of its own.

**Only model-checked:** the liveness properties (`DispatchEnds`, `ClaimedEnds`,
`PendingIsServed`, `MailboxSettles`, `ProgramEnds`), since fairness is beyond the prover.
Every invariant, action property and refinement that the passing runs check is a theorem.

## 6. Not modelled

- The risk score, which no decision depends on; how glob patterns match text; several
  concurrent executions of one agent (`max_calls` is counted per execution).
- The OAuth exchange with Google and the layout of messages.
- Of the agents' programs: prompts, transcripts, the network probes with which the
  reference workflow begins and its second extraction, of which no check asks anything.
  A PASS in the model may therefore be a FAIL of those probes, never the other way round.
- Cryptography: a signature verifies exactly when it was made, digests do not collide.
- SQLite's busy timeout (a writer that waits longer than 5 s gets an error): a handler
  that fails is `Abandon`, which the models have at every step.
- Clock skew between containers: they share a host.
- CRUD handlers of one statement, exports, posture reports, start-up, seed data, SDKs,
  dashboard, probes, egress proxy: no state whose order matters, or not state of this
  program.

## 7. Plan

1. *Done:* the components above, their refinements, runs and proofs.
2. A composition of EvidenceChain, ContractStore and Dispatch for one request, to state
   end-to-end what an executed row implies; an abstract specification of the decision
   which both `RuntimeDecision` and `EvidenceChain` implement.
3. `GatewayCalls` as a refinement of that composition.
4. Risk scoring and evidence export as operators, if a property depends on them.
5. Proofs: what the composition implies.
