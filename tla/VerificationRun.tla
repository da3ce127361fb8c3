--------------------------- MODULE VerificationRun ----------------------------
(***************************************************************************)
(* The verification runs of one agent (models.VerificationRun): operators  *)
(* request and cancel them on the control plane (routers/verification.py), *)
(* the agent's runner claims and reports them on the gateway               *)
(* (routers/agentctl.py).  The two processes share only the table, and     *)
(* each handler reads the row in one statement and writes it in a later    *)
(* one.                                                                    *)
(***************************************************************************)
EXTENDS Integers, Sequences, FiniteSets

CONSTANTS
    Runs,       \* ids of runs
    Operators,  \* control-plane threads serving operators
    Runners,    \* agent processes that hold the agent's token
    None        \* no run

ASSUME ConstantsAssumption == None \notin Runs /\ IsFiniteSet(Operators)

VARIABLES
    rows,      \* rows[r]: the status of run r, "NONE" while there is no row
    created,   \* the runs in the order of created_at
    active,    \* agent.status = "active"
    op,        \* op[o]: the handler of operator thread o
    runner,    \* runner[u]: the runner, and its request at the gateway
    claims,    \* history: how often r was set RUNNING
    abandoned  \* history: runs whose runner never brought a report to its end

vars == <<rows, created, active, op, runner, claims, abandoned>>

\* Faulty variants, each a plausible slip in the definition it is named after.
IgnoresRowcount(r) == "claimed"
InvertsRowcount(r) == IF rows[r] = "PENDING" THEN "idle" ELSE "claimed"
ForgetsRunning == {"PENDING"}
LatestOnly(r) == created # <<>> /\ created[Len(created)] = r /\ rows[r] = "PENDING"

Statuses == {"PENDING", "RUNNING", "COMPLETED", "FAILED", "CANCELLED"}

\* A request is refused while the agent has a run in one of these.
InFlight == {"PENDING", "RUNNING"}

\* A report is refused when the run is in one of these.
Reported == {"COMPLETED", "FAILED"}

Outstanding == {r \in Runs : rows[r] \in InFlight}

\* The query of claim_next_run.
IsOldestPending(r) ==
    \E i \in DOMAIN created :
        /\ created[i] = r /\ rows[r] = "PENDING"
        /\ \A j \in 1..(i - 1) : rows[created[j]] # "PENDING"

\* The WHERE clause of the claim's UPDATE.
Claimable(r) == rows[r] = "PENDING"

\* What the claim returns: the run, or nothing when the UPDATE matched no row.
AfterClaim(r) == IF Claimable(r) THEN "claimed" ELSE "idle"

-----------------------------------------------------------------------------

Idle == [pc |-> "idle", run |-> None]

Init ==
    /\ rows = [r \in Runs |-> "NONE"]
    /\ created = <<>>
    /\ active = TRUE
    /\ op = [o \in Operators |-> Idle]
    /\ runner = [u \in Runners |-> Idle]
    /\ claims = [r \in Runs |-> 0]
    /\ abandoned = {}

(***************************************************************************)
(* Operators.                                                              *)
(***************************************************************************)

\* request_run: the agent is active and no run of it is in flight.
LookForRun(o) ==
    /\ op[o].pc = "idle" /\ active /\ Outstanding = {}
    /\ op' = [op EXCEPT ![o].pc = "inserting"]
    /\ UNCHANGED <<rows, created, active, runner, claims, abandoned>>

Insert(o, r) ==
    /\ op[o].pc = "inserting" /\ rows[r] = "NONE"
    /\ rows' = [rows EXCEPT ![r] = "PENDING"]
    /\ created' = Append(created, r)
    /\ op' = [op EXCEPT ![o] = Idle]
    /\ UNCHANGED <<active, runner, claims, abandoned>>

\* cancel_run: reads the row, ...
LookToCancel(o, r) ==
    /\ op[o].pc = "idle" /\ rows[r] = "PENDING"
    /\ op' = [op EXCEPT ![o] = [pc |-> "cancelling", run |-> r]]
    /\ UNCHANGED <<rows, created, active, runner, claims, abandoned>>

\* ... and updates it by its id.
Cancel(o) ==
    /\ op[o].pc = "cancelling"
    /\ rows' = [rows EXCEPT ![op[o].run] = "CANCELLED"]
    /\ op' = [op EXCEPT ![o] = Idle]
    /\ UNCHANGED <<created, active, runner, claims, abandoned>>

\* revoke_agent.
RevokeAgent ==
    /\ active
    /\ active' = FALSE
    /\ UNCHANGED <<rows, created, op, runner, claims, abandoned>>

(***************************************************************************)
(* The runner, and the gateway handlers it waits for.                      *)
(***************************************************************************)

\* claim_next_run: reads the oldest pending run, ...
Poll(u, r) ==
    /\ runner[u].pc = "idle" /\ active /\ IsOldestPending(r)
    /\ runner' = [runner EXCEPT ![u] = [pc |-> "claiming", run |-> r]]
    /\ UNCHANGED <<rows, created, active, op, claims, abandoned>>

\* ... and takes it with an UPDATE that is conditional on its status.
Claim(u) ==
    LET r == runner[u].run IN
    /\ runner[u].pc = "claiming"
    /\ runner' = [runner EXCEPT ![u] =
                    IF AfterClaim(r) = "idle" THEN Idle ELSE [@ EXCEPT !.pc = "claimed"]]
    /\ rows' = [rows EXCEPT ![r] = IF Claimable(r) THEN "RUNNING" ELSE @]
    /\ claims' = [claims EXCEPT ![r] = IF Claimable(r) THEN @ + 1 ELSE @]
    /\ UNCHANGED <<created, active, op, abandoned>>

\* The response arrives, and the scenario runs to its end.
Work(u) ==
    /\ runner[u].pc = "claimed"
    /\ runner' = [runner EXCEPT ![u].pc = "worked"]
    /\ UNCHANGED <<rows, created, active, op, claims, abandoned>>

\* report_result: authenticates the agent and reads the row, ...
Report(u) ==
    /\ runner[u].pc = "worked" /\ active /\ rows[runner[u].run] \notin Reported
    /\ runner' = [runner EXCEPT ![u].pc = "reporting"]
    /\ UNCHANGED <<rows, created, active, op, claims, abandoned>>

\* ... and stores the outcome.
Store(u, status) ==
    /\ runner[u].pc = "reporting"
    /\ rows' = [rows EXCEPT ![runner[u].run] = status]
    /\ runner' = [runner EXCEPT ![u] = Idle]
    /\ UNCHANGED <<created, active, op, claims, abandoned>>

Abandon(u) ==
    /\ runner' = [runner EXCEPT ![u] = Idle]
    /\ abandoned' = abandoned \union {runner[u].run}
    /\ UNCHANGED <<rows, created, active, op, claims>>

\* The report is refused; poll_once does not look at the answer.
Refused(u) ==
    /\ runner[u].pc = "worked"
    /\ ~active \/ rows[runner[u].run] \in Reported
    /\ Abandon(u)

\* The runner dies and its container is restarted, or the response to its
\* claim or the request with its report is lost; nothing is sent again.
Lost(u) ==
    /\ runner[u].pc \in {"claimed", "worked"}
    /\ Abandon(u)

Operator(o) ==
    \/ LookForRun(o) \/ Cancel(o)
    \/ \E r \in Runs : Insert(o, r) \/ LookToCancel(o, r)

Runner(u) ==
    \/ \E r \in Runs : Poll(u, r)
    \/ Claim(u) \/ Work(u) \/ Report(u)
    \/ \E status \in Reported : Store(u, status)
    \/ Refused(u) \/ Lost(u)

Next ==
    \/ \E o \in Operators : Operator(o)
    \/ \E u \in Runners : Runner(u)
    \/ RevokeAgent

Spec == Init /\ [][Next]_vars

\* The runner's loop and the handlers it calls go on (runner.py's main): it
\* polls, works and reports for ever.  Nobody has to request or cancel a run.
FairSpec ==
    /\ Spec
    /\ \A u \in Runners : WF_vars(Runner(u))

-----------------------------------------------------------------------------

HandlerType == [pc : {"idle", "inserting", "cancelling"}, run : Runs \union {None}]

RunnerType == [pc : {"idle", "claiming", "claimed", "worked", "reporting"},
               run : Runs \union {None}]

\* Rows, handlers and runners keep their types.
TypeOK ==
    /\ rows \in [Runs -> Statuses \union {"NONE"}]
    /\ created \in Seq(Runs)
    /\ active \in BOOLEAN
    /\ op \in [Operators -> HandlerType]
    /\ runner \in [Runners -> RunnerType]
    /\ claims \in [Runs -> Nat]
    /\ abandoned \in SUBSET (Runs \union {None})

Holds(u) == runner[u].pc \in {"claimed", "worked", "reporting"}

\* Two runners never work on one run, though both may have read it PENDING:
\* the conditional UPDATE of claim_next_run lets one of them through.
OneWorker == \A u, v \in Runners : Holds(u) /\ Holds(v) /\ runner[u].run = runner[v].run
                                   => u = v

\* A run with a result was claimed, and once: nothing is reported of a run
\* that no runner was given.
ResultMeansClaimed == \A r \in Runs : rows[r] \in {"COMPLETED", "FAILED"} => claims[r] = 1

\* An agent never has more runs in flight, those that threads are about to
\* insert included, than there are threads serving requests for one;
\* request_run itself keeps no count.
OutstandingBound ==
    Cardinality({r \in Runs : rows[r] \in {"PENDING", "RUNNING"}})
        + Cardinality({o \in Operators : op[o].pc = "inserting"}) =< Cardinality(Operators)

\* An agent has one run in flight (test_only_one_run_in_flight_per_agent).
OneOutstanding == \A r, s \in Runs : /\ rows[r] \in {"PENDING", "RUNNING"}
                                     /\ rows[s] \in {"PENDING", "RUNNING"}
                                     => r = s

\* A claimed run leaves RUNNING, unless its runner never got its report
\* through or the agent is revoked: then the row stays RUNNING, and
\* request_run refuses every further run of the agent.
ClaimedEnds ==
    \A r \in Runs : (rows[r] = "RUNNING")
                        ~> (rows[r] # "RUNNING" \/ r \in abandoned \/ ~active)

\* While the agent is active, a run that waits is claimed or cancelled.
PendingIsServed == \A r \in Runs : (rows[r] = "PENDING") ~> (rows[r] # "PENDING" \/ ~active)

(***************************************************************************)
(* The inductive invariant.                                                *)
(***************************************************************************)

Inserting == {o \in Operators : op[o].pc = "inserting"}

\* Every thread that found nothing in flight may add one run.
OutstandingInv ==
    /\ IsFiniteSet(Outstanding)
    /\ Cardinality(Outstanding) + Cardinality(Inserting) =< Cardinality(Operators)

ClaimsInv ==
    \A r \in Runs : /\ claims[r] =< 1
                    /\ rows[r] \in {"NONE", "PENDING"} => claims[r] = 0
                    /\ rows[r] \in {"COMPLETED", "FAILED"} => claims[r] = 1

HandlersInv ==
    /\ \A o \in Operators : op[o].pc = "cancelling" =>
           op[o].run \in Runs /\ rows[op[o].run] # "NONE"
    /\ \A u \in Runners : runner[u].pc # "idle" =>
           runner[u].run \in Runs /\ rows[runner[u].run] # "NONE"
    /\ \A u \in Runners : Holds(u) => claims[runner[u].run] = 1

IInv == TypeOK /\ OutstandingInv /\ ClaimsInv /\ HandlersInv /\ OneWorker
=============================================================================
