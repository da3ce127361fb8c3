------------------------ MODULE VerificationRunProofs -------------------------
(***************************************************************************)
(* For any set of runs, runners and operator threads: one runner per run,  *)
(* results of claimed runs only, and no more runs in flight than threads   *)
(* that serve operators.  The counting needs the threads that have looked  *)
(* and not yet inserted: each of them may still add a run.                 *)
(***************************************************************************)
EXTENDS VerificationRun, FiniteSetTheorems, TLAPS

USE ConstantsAssumption

\* Initially nothing is in flight and nobody is about to insert.
LEMMA InitInv == ASSUME Init PROVE IInv
<1>1. TypeOK
  BY DEF Init, TypeOK, Idle, HandlerType, RunnerType, Statuses
<1>2. Outstanding = {} /\ Inserting = {}
  BY DEF Init, Outstanding, Inserting, InFlight, Idle
<1>3. OutstandingInv
  BY <1>2, FS_EmptySet, FS_CardinalityType DEF OutstandingInv
<1>4. ClaimsInv /\ HandlersInv /\ OneWorker
  BY DEF Init, ClaimsInv, HandlersInv, OneWorker, Holds, Idle
<1> QED BY <1>1, <1>3, <1>4 DEF IInv

-----------------------------------------------------------------------------

\* Every step keeps the types.
LEMMA TypeStep == ASSUME IInv, [Next]_vars PROVE TypeOK'
<1>0. TypeOK /\ HandlersInv
  BY DEF IInv
<1>1. CASE UNCHANGED vars
  BY <1>0, <1>1 DEF TypeOK, vars
<1>2. ASSUME NEW o \in Operators, Operator(o) PROVE TypeOK'
  <2>1. CASE LookForRun(o)
    BY <1>0, <2>1 DEF LookForRun, TypeOK, HandlerType
  <2>2. CASE Cancel(o)
    BY <1>0, <2>2 DEF Cancel, TypeOK, HandlerType, Statuses, Idle
  <2>3. ASSUME NEW r \in Runs, Insert(o, r) PROVE TypeOK'
    BY <1>0, <2>3 DEF Insert, TypeOK, HandlerType, Statuses, Idle
  <2>4. ASSUME NEW r \in Runs, LookToCancel(o, r) PROVE TypeOK'
    BY <1>0, <2>4 DEF LookToCancel, TypeOK, HandlerType
  <2> QED BY <1>2, <2>1, <2>2, <2>3, <2>4 DEF Operator
<1>3. ASSUME NEW u \in Runners, Runner(u) PROVE TypeOK'
  <2>1. ASSUME NEW r \in Runs, Poll(u, r) PROVE TypeOK'
    BY <1>0, <2>1 DEF Poll, TypeOK, RunnerType
  <2>2. CASE Claim(u)
    <3>0. runner[u].run \in Runs
      BY <1>0, <2>2 DEF Claim, HandlersInv
    <3>1. rows' \in [Runs -> Statuses \union {"NONE"}]
      <4>1. rows \in [Runs -> Statuses \union {"NONE"}] /\ "RUNNING" \in Statuses
        BY <1>0 DEF TypeOK, Statuses
      <4> QED BY <2>2, <3>0, <4>1 DEF Claim
    <3>3. claims' \in [Runs -> Nat]
      <4>1. claims \in [Runs -> Nat]
        BY <1>0 DEF TypeOK
      <4> QED BY <2>2, <3>0, <4>1 DEF Claim
    <3>2. runner' \in [Runners -> RunnerType]
      BY <1>0, <2>2 DEF Claim, TypeOK, RunnerType, Idle
    <3> QED BY <1>0, <2>2, <3>1, <3>2, <3>3 DEF Claim, TypeOK
  <2>3. CASE Work(u) \/ Report(u)
    <3>0. PICK pc \in {"worked", "reporting"} : runner' = [runner EXCEPT ![u].pc = pc]
      BY <2>3 DEF Work, Report
    <3>1. runner' \in [Runners -> RunnerType]
      <4>1. runner \in [Runners -> RunnerType]
        BY <1>0 DEF TypeOK
      <4>2. [runner[u] EXCEPT !.pc = pc] \in RunnerType
        BY <4>1 DEF RunnerType
      <4> QED BY <3>0, <4>1, <4>2
    <3>2. UNCHANGED <<rows, created, active, op, claims, abandoned>>
      BY <2>3 DEF Work, Report
    <3> QED BY <1>0, <3>1, <3>2 DEF TypeOK
  <2>4. ASSUME NEW status \in Reported, Store(u, status) PROVE TypeOK'
    <3>1. rows' \in [Runs -> Statuses \union {"NONE"}]
      BY <1>0, <2>4 DEF Store, Reported, TypeOK, Statuses
    <3>2. runner' \in [Runners -> RunnerType]
      BY <1>0, <2>4 DEF Store, TypeOK, RunnerType, Idle
    <3>3. UNCHANGED <<created, active, op, claims, abandoned>>
      BY <2>4 DEF Store
    <3> QED BY <1>0, <3>1, <3>2, <3>3 DEF TypeOK
  <2>5. CASE Refused(u) \/ Lost(u)
    <3>1. Abandon(u) /\ runner[u].run \in Runs \union {None}
      BY <1>0, <2>5 DEF Refused, Lost, TypeOK, RunnerType
    <3>2. runner' \in [Runners -> RunnerType]
      BY <1>0, <3>1 DEF Abandon, TypeOK, RunnerType, Idle
    <3> QED BY <1>0, <3>1, <3>2 DEF Abandon, TypeOK
  <2> QED BY <1>3, <2>1, <2>2, <2>3, <2>4, <2>5 DEF Runner
<1>4. CASE RevokeAgent
  BY <1>0, <1>4 DEF RevokeAgent, TypeOK
<1> QED BY <1>1, <1>2, <1>3, <1>4 DEF Next

\* What the steps do to a run's row and its claims.
LEMMA RowSteps ==
    ASSUME IInv, [Next]_vars, NEW r \in Runs
    PROVE  \/ rows'[r] = rows[r] /\ claims'[r] = claims[r]
           \/ rows[r] = "NONE" /\ rows'[r] = "PENDING" /\ claims'[r] = claims[r]
           \/ rows[r] # "NONE" /\ rows'[r] = "CANCELLED" /\ claims'[r] = claims[r]
           \/ rows[r] = "PENDING" /\ rows'[r] = "RUNNING" /\ claims'[r] = claims[r] + 1
           \/ /\ rows[r] # "NONE" /\ rows'[r] \in {"COMPLETED", "FAILED"}
              /\ claims[r] = 1 /\ claims'[r] = 1
<1>0. TypeOK /\ HandlersInv
  BY DEF IInv
<1>1. CASE UNCHANGED <<rows, claims>>
  BY <1>1
<1>2. ASSUME NEW o \in Operators, Operator(o)
      PROVE  \/ UNCHANGED <<rows, claims>>
             \/ rows[r] = "NONE" /\ rows'[r] = "PENDING" /\ claims'[r] = claims[r]
             \/ rows[r] # "NONE" /\ rows'[r] = "CANCELLED" /\ claims'[r] = claims[r]
             \/ rows'[r] = rows[r] /\ claims'[r] = claims[r]
  BY <1>0, <1>2 DEF Operator, LookForRun, Cancel, Insert, LookToCancel, TypeOK, HandlersInv
<1>3. ASSUME NEW u \in Runners, Claim(u)
      PROVE  \/ rows'[r] = rows[r] /\ claims'[r] = claims[r]
             \/ rows[r] = "PENDING" /\ rows'[r] = "RUNNING" /\ claims'[r] = claims[r] + 1
  BY <1>0, <1>3 DEF Claim, Claimable, TypeOK, HandlersInv
<1>4. ASSUME NEW u \in Runners, NEW status \in Reported, Store(u, status)
      PROVE  \/ rows'[r] = rows[r] /\ claims'[r] = claims[r]
             \/ /\ rows[r] # "NONE" /\ rows'[r] \in {"COMPLETED", "FAILED"}
                /\ claims[r] = 1 /\ claims'[r] = 1
  BY <1>0, <1>4 DEF Store, Reported, TypeOK, HandlersInv, Holds
<1>5. ASSUME NEW u \in Runners, Runner(u), ~Claim(u),
             \A status \in Reported : ~Store(u, status)
      PROVE  UNCHANGED <<rows, claims>>
  BY <1>5 DEF Runner, Poll, Work, Report, Refused, Lost, Abandon
<1>6. RevokeAgent \/ UNCHANGED vars => UNCHANGED <<rows, claims>>
  BY DEF RevokeAgent, vars
<1> QED BY <1>1, <1>2, <1>3, <1>4, <1>5, <1>6 DEF Next

LEMMA ClaimsStep == ASSUME IInv, [Next]_vars PROVE ClaimsInv'
<1> SUFFICES ASSUME NEW r \in Runs
             PROVE  /\ claims'[r] =< 1
                    /\ rows'[r] \in {"NONE", "PENDING"} => claims'[r] = 0
                    /\ rows'[r] \in {"COMPLETED", "FAILED"} => claims'[r] = 1
  BY DEF ClaimsInv
<1>1. /\ claims[r] \in Nat /\ claims[r] =< 1
      /\ rows[r] \in {"NONE", "PENDING"} => claims[r] = 0
      /\ rows[r] \in {"COMPLETED", "FAILED"} => claims[r] = 1
  BY DEF IInv, TypeOK, ClaimsInv
<1> QED BY <1>1, RowSteps

\* A row never goes away, and a claim is never taken back.
LEMMA Kept ==
    ASSUME IInv, [Next]_vars, NEW r \in Runs
    PROVE  /\ rows[r] # "NONE" => rows'[r] # "NONE"
           /\ claims[r] = 1 => claims'[r] = 1
<1>1. claims[r] = 1 => rows[r] # "PENDING"
  BY DEF IInv, ClaimsInv
<1> QED BY <1>1, RowSteps

\* How a runner comes to hold a run.
LEMMA RunnerSteps ==
    ASSUME IInv, [Next]_vars, NEW u \in Runners
    PROVE  \/ runner'[u] = runner[u]
           \/ runner'[u].pc = "idle"
           \/ /\ runner'[u].pc = "claiming"
              /\ runner'[u].run \in Runs /\ rows'[runner'[u].run] # "NONE"
           \/ /\ runner[u].pc = "claiming" /\ runner'[u].pc = "claimed"
              /\ runner'[u].run = runner[u].run
              /\ claims[runner[u].run] = 0 /\ claims'[runner[u].run] = 1
              /\ \A v \in Runners : v # u => runner'[v] = runner[v]
           \/ Holds(u) /\ Holds(u)' /\ runner'[u].run = runner[u].run
<1>0. TypeOK /\ HandlersInv /\ ClaimsInv
  BY DEF IInv
<1>1. ASSUME UNCHANGED runner PROVE runner'[u] = runner[u]
  BY <1>1
<1>2. UNCHANGED vars \/ RevokeAgent \/ (\E o \in Operators : Operator(o)) => UNCHANGED runner
  BY DEF vars, RevokeAgent, Operator, LookForRun, Cancel, Insert, LookToCancel
<1>3. ASSUME NEW v \in Runners, v # u, Runner(v) PROVE runner'[u] = runner[u]
  BY <1>0, <1>3 DEF Runner, Poll, Claim, Work, Report, Store, Refused, Lost, Abandon, TypeOK
<1>4. CASE Runner(u)
  <2>1. ASSUME NEW r \in Runs, Poll(u, r)
        PROVE  /\ runner'[u].pc = "claiming"
               /\ runner'[u].run \in Runs /\ rows'[runner'[u].run] # "NONE"
    BY <1>0, <2>1 DEF Poll, IsOldestPending, TypeOK
  <2>2. CASE Claim(u)
    BY <1>0, <2>2 DEF Claim, AfterClaim, Claimable, TypeOK, HandlersInv, ClaimsInv, Idle,
                      RunnerType
  <2>3. CASE Work(u) \/ Report(u)
    BY <1>0, <2>3 DEF Work, Report, Holds, TypeOK, RunnerType
  <2>4. ASSUME NEW status \in Reported, Store(u, status) PROVE runner'[u].pc = "idle"
    BY <1>0, <2>4 DEF Store, Idle, TypeOK
  <2>5. CASE Refused(u) \/ Lost(u)
    BY <1>0, <2>5 DEF Refused, Lost, Abandon, Idle, TypeOK
  <2> QED BY <1>4, <2>1, <2>2, <2>3, <2>4, <2>5 DEF Runner
<1> QED BY <1>1, <1>2, <1>3, <1>4 DEF Next

LEMMA HandlersStep == ASSUME IInv, [Next]_vars PROVE HandlersInv'
<1>0. TypeOK /\ HandlersInv
  BY DEF IInv
<1>1. ASSUME NEW o \in Operators, op'[o].pc = "cancelling"
      PROVE  op'[o].run \in Runs /\ rows'[op'[o].run] # "NONE"
  <2>1. \/ op'[o] = op[o]
        \/ op'[o].run \in Runs /\ rows[op'[o].run] # "NONE"
    <3>1. UNCHANGED vars \/ RevokeAgent \/ (\E u \in Runners : Runner(u)) => UNCHANGED op
      BY DEF vars, RevokeAgent, Runner, Poll, Claim, Work, Report, Store, Refused, Lost,
             Abandon
    <3>2. ASSUME NEW p \in Operators, Operator(p)
          PROVE  \/ op'[o] = op[o]
                 \/ op'[o].run \in Runs /\ rows[op'[o].run] # "NONE"
      BY <1>0, <1>1, <3>2 DEF Operator, LookForRun, Cancel, Insert, LookToCancel, Idle,
                              TypeOK, HandlerType
    <3> QED BY <3>1, <3>2 DEF Next
  <2>2. op'[o].run \in Runs /\ rows[op'[o].run] # "NONE"
    BY <1>0, <1>1, <2>1 DEF HandlersInv
  <2> QED BY <2>2, Kept
<1>2. ASSUME NEW u \in Runners
      PROVE  /\ runner'[u].pc # "idle" =>
                    runner'[u].run \in Runs /\ rows'[runner'[u].run] # "NONE"
             /\ Holds(u)' => claims'[runner'[u].run] = 1
  <2>1. /\ runner[u].pc # "idle" => runner[u].run \in Runs /\ rows[runner[u].run] # "NONE"
        /\ Holds(u) => claims[runner[u].run] = 1 /\ runner[u].pc # "idle"
    BY <1>0 DEF HandlersInv, Holds
  <2>2. Holds(u)' <=> runner'[u].pc \in {"claimed", "worked", "reporting"}
    BY DEF Holds
  <2>3. runner[u].run \in Runs
        => /\ rows[runner[u].run] # "NONE" => rows'[runner[u].run] # "NONE"
           /\ claims[runner[u].run] = 1 => claims'[runner[u].run] = 1
    BY Kept
  <2>4. CASE runner'[u] = runner[u]
    BY <2>1, <2>2, <2>3, <2>4 DEF Holds
  <2>5. CASE runner'[u].run = runner[u].run /\ runner[u].pc # "idle"
             /\ (Holds(u) \/ claims'[runner[u].run] = 1)
    BY <2>1, <2>2, <2>3, <2>5
  <2> QED BY <2>1, <2>2, <2>4, <2>5, RunnerSteps DEF Holds
<1> QED BY <1>1, <1>2 DEF HandlersInv

LEMMA OneWorkerStep == ASSUME IInv, [Next]_vars PROVE OneWorker'
<1> SUFFICES ASSUME NEW u \in Runners, NEW v \in Runners, Holds(u)', Holds(v)',
                    runner'[u].run = runner'[v].run, u # v
             PROVE  FALSE
  BY DEF OneWorker
<1>1. ASSUME NEW w \in Runners, Holds(w)'
      PROVE  \/ Holds(w) /\ runner'[w].run = runner[w].run
             \/ /\ runner'[w].run = runner[w].run /\ claims[runner[w].run] = 0
                /\ \A x \in Runners : x # w => runner'[x] = runner[x]
  BY <1>1, RunnerSteps DEF Holds
<1>2. ASSUME NEW w \in Runners, Holds(w) PROVE claims[runner[w].run] = 1
  BY <1>2 DEF IInv, HandlersInv
<1>3. CASE Holds(u) /\ Holds(v) /\ runner'[u].run = runner[u].run /\ runner'[v].run = runner[v].run
  BY <1>3 DEF IInv, OneWorker
<1>4. ASSUME NEW w \in Runners, NEW x \in Runners, x # w, Holds(x)',
             runner'[w].run = runner'[x].run,
             runner'[w].run = runner[w].run, claims[runner[w].run] = 0,
             \A y \in Runners : y # w => runner'[y] = runner[y]
      PROVE  FALSE
  <2>1. Holds(x) /\ runner[x].run = runner[w].run
    BY <1>4 DEF Holds
  <2> QED BY <1>2, <1>4, <2>1
<1> QED BY <1>1, <1>3, <1>4

\* Each thread that looked and found nothing may add one run; while one has
\* looked and nobody inserted, nothing is in flight.
LEMMA OutstandingStep == ASSUME IInv, [Next]_vars PROVE OutstandingInv'
<1>0. /\ TypeOK /\ IsFiniteSet(Outstanding) /\ Cardinality(Outstanding) \in Nat
      /\ IsFiniteSet(Inserting) /\ Cardinality(Inserting) \in Nat
      /\ Cardinality(Operators) \in Nat
      /\ Cardinality(Outstanding) + Cardinality(Inserting) =< Cardinality(Operators)
  <2>1. Inserting \subseteq Operators
    BY DEF Inserting
  <2> QED BY <2>1, FS_Subset, FS_CardinalityType DEF IInv, OutstandingInv
<1>1. ASSUME NEW o \in Operators, LookForRun(o) PROVE OutstandingInv'
  <2>1. Outstanding' = {} /\ Inserting' \subseteq Operators
    BY <1>1 DEF LookForRun, Outstanding, Inserting, InFlight
  <2>2. Cardinality(Inserting') =< Cardinality(Operators) /\ Cardinality(Inserting') \in Nat
    BY <2>1, FS_Subset, FS_CardinalityType
  <2> QED BY <1>0, <2>1, <2>2, FS_EmptySet DEF OutstandingInv
<1>2. ASSUME NEW o \in Operators, NEW r \in Runs, Insert(o, r) PROVE OutstandingInv'
  <2>1. Outstanding' = Outstanding \union {r} /\ r \notin Outstanding
    BY <1>0, <1>2 DEF Insert, Outstanding, InFlight, TypeOK
  <2>2. Inserting' = Inserting \ {o} /\ o \in Inserting
    BY <1>0, <1>2 DEF Insert, Inserting, Idle, TypeOK
  <2>3. /\ IsFiniteSet(Outstanding') /\ Cardinality(Outstanding') = Cardinality(Outstanding) + 1
        /\ Cardinality(Inserting') = Cardinality(Inserting) - 1
    BY <1>0, <2>1, <2>2, FS_AddElement, FS_RemoveElement
  <2> QED BY <1>0, <2>3 DEF OutstandingInv
<1>3. ASSUME Outstanding' \subseteq Outstanding, Inserting' \subseteq Inserting
      PROVE  OutstandingInv'
  <2>1. /\ IsFiniteSet(Outstanding') /\ Cardinality(Outstanding') =< Cardinality(Outstanding)
        /\ Cardinality(Outstanding') \in Nat
    BY <1>0, <1>3, FS_Subset, FS_CardinalityType
  <2>2. /\ Cardinality(Inserting') =< Cardinality(Inserting)
        /\ Cardinality(Inserting') \in Nat
    BY <1>0, <1>3, FS_Subset, FS_CardinalityType
  <2> QED BY <1>0, <2>1, <2>2 DEF OutstandingInv
<1>4. ASSUME NEW o \in Operators, Cancel(o) \/ \E r \in Runs : LookToCancel(o, r)
      PROVE  Outstanding' \subseteq Outstanding /\ Inserting' \subseteq Inserting
  <2>1. ASSUME NEW p \in Operators, op'[p].pc = "inserting" PROVE op[p].pc = "inserting"
    BY <1>0, <1>4, <2>1 DEF Cancel, LookToCancel, TypeOK, Idle
  <2>2. ASSUME NEW r \in Runs, rows'[r] \in InFlight PROVE rows[r] \in InFlight
    BY <1>0, <1>4, <2>2 DEF Cancel, LookToCancel, InFlight, TypeOK
  <2> QED BY <2>1, <2>2 DEF Outstanding, Inserting
<1>5. ASSUME NEW u \in Runners, Runner(u)
      PROVE  Outstanding' \subseteq Outstanding /\ Inserting' \subseteq Inserting
  <2>1. UNCHANGED op /\ Inserting' = Inserting
    BY <1>5 DEF Runner, Poll, Claim, Work, Report, Store, Refused, Lost, Abandon, Inserting
  <2>2. ASSUME NEW r \in Runs, rows'[r] \in InFlight PROVE rows[r] \in InFlight
    <3>1. CASE Claim(u)
      BY <1>0, <2>2, <3>1 DEF Claim, Claimable, InFlight, TypeOK
    <3>2. ASSUME NEW status \in Reported, Store(u, status) PROVE rows[r] \in InFlight
      BY <1>0, <2>2, <3>2 DEF Store, Reported, InFlight, TypeOK
    <3> QED BY <1>5, <2>2, <3>1, <3>2 DEF Runner, Poll, Work, Report, Refused, Lost, Abandon
  <2> QED BY <2>1, <2>2 DEF Outstanding
<1>6. RevokeAgent \/ UNCHANGED vars
      => Outstanding' \subseteq Outstanding /\ Inserting' \subseteq Inserting
  <2>1. RevokeAgent \/ UNCHANGED vars => UNCHANGED <<rows, op>>
    BY DEF RevokeAgent, vars
  <2> QED BY <2>1 DEF Outstanding, Inserting
<1> QED BY <1>1, <1>2, <1>3, <1>4, <1>5, <1>6 DEF Next, Operator

-----------------------------------------------------------------------------

\* The inductive invariant holds, whatever the numbers of threads and runners.
THEOREM Invariant == Spec => []IInv
<1>1. Init => IInv
  BY InitInv
<1>2. IInv /\ [Next]_vars => IInv'
  BY TypeStep, ClaimsStep, HandlersStep, OneWorkerStep, OutstandingStep DEF IInv
<1> QED BY <1>1, <1>2, PTL DEF Spec

\* Rows, handlers and runners keep their types.
THEOREM TypeCorrect == Spec => []TypeOK
<1>1. IInv => TypeOK
  BY DEF IInv
<1> QED BY <1>1, Invariant, PTL

\* The conditional UPDATE of claim_next_run gives a run to one runner.
THEOREM OneRunnerPerRun == Spec => []OneWorker
<1>1. IInv => OneWorker
  BY DEF IInv
<1> QED BY <1>1, Invariant, PTL

\* Results are of runs that were claimed, once.
THEOREM ResultsAreOfClaimedRuns == Spec => []ResultMeansClaimed
<1>1. IInv => ResultMeansClaimed
  BY DEF IInv, ClaimsInv, ResultMeansClaimed
<1> QED BY <1>1, Invariant, PTL

\* However requests race, the runs in flight and those about to be inserted
\* never outnumber the threads that serve operators.
THEOREM InFlightIsBounded == Spec => []OutstandingBound
<1>1. IInv => OutstandingBound
  BY DEF IInv, OutstandingInv, OutstandingBound, Outstanding, Inserting, InFlight
<1> QED BY <1>1, Invariant, PTL

\* With one thread for operators the look before the insert is enough.
THEOREM OneThreadOneRun ==
    ASSUME Cardinality(Operators) = 1 PROVE Spec => []OneOutstanding
<1>1. IInv => OneOutstanding
  <2> SUFFICES ASSUME IInv, NEW r \in Runs, NEW s \in Runs, r # s,
                      r \in Outstanding, s \in Outstanding
               PROVE  FALSE
    BY DEF OneOutstanding, Outstanding, InFlight
  <2>1. IsFiniteSet(Outstanding) /\ Cardinality(Outstanding) \in Nat
    BY FS_CardinalityType DEF IInv, OutstandingInv
  <2>2. Cardinality(Outstanding \ {r}) = Cardinality(Outstanding) - 1
        /\ IsFiniteSet(Outstanding \ {r})
    BY <2>1, FS_RemoveElement
  <2>3. /\ Cardinality((Outstanding \ {r}) \ {s}) = Cardinality(Outstanding) - 2
        /\ Cardinality((Outstanding \ {r}) \ {s}) \in Nat
    <3>1. s \in Outstanding \ {r}
      OBVIOUS
    <3>2. /\ IsFiniteSet((Outstanding \ {r}) \ {s})
          /\ Cardinality((Outstanding \ {r}) \ {s}) = Cardinality(Outstanding \ {r}) - 1
      BY <2>2, <3>1, FS_RemoveElement
    <3> QED BY <2>1, <2>2, <3>2, FS_CardinalityType
  <2>4. Inserting \subseteq Operators
    BY DEF Inserting
  <2>5. Cardinality(Inserting) \in Nat
    BY <2>4, FS_Subset, FS_CardinalityType
  <2> QED BY <2>1, <2>3, <2>5 DEF IInv, OutstandingInv
<1> QED BY <1>1, Invariant, PTL
=============================================================================
