---------------------------- MODULE ContractStore ----------------------------
(***************************************************************************)
(* The runtime contracts of one agent: operators who create them and move  *)
(* them through their lifecycle (contract_store.py, routers/contracts.py)  *)
(* and gateway threads that resolve the one in force, when they decide and *)
(* again before they dispatch.                                             *)
(*                                                                         *)
(* A transition loads the row, checks the move on the status it loaded and *)
(* updates the row by id; only the partial unique index looks at the rows  *)
(* as they are when the UPDATE or INSERT runs.                             *)
(***************************************************************************)
EXTENDS Integers

CONSTANTS
    Operators,       \* control-plane threads
    Gateways,        \* gateway threads
    Contracts,       \* contract ids
    MaxVersion,      \* bound: versions of one contract
    MaxTime,         \* bound: the last instant of the clock
    RequireContract, \* config.REQUIRE_RUNTIME_CONTRACT
    None             \* no contract id, or no contract

ASSUME ConstantsAssumption ==
    /\ MaxVersion \in Nat \ {0} /\ MaxTime \in Nat
    /\ RequireContract \in BOOLEAN
    /\ None \notin Contracts /\ None \notin Contracts \X (1..MaxVersion)

Keys == Contracts \X (1..MaxVersion)

Statuses == {"DRAFT", "ACTIVE", "SUPERSEDED", "REVOKED", "EXPIRED"}

\* valid_from and expires_at; the earliest and the latest stand for NULL too.
Windows == {w \in [from : 0..MaxTime, until : 1..(MaxTime + 1)] : w.from < w.until}

VARIABLES
    status,    \* status[k]: runtime_contracts.status, "absent" without a row
    window,    \* window[k]: the row's valid_from and expires_at
    now,       \* the clock
    operator,  \* operator[o]: the state of one control-plane handler
    gate       \* gate[g]: the state of one gateway handler

vars == <<status, window, now, operator, gate>>

\* Faulty variants, each a plausible slip in the definition it is named after.
NoIndex(k, s) == TRUE
SameContract(k, bound) == k[1] = bound[1]
NoneActive(rows) == \A k \in rows : status[k] # "ACTIVE"

\* _LEGAL_CONTRACT_TRANSITIONS.
Legal == [s \in Statuses |->
             CASE s = "DRAFT"      -> {"ACTIVE", "SUPERSEDED", "REVOKED", "EXPIRED"}
               [] s = "ACTIVE"     -> {"SUPERSEDED", "REVOKED", "EXPIRED"}
               [] s = "SUPERSEDED" -> {"REVOKED", "EXPIRED"}
               [] OTHER            -> {}]

\* A status arrives in any case ("active" stands for those) and is stored in
\* upper case (_validate_status, and transition_contract_status's own).
Spellings == Statuses \union {"active"}

Normalized(s) == IF s = "active" THEN "ACTIVE" ELSE s

Rows == {k \in Keys : status[k] # "absent"}

ActiveRows == {k \in Rows : status[k] = "ACTIVE"}

\* uq_runtime_contract_one_active_per_agent, when row k gets status s.
IndexAllows(k, s) == s = "ACTIVE" => ActiveRows \subseteq {k}

\* Faulty variant of InWindow: a contract is still current when its window ends.
UntilTheEnd(k) == window[k].from <= now /\ now <= window[k].until

\* The window half of contract_lifecycle_verdict.
InWindow(k) == window[k].from <= now /\ now < window[k].until

\* resolve_active_contract reads all the agent's rows in one SELECT: "not_found"
\* is an agent without any, and what claim names is checked against the one
\* ACTIVE row.
NotFound(rows) == rows = {}

Selected(claim) ==
    {k \in ActiveRows : ActiveRows = {k} /\ InWindow(k) /\ claim \in {None, k[1]}}

\* assert_contract_current_for_dispatch, on the row resolved now.
SameVersion(k, bound) == k = bound

-----------------------------------------------------------------------------

IdleOperator == [pc |-> "idle", key |-> None, want |-> "DRAFT"]

IdleGate == [pc |-> "idle", claim |-> None, bound |-> None, governed |-> FALSE]

Init ==
    /\ status = [k \in Keys |-> "absent"]
    /\ window = [k \in Keys |-> [from |-> 0, until |-> 1]]
    /\ now = 0
    /\ operator = [o \in Operators |-> IdleOperator]
    /\ gate = [g \in Gateways |-> IdleGate]

Tick ==
    /\ now < MaxTime
    /\ now' = now + 1
    /\ UNCHANGED <<status, window, operator, gate>>

(***************************************************************************)
(* create_contract and save_contract.                                      *)
(***************************************************************************)

\* An ACTIVE document is refused while another contract is ACTIVE.
SaveCheck(o, k, s) ==
    /\ operator[o].pc = "idle"
    /\ Normalized(s) = "ACTIVE" => ActiveRows \subseteq {k}
    /\ operator' = [operator EXCEPT ![o] =
                      [pc |-> "saving", key |-> k, want |-> Normalized(s)]]
    /\ UNCHANGED <<status, window, now, gate>>

\* The INSERT, with the document's window, and its commit; a duplicate identity
\* or a second ACTIVE row makes it fail with a 409.
SaveInsert(o, w) ==
    LET k == operator[o].key
        s == operator[o].want
    IN  /\ operator[o].pc = "saving"
        /\ IF status[k] = "absent" /\ IndexAllows(k, s)
           THEN /\ status' = [status EXCEPT ![k] = s]
                /\ window' = [window EXCEPT ![k] = w]
           ELSE UNCHANGED <<status, window>>
        /\ operator' = [operator EXCEPT ![o] = IdleOperator]
        /\ UNCHANGED <<now, gate>>

(***************************************************************************)
(* set_status and revoke_contract: transition_contract_status.             *)
(***************************************************************************)

\* The row is loaded and the move checked; to the status it has is no change.
TransitionRead(o, k, s) ==
    /\ operator[o].pc = "idle"
    /\ k \in Rows
    /\ Normalized(s) \in Legal[status[k]]
    /\ operator' = [operator EXCEPT ![o] =
                      [pc |-> "loaded", key |-> k, want |-> Normalized(s)]]
    /\ UNCHANGED <<status, window, now, gate>>

\* An activation looks for another ACTIVE contract.
ActivateCheck(o) ==
    /\ operator[o].pc = "loaded"
    /\ operator[o].want = "ACTIVE"
    /\ operator' = [operator EXCEPT ![o] =
                       IF ActiveRows \subseteq {operator[o].key}
                       THEN [@ EXCEPT !.pc = "checked"] ELSE IdleOperator]
    /\ UNCHANGED <<status, window, now, gate>>

\* The UPDATE names the row by id; the index may still refuse it (409).
TransitionWrite(o) ==
    LET k == operator[o].key
        s == operator[o].want
    IN  /\ operator[o].pc = IF s = "ACTIVE" THEN "checked" ELSE "loaded"
        /\ status' = IF IndexAllows(k, s) THEN [status EXCEPT ![k] = s] ELSE status
        /\ operator' = [operator EXCEPT ![o] = IdleOperator]
        /\ UNCHANGED <<window, now, gate>>

\* The write lock times out, or the process dies before the commit.
OperatorAbandons(o) ==
    /\ operator[o].pc # "idle"
    /\ operator' = [operator EXCEPT ![o] = IdleOperator]
    /\ UNCHANGED <<status, window, now, gate>>

(***************************************************************************)
(* The gateway's two looks at the contract.                                *)
(***************************************************************************)

\* A request arrives; governed remembers whether its agent has any contract.
Receive(g, claim) ==
    /\ gate[g].pc = "idle"
    /\ gate' = [gate EXCEPT ![g] = [IdleGate EXCEPT !.pc = "new", !.claim = claim,
                                                   !.governed = (Rows # {})]]
    /\ UNCHANGED <<status, window, now, operator>>

\* No contract at all, and none required: permissions and policies decide.
ResolveNone(g) ==
    /\ gate[g].pc = "new"
    /\ NotFound(Rows) /\ gate[g].claim = None /\ ~RequireContract
    /\ gate' = [gate EXCEPT ![g].pc = "allowed"]
    /\ UNCHANGED <<status, window, now, operator>>

Resolve(g, k) ==
    /\ gate[g].pc = "new"
    /\ k \in Selected(gate[g].claim)
    /\ gate' = [gate EXCEPT ![g].pc = "resolved", ![g].bound = k]
    /\ UNCHANGED <<status, window, now, operator>>

\* evaluate_contract reads the clock again, and the loaded row.
Evaluate(g) ==
    /\ gate[g].pc = "resolved"
    /\ InWindow(gate[g].bound)
    /\ gate' = [gate EXCEPT ![g].pc = "allowed"]
    /\ UNCHANGED <<status, window, now, operator>>

\* The decision was committed as ALLOW; the contract is resolved once more.
Recheck(g) ==
    /\ gate[g].pc = "allowed"
    /\ gate[g].bound # None =>
          \E k \in Selected(gate[g].bound[1]) : SameVersion(k, gate[g].bound)
    /\ gate' = [gate EXCEPT ![g].pc = "cleared"]
    /\ UNCHANGED <<status, window, now, operator>>

\* The request ends: dispatched, blocked by a check above, or lost.
Finish(g) ==
    /\ gate[g].pc # "idle"
    /\ gate' = [gate EXCEPT ![g] = IdleGate]
    /\ UNCHANGED <<status, window, now, operator>>

-----------------------------------------------------------------------------

Operate(o) == \/ \E k \in Keys, s \in Spellings :
                    SaveCheck(o, k, s) \/ TransitionRead(o, k, s)
              \/ \E w \in Windows : SaveInsert(o, w)
              \/ ActivateCheck(o) \/ TransitionWrite(o)
              \/ OperatorAbandons(o)

Enforce(g) == \/ \E claim \in Contracts \union {None} : Receive(g, claim)
              \/ \E k \in Keys : Resolve(g, k)
              \/ ResolveNone(g) \/ Evaluate(g) \/ Recheck(g) \/ Finish(g)

Next == \/ Tick
        \/ \E o \in Operators : Operate(o)
        \/ \E g \in Gateways : Enforce(g)

Spec == Init /\ [][Next]_vars

-----------------------------------------------------------------------------

OperatorType == [pc   : {"idle", "saving", "loaded", "checked"},
                 key  : Keys \union {None},
                 want : Statuses]

GateType == [pc       : {"idle", "new", "resolved", "allowed", "cleared"},
             claim    : Contracts \union {None},
             bound    : Keys \union {None},
             governed : BOOLEAN]

\* Every variable keeps its type (models.RuntimeContract and the handlers'
\* locals).
TypeOK ==
    /\ status \in [Keys -> Statuses \union {"absent"}]
    /\ window \in [Keys -> Windows]
    /\ now \in Nat
    /\ operator \in [Operators -> OperatorType]
    /\ gate \in [Gateways -> GateType]

\* One contract at most is ACTIVE, however creations and activations race
\* past the checks the store makes itself (contract_store.py:74-84, 311-318).
OneActive == \A j, k \in Keys : status[j] = "ACTIVE" /\ status[k] = "ACTIVE" => j = k

\* A request that arrives after its agent got its first contract is never let
\* through without one, whatever becomes of the contracts (enforcement.py:
\* 336-349, routers/contracts.py:199).
GovernedStaysGoverned ==
    \A g \in Gateways :
        gate[g].pc \in {"allowed", "cleared"} /\ gate[g].governed => gate[g].bound # None

\* A request is cleared under the version it was decided under, and only while
\* that version is ACTIVE and inside its window (contract_store.py:258-284).
ClearedUnderItsContract ==
    [][\A g \in Gateways :
          (gate[g].pc # "cleared" /\ gate'[g].pc = "cleared" /\ gate[g].bound # None)
              => /\ status[gate[g].bound] = "ACTIVE"
                 /\ window[gate[g].bound].from =< now
                 /\ now < window[gate[g].bound].until]_vars

\* The store implements the registry; for a single control-plane thread only.
Registry == INSTANCE ContractRegistry WITH Absent <- "absent"

ImplementsRegistry == Registry!Spec

(***************************************************************************)
(* The inductive strengthening the proofs use.                             *)
(***************************************************************************)

\* A handler that has begun names a row it may write.
OperatorsInv == \A o \in Operators : operator[o].pc # "idle" => operator[o].key \in Keys

\* Rows are never removed, so a governed request finds one when it resolves.
GatesInv ==
    \A g \in Gateways :
        /\ gate[g].pc = "new" /\ gate[g].governed => Rows # {}
        /\ gate[g].pc = "resolved" => gate[g].bound \in Keys
        /\ gate[g].pc \in {"allowed", "cleared"} /\ gate[g].governed
               => gate[g].bound \in Keys

IInv == TypeOK /\ OneActive /\ OperatorsInv /\ GatesInv

\* With one operator, what a handler checked still holds when it writes.
Unraced ==
    \A o \in Operators : operator[o].pc \in {"loaded", "checked"} =>
        /\ operator[o].key \in Rows
        /\ operator[o].want \in Legal[status[operator[o].key]]

(***************************************************************************)
(* What the repository says of contracts that the code does not ensure.    *)
(***************************************************************************)

\* "Terminal states (REVOKED, EXPIRED) can never return to ACTIVE"
\* (contract_store.py:297).
TerminalIsFinal ==
    [][\A k \in Keys : status[k] \in {"REVOKED", "EXPIRED"} => status'[k] # "ACTIVE"]_vars
=============================================================================
