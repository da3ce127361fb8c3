------------------------- MODULE ContractStoreProofs -------------------------
(***************************************************************************)
(* Proofs of ContractStore for any number of operators, gateways and       *)
(* contracts.                                                              *)
(***************************************************************************)
EXTENDS ContractStore, TLAPS

LEMMA NoneIsNoKey == None \notin Keys
BY ConstantsAssumption DEF Keys

LEMMA InitIInv == Init => IInv
<1> SUFFICES ASSUME Init PROVE IInv
  OBVIOUS
<1>1. [from |-> 0, until |-> 1] \in Windows
  BY ConstantsAssumption DEF Windows
<1>2. IdleOperator \in OperatorType /\ IdleGate \in GateType
  BY DEF IdleOperator, IdleGate, OperatorType, GateType, Statuses
<1>3. TypeOK
  BY <1>1, <1>2 DEF Init, TypeOK
<1>4. OneActive /\ OperatorsInv /\ GatesInv
  BY DEF Init, OneActive, OperatorsInv, GatesInv, IdleOperator, IdleGate
<1> QED BY <1>3, <1>4 DEF IInv

\* What a write does to the rows: one of them gets a status the index allows.
Written(k, s) ==
    /\ k \in Keys /\ s \in Statuses
    /\ IndexAllows(k, s)
    /\ status' = [status EXCEPT ![k] = s]

LEMMA RowsChange ==
    ASSUME IInv, [Next]_vars
    PROVE  UNCHANGED status \/ \E k \in Keys, s \in Statuses : Written(k, s)
<1>1. \A o \in Operators : operator[o].pc # "idle" =>
          operator[o].key \in Keys /\ operator[o].want \in Statuses
  BY DEF IInv, TypeOK, OperatorType, OperatorsInv
<1>2. ASSUME NEW o \in Operators, NEW w, SaveInsert(o, w)
      PROVE  UNCHANGED status \/ \E k \in Keys, s \in Statuses : Written(k, s)
  BY <1>1, <1>2 DEF SaveInsert, Written
<1>3. ASSUME NEW o \in Operators, TransitionWrite(o)
      PROVE  UNCHANGED status \/ \E k \in Keys, s \in Statuses : Written(k, s)
  BY <1>1, <1>3 DEF TransitionWrite, Written
<1> QED
  BY <1>2, <1>3 DEF Next, vars, Tick, Operate, Enforce, SaveCheck,
     TransitionRead, ActivateCheck, OperatorAbandons, Receive, Resolve,
     ResolveNone, Evaluate, Recheck, Finish

LEMMA NextOneActive ==
    ASSUME IInv, [Next]_vars
    PROVE  OneActive' /\ Rows \subseteq Rows'
<1>0. OneActive /\ status \in [Keys -> Statuses \union {"absent"}]
  BY DEF IInv, TypeOK
<1>1. CASE UNCHANGED status
  BY <1>0, <1>1 DEF OneActive, Rows
<1>2. ASSUME NEW k \in Keys, NEW s \in Statuses, Written(k, s)
      PROVE  OneActive' /\ Rows \subseteq Rows'
  <2>1. \A j \in Keys : status'[j] = IF j = k THEN s ELSE status[j]
    BY <1>0, <1>2 DEF Written
  <2>2. s = "ACTIVE" => \A j \in Keys : status[j] = "ACTIVE" => j = k
    BY <1>2 DEF Written, IndexAllows, ActiveRows, Rows
  <2>3. OneActive'
    BY <1>0, <2>1, <2>2 DEF OneActive
  <2>4. Rows \subseteq Rows'
    BY <2>1 DEF Rows, Statuses
  <2> QED BY <2>3, <2>4
<1> QED BY <1>1, <1>2, RowsChange

LEMMA NextTypeOK ==
    ASSUME IInv, [Next]_vars
    PROVE  TypeOK' /\ OperatorsInv'
<1>0. /\ TypeOK /\ OperatorsInv
      /\ operator \in [Operators -> OperatorType] /\ gate \in [Gateways -> GateType]
      /\ \A s \in Spellings : Normalized(s) \in Statuses
      /\ IdleOperator \in OperatorType /\ IdleGate \in GateType
  <2>1. TypeOK /\ OperatorsInv
    BY DEF IInv
  <2>2. operator \in [Operators -> OperatorType] /\ gate \in [Gateways -> GateType]
    BY <2>1 DEF TypeOK
  <2>3. \A s \in Spellings : Normalized(s) \in Statuses
    BY DEF Spellings, Normalized, Statuses
  <2>4. IdleOperator \in OperatorType
    BY DEF IdleOperator, OperatorType, Statuses
  <2>5. IdleGate \in GateType
    BY DEF IdleGate, GateType
  <2> QED BY <2>1, <2>2, <2>3, <2>4, <2>5
<1>1. status' \in [Keys -> Statuses \union {"absent"}]
  BY <1>0, RowsChange DEF TypeOK, Written
<1>2. window' \in [Keys -> Windows] /\ now' \in Nat
  <2>0. window \in [Keys -> Windows] /\ now \in Nat
    BY <1>0 DEF TypeOK
  <2>1. CASE Tick
    BY <2>0, <2>1 DEF Tick
  <2>2. ASSUME NEW o \in Operators, NEW w \in Windows, SaveInsert(o, w)
        PROVE  window' \in [Keys -> Windows] /\ now' \in Nat
    <3>1. window' = [window EXCEPT ![operator[o].key] = w] \/ window' = window
      BY <2>2 DEF SaveInsert
    <3> QED BY <2>0, <2>2, <3>1 DEF SaveInsert
  <2>3. CASE UNCHANGED <<window, now>>
    BY <2>0, <2>3
  <2>4. ASSUME NEW g \in Gateways, Enforce(g) PROVE UNCHANGED <<window, now>>
    BY <2>4 DEF Enforce, Receive, Resolve, ResolveNone, Evaluate, Recheck, Finish
  <2>5. ASSUME NEW o \in Operators, Operate(o)
        PROVE  \/ \E w \in Windows : SaveInsert(o, w)
               \/ UNCHANGED <<window, now>>
    BY <2>5 DEF Operate, SaveCheck, TransitionRead, TransitionWrite, ActivateCheck,
                OperatorAbandons
  <2> QED BY <2>1, <2>2, <2>3, <2>4, <2>5 DEF Next, vars
<1>3. operator' \in [Operators -> OperatorType] /\ OperatorsInv'
  <2>1. CASE UNCHANGED operator
    BY <1>0, <2>1 DEF OperatorsInv
  <2>2. ASSUME NEW o \in Operators, NEW d \in OperatorType,
               d.pc # "idle" => d.key \in Keys,
               operator' = [operator EXCEPT ![o] = d]
        PROVE  operator' \in [Operators -> OperatorType] /\ OperatorsInv'
    BY <1>0, <2>2 DEF OperatorsInv
  <2>3. ASSUME NEW o \in Operators, Operate(o)
        PROVE  \E d \in OperatorType : /\ d.pc # "idle" => d.key \in Keys
                                       /\ operator' = [operator EXCEPT ![o] = d]
    <3>1. ASSUME NEW k \in Keys, NEW s \in Spellings,
                 SaveCheck(o, k, s) \/ TransitionRead(o, k, s)
          PROVE  \E d \in OperatorType : /\ d.pc # "idle" => d.key \in Keys
                                         /\ operator' = [operator EXCEPT ![o] = d]
      <4>1. \E pc \in {"saving", "loaded"} : operator' =
               [operator EXCEPT ![o] = [pc |-> pc, key |-> k, want |-> Normalized(s)]]
        BY <3>1 DEF SaveCheck, TransitionRead
      <4>2. \A pc \in {"saving", "loaded"} :
               [pc |-> pc, key |-> k, want |-> Normalized(s)] \in OperatorType
        BY <1>0 DEF OperatorType
      <4> QED BY <4>1, <4>2
    <3>2. CASE \/ \E w \in Windows : SaveInsert(o, w)
               \/ TransitionWrite(o) \/ OperatorAbandons(o)
      <4>1. operator' = [operator EXCEPT ![o] = IdleOperator]
        BY <3>2 DEF SaveInsert, TransitionWrite, OperatorAbandons
      <4>2. IdleOperator.pc = "idle"
        BY DEF IdleOperator
      <4> QED BY <1>0, <4>1, <4>2
    <3>3. CASE ActivateCheck(o)
      <4> DEFINE d == operator[o]
                 e == [d EXCEPT !.pc = "checked"]
      <4>1. /\ operator' = [operator EXCEPT ![o] = e]
               \/ operator' = [operator EXCEPT ![o] = IdleOperator]
            /\ d \in OperatorType /\ d.key \in Keys
        BY <1>0, <3>3 DEF ActivateCheck, OperatorsInv
      <4>2. e \in OperatorType /\ e.key \in Keys /\ IdleOperator.pc = "idle"
        BY <4>1 DEF OperatorType, IdleOperator
      <4> HIDE DEF d, e
      <4> QED BY <1>0, <4>1, <4>2
    <3> QED BY <2>3, <3>1, <3>2, <3>3 DEF Operate
  <2>4. ASSUME NEW g \in Gateways, Enforce(g) PROVE UNCHANGED operator
    BY <2>4 DEF Enforce, Receive, Resolve, ResolveNone, Evaluate, Recheck, Finish
  <2> QED BY <2>1, <2>2, <2>3, <2>4 DEF Next, vars, Tick
<1>4. gate' \in [Gateways -> GateType]
  <2>1. CASE UNCHANGED gate
    BY <1>0, <2>1
  <2>2. ASSUME NEW g \in Gateways, Enforce(g)
        PROVE  \E d \in GateType : gate' = [gate EXCEPT ![g] = d]
    <3> DEFINE d == gate[g]
    <3>0. d \in GateType
      BY <1>0
    <3>1. ASSUME NEW c \in Contracts \union {None}, Receive(g, c)
          PROVE  \E e \in GateType : gate' = [gate EXCEPT ![g] = e]
      <4>1. [IdleGate EXCEPT !.pc = "new", !.claim = c,
                             !.governed = (Rows # {})] \in GateType
        BY <1>0 DEF GateType
      <4> QED BY <3>1, <4>1 DEF Receive
    <3>2. ASSUME NEW k \in Keys, Resolve(g, k)
          PROVE  \E e \in GateType : gate' = [gate EXCEPT ![g] = e]
      <4>1. gate' = [gate EXCEPT ![g] = [d EXCEPT !.pc = "resolved", !.bound = k]]
        BY <3>2 DEF Resolve
      <4>2. [d EXCEPT !.pc = "resolved", !.bound = k] \in GateType
        BY <3>0 DEF GateType
      <4> QED BY <4>1, <4>2
    <3>3. CASE ResolveNone(g) \/ Evaluate(g) \/ Recheck(g)
      <4>1. \E pc \in {"allowed", "cleared"} :
               gate' = [gate EXCEPT ![g] = [d EXCEPT !.pc = pc]]
        BY <3>3 DEF ResolveNone, Evaluate, Recheck
      <4>2. \A pc \in {"allowed", "cleared"} : [d EXCEPT !.pc = pc] \in GateType
        BY <3>0 DEF GateType
      <4> QED BY <4>1, <4>2
    <3>4. CASE Finish(g)
      BY <1>0, <3>4 DEF Finish
    <3> QED BY <2>2, <3>1, <3>2, <3>3, <3>4 DEF Enforce
  <2>3. ASSUME NEW o \in Operators, Operate(o) PROVE UNCHANGED gate
    BY <2>3 DEF Operate, SaveCheck, SaveInsert, TransitionRead, TransitionWrite,
                ActivateCheck, OperatorAbandons
  <2> QED BY <1>0, <2>1, <2>2, <2>3 DEF Next, vars, Tick
<1> QED BY <1>1, <1>2, <1>3, <1>4 DEF TypeOK

LEMMA NextGatesInv ==
    ASSUME IInv, [Next]_vars
    PROVE  GatesInv'
<1>0. /\ GatesInv /\ gate \in [Gateways -> GateType] /\ None \notin Keys
      /\ Rows \subseteq Rows'
  BY NoneIsNoKey, NextOneActive DEF IInv, TypeOK
<1>1. CASE UNCHANGED gate
  BY <1>0, <1>1 DEF GatesInv
<1>2. ASSUME NEW g \in Gateways, Enforce(g)
      PROVE  GatesInv'
  <2> DEFINE d == gate[g]
             e == gate'[g]
  <2>1. \A h \in Gateways : h # g => gate'[h] = gate[h]
    BY <1>0, <1>2 DEF Enforce, Receive, Resolve, ResolveNone, Evaluate, Recheck,
                      Finish
  <2>2. /\ e.pc = "new" /\ e.governed => Rows' # {}
        /\ e.pc = "resolved" => e.bound \in Keys
        /\ e.pc \in {"allowed", "cleared"} /\ e.governed => e.bound \in Keys
    <3>0. d \in GateType
      BY <1>0
    <3>1. CASE \E c \in Contracts \union {None} : Receive(g, c)
      <4>1. PICK c \in Contracts \union {None} : e = [IdleGate EXCEPT !.pc = "new",
                             !.claim = c, !.governed = (Rows # {})]
        BY <1>0, <3>1 DEF Receive
      <4>2. e.pc = "new" /\ (e.governed <=> Rows # {})
        BY <4>1 DEF IdleGate
      <4>3. Rows # {} => Rows' # {}
        BY <1>0
      <4> QED BY <4>2, <4>3
    <3>2. ASSUME NEW k \in Keys, Resolve(g, k)
          PROVE  e.pc = "resolved" /\ e.bound \in Keys
      BY <1>0, <3>0, <3>2 DEF Resolve, GateType
    <3>3. CASE ResolveNone(g)
      <4>1. e.pc = "allowed" /\ e.governed = d.governed /\ d.pc = "new" /\ Rows = {}
        BY <1>0, <3>0, <3>3 DEF ResolveNone, NotFound, GateType
      <4> QED BY <1>0, <3>0, <4>1 DEF GatesInv, GateType
    <3>4. CASE Evaluate(g) \/ Recheck(g)
      <4>1. /\ d.pc \in {"resolved", "allowed"} /\ e.pc \in {"allowed", "cleared"}
            /\ e.governed = d.governed /\ e.bound = d.bound
        BY <1>0, <3>0, <3>4 DEF Evaluate, Recheck, GateType
      <4> QED BY <1>0, <4>1 DEF GatesInv
    <3>5. CASE Finish(g)
      BY <1>0, <3>5 DEF Finish, IdleGate
    <3> QED BY <1>2, <3>1, <3>2, <3>3, <3>4, <3>5 DEF Enforce
  <2> HIDE DEF d, e
  <2>3. \A h \in Gateways : h = g => gate'[h] = e
    BY DEF e
  <2> QED BY <1>0, <2>1, <2>2, <2>3 DEF GatesInv
<1>3. ASSUME NEW o \in Operators, Operate(o) PROVE UNCHANGED gate
  BY <1>3 DEF Operate, SaveCheck, SaveInsert, TransitionRead, TransitionWrite,
              ActivateCheck, OperatorAbandons
<1> QED BY <1>1, <1>2, <1>3 DEF Next, vars, Tick

-----------------------------------------------------------------------------

\* The inductive invariant of the contract store and its readers.
THEOREM Invariant == Spec => []IInv
<1>1. IInv /\ [Next]_vars => IInv'
  BY NextTypeOK, NextOneActive, NextGatesInv DEF IInv
<1> QED BY InitIInv, <1>1, PTL DEF Spec

\* The rows and the handlers' locals keep their types.
THEOREM TypeCorrect == Spec => []TypeOK
BY Invariant, PTL DEF IInv

\* The partial unique index keeps one ACTIVE contract, whatever the operators'
\* reads of transition_contract_status and save_contract have missed.
THEOREM AtMostOneActive == Spec => []OneActive
BY Invariant, PTL DEF IInv

\* An agent that has had a contract is never let through without one.
THEOREM GovernanceIsForGood == Spec => []GovernedStaysGoverned
<1>1. IInv => GovernedStaysGoverned
  BY NoneIsNoKey DEF IInv, GatesInv, GovernedStaysGoverned
<1> QED BY Invariant, <1>1, PTL

\* assert_contract_current_for_dispatch clears a request only under the version
\* it was decided under, ACTIVE and inside its window at that moment.
THEOREM ClearanceIsCurrent == Spec => ClearedUnderItsContract
<1> DEFINE Current == \A g \in Gateways :
          (gate[g].pc # "cleared" /\ gate'[g].pc = "cleared" /\ gate[g].bound # None)
              => /\ status[gate[g].bound] = "ACTIVE"
                 /\ window[gate[g].bound].from =< now
                 /\ now < window[gate[g].bound].until
<1>1. IInv /\ [Next]_vars => [Current]_vars
  <2> SUFFICES ASSUME IInv, [Next]_vars, NEW g \in Gateways,
                      gate[g].pc # "cleared", gate'[g].pc = "cleared",
                      gate[g].bound # None
               PROVE  /\ status[gate[g].bound] = "ACTIVE"
                      /\ window[gate[g].bound].from =< now
                      /\ now < window[gate[g].bound].until
    OBVIOUS
  <2>1. gate \in [Gateways -> GateType]
    BY DEF IInv, TypeOK
  <2>2. ASSUME NEW h \in Gateways, Enforce(h)
        PROVE  Recheck(g)
    <3>1. h = g
      BY <2>1, <2>2 DEF Enforce, Receive, Resolve, ResolveNone, Evaluate,
                        Recheck, Finish
    <3>2. \A c \in Contracts \union {None} : ~Receive(g, c)
      BY <2>1 DEF Receive, IdleGate
    <3>3. \A k \in Keys : ~Resolve(g, k)
      BY <2>1 DEF Resolve, GateType
    <3>4. ~ResolveNone(g) /\ ~Evaluate(g)
      BY <2>1 DEF ResolveNone, Evaluate, GateType
    <3>5. ~Finish(g)
      BY <2>1 DEF Finish, IdleGate
    <3> QED BY <2>2, <3>1, <3>2, <3>3, <3>4, <3>5 DEF Enforce
  <2>3. Recheck(g)
    BY <2>2 DEF Next, vars, Tick, Operate, SaveCheck, SaveInsert, TransitionRead,
                TransitionWrite, ActivateCheck, OperatorAbandons
  <2> QED BY <2>3 DEF Recheck, Selected, SameVersion, ActiveRows, InWindow
<1> QED BY Invariant, <1>1, PTL DEF Spec, ClearedUnderItsContract

(***************************************************************************)
(* One operator at a time.                                                 *)
(***************************************************************************)

LEMMA InitUnraced == Init => Unraced
BY DEF Init, Unraced, IdleOperator

LEMMA NextUnraced ==
    ASSUME \A o, p \in Operators : o = p,
           IInv, Unraced, [Next]_vars
    PROVE  Unraced'
<1>0. /\ operator \in [Operators -> OperatorType]
      /\ status \in [Keys -> Statuses \union {"absent"}]
  BY DEF IInv, TypeOK
<1>1. ASSUME NEW o \in Operators, Operate(o)
      PROVE  Unraced'
  <2> DEFINE d == operator[o]
             e == operator'[o]
  <2>0. \A p \in Operators : p = o
    OBVIOUS
  <2>1. ASSUME NEW k \in Keys, NEW s \in Spellings, TransitionRead(o, k, s)
        PROVE  Unraced'
    <3>1. /\ e.key = k /\ e.want = Normalized(s) /\ UNCHANGED status
          /\ k \in Rows /\ Normalized(s) \in Legal[status[k]]
      BY <1>0, <2>1 DEF TransitionRead
    <3> QED BY <2>0, <3>1 DEF Unraced, Rows
  <2>2. CASE ActivateCheck(o)
    <3>1. /\ d \in OperatorType /\ d.pc = "loaded" /\ UNCHANGED status
          /\ \/ e = IdleOperator
             \/ e = [d EXCEPT !.pc = "checked"]
      BY <1>0, <2>2 DEF ActivateCheck
    <3>2. d.key \in Rows /\ d.want \in Legal[status[d.key]] /\ Rows' = Rows
      BY <3>1 DEF Unraced, Rows
    <3>3. CASE e = IdleOperator
      <4>1. e.pc = "idle"
        BY <3>3 DEF IdleOperator
      <4> QED BY <2>0, <4>1 DEF Unraced
    <3>4. CASE e = [d EXCEPT !.pc = "checked"]
      <4>1. e.key = d.key /\ e.want = d.want
        BY <3>1, <3>4 DEF OperatorType
      <4> HIDE DEF d, e
      <4>2. \A p \in Operators : operator'[p] = e
        BY <2>0 DEF e
      <4> QED BY <3>1, <3>2, <4>1, <4>2 DEF Unraced
    <3> QED BY <3>1, <3>3, <3>4
  <2>3. CASE \/ \E k \in Keys, s \in Spellings : SaveCheck(o, k, s)
             \/ \E w \in Windows : SaveInsert(o, w)
             \/ TransitionWrite(o) \/ OperatorAbandons(o)
    <3>1. e.pc \in {"idle", "saving"}
      BY <1>0, <2>3 DEF SaveCheck, SaveInsert, TransitionWrite, OperatorAbandons,
                        IdleOperator
    <3> QED BY <2>0, <3>1 DEF Unraced
  <2> QED BY <1>1, <2>1, <2>2, <2>3 DEF Operate
<1>2. CASE UNCHANGED <<operator, status>>
  BY <1>2 DEF Unraced, Rows
<1>3. ASSUME NEW g \in Gateways, Enforce(g) PROVE UNCHANGED <<operator, status>>
  BY <1>3 DEF Enforce, Receive, Resolve, ResolveNone, Evaluate, Recheck, Finish
<1> QED BY <1>1, <1>2, <1>3 DEF Next, vars, Tick

\* With one control-plane thread the store implements the registry: the
\* lifecycle of contract_store.py is legal when nothing races it.
THEOREM OneOperatorImplements ==
    ASSUME \A o, p \in Operators : o = p
    PROVE  Spec => ImplementsRegistry
<1>1. Init => status = [k \in Keys |-> "absent"]
  BY DEF Init
<1>2. IInv /\ Unraced /\ [Next]_vars => [Registry!Next]_status
  <2> SUFFICES ASSUME IInv, Unraced, [Next]_vars
               PROVE  Registry!Next \/ UNCHANGED status
    OBVIOUS
  <2>0. \A o \in Operators : operator[o].pc # "idle" =>
            operator[o].key \in Keys /\ operator[o].want \in Statuses
    BY DEF IInv, TypeOK, OperatorType, OperatorsInv
  <2>1. ASSUME NEW k \in Keys, NEW s \in Statuses, IndexAllows(k, s)
        PROVE  s = "ACTIVE" => Registry!Vacant(k)
    BY <2>1 DEF IndexAllows, ActiveRows, Rows, Registry!Vacant
  <2>2. ASSUME NEW o \in Operators, NEW w \in Windows, SaveInsert(o, w)
        PROVE  Registry!Next \/ UNCHANGED status
    <3>1. CASE status[operator[o].key] = "absent"
               /\ IndexAllows(operator[o].key, operator[o].want)
      <4>1. PICK k \in Keys, s \in Statuses :
               /\ status[k] = "absent" /\ IndexAllows(k, s)
               /\ status' = [status EXCEPT ![k] = s]
        BY <2>0, <2>2, <3>1 DEF SaveInsert
      <4>2. Registry!Create(k, s)
        BY <2>1, <4>1 DEF Registry!Create
      <4> QED BY <4>2 DEF Registry!Next
    <3>2. CASE ~(status[operator[o].key] = "absent"
                 /\ IndexAllows(operator[o].key, operator[o].want))
      BY <2>2, <3>2 DEF SaveInsert
    <3> QED BY <3>1, <3>2
  <2>3. ASSUME NEW o \in Operators, TransitionWrite(o)
        PROVE  Registry!Next \/ UNCHANGED status
    <3>1. CASE IndexAllows(operator[o].key, operator[o].want)
      <4>1. PICK k \in Keys, s \in Statuses :
               /\ k \in Rows /\ s \in Legal[status[k]] /\ IndexAllows(k, s)
               /\ status' = [status EXCEPT ![k] = s]
        BY <2>0, <2>3, <3>1 DEF TransitionWrite, Unraced
      <4>2. status[k] \in Statuses /\ status[k] # "absent"
        BY <4>1 DEF IInv, TypeOK, Rows
      <4>3. Registry!Stage(s) > Registry!Stage(status[k])
        BY <4>1, <4>2 DEF Registry!Stage, Legal, Statuses
      <4>4. Registry!Move(k, s)
        BY <2>1, <4>1, <4>2, <4>3 DEF Registry!Move
      <4> QED BY <4>4 DEF Registry!Next
    <3>2. CASE ~IndexAllows(operator[o].key, operator[o].want)
      BY <2>3, <3>2 DEF TransitionWrite
    <3> QED BY <3>1, <3>2
  <2> QED
    BY <2>2, <2>3 DEF Next, vars, Tick, Operate, Enforce, SaveCheck,
       TransitionRead, ActivateCheck, OperatorAbandons, Receive, Resolve,
       ResolveNone, Evaluate, Recheck, Finish
<1>3. Unraced /\ IInv /\ [Next]_vars => Unraced'
  BY NextUnraced
<1> QED BY <1>1, <1>2, <1>3, InitUnraced, Invariant, PTL
    DEF Spec, ImplementsRegistry, Registry!Spec
=============================================================================
