-------------------------- MODULE GmailAccessProofs ---------------------------
(***************************************************************************)
(* For any tenants, agents, mailboxes and threads: no request reaches      *)
(* Google with another tenant's mailbox, and a revocation leaves an agent  *)
(* no active grant.  The first needs every copy of a record (the file, the *)
(* copies that handlers are about to write back, the connector's cache and *)
(* the requests under way) to name an account of its tenant; the second    *)
(* needs that an agent has one active row at most, which nothing but the   *)
(* unique index keeps once two threads have found none.                    *)
(***************************************************************************)
EXTENDS GmailAccess, TLAPS

USE ConstantsAssumption

\* Initially nothing is connected, granted or requested.
LEMMA InitInv == ASSUME Init PROVE IInv
<1>1. TypeOK
  BY DEF Init, TypeOK, HandlerType, CallType, IdleHandler, IdleCall, NoToken
<1>2. RecordsInv
  BY DEF Init, RecordsInv, Owned, IdleHandler, IdleCall, NoToken
<1>3. GrantsInv
  BY DEF Init, GrantsInv
<1> QED BY <1>1, <1>2, <1>3 DEF IInv

-----------------------------------------------------------------------------

\* A thread may take any request of its type.
LEMMA HandlerUpdate ==
    ASSUME TypeOK, NEW h \in Handlers, NEW r \in HandlerType,
           handler' = [handler EXCEPT ![h] = r]
    PROVE  handler' \in [Handlers -> HandlerType]
BY DEF TypeOK

\* A step of an operator's request keeps the types.
LEMMA HandlerTypes == ASSUME IInv, NEW h \in Handlers, Handler(h) PROVE TypeOK'
<1>0. TypeOK
  BY DEF IInv
<1>t. handler[h] \in HandlerType
  BY <1>0 DEF TypeOK
<1>i. IdleHandler \in HandlerType
  BY DEF IdleHandler, HandlerType
<1>s. file \in [Tenants -> Mailboxes \union {None}] /\ handler[h].snap \in [Tenants -> Mailboxes \union {None}]
  BY <1>0, <1>t DEF TypeOK, HandlerType
<1>u. ASSUME NEW r \in HandlerType, handler' = [handler EXCEPT ![h] = r],
             UNCHANGED <<file, grants, enabled, cache, call>>
      PROVE  TypeOK'
  <2>1. handler' \in [Handlers -> HandlerType]
    BY <1>0, <1>u, HandlerUpdate
  <2> QED BY <1>0, <1>u, <2>1 DEF TypeOK
<1>1. ASSUME NEW t \in Tenants, LoadToDelete(h, t) PROVE TypeOK'
  <2>1. /\ [handler[h] EXCEPT !.pc = "list", !.org = t] \in HandlerType
        /\ [handler[h] EXCEPT !.pc = "delete", !.org = t, !.snap = file] \in HandlerType
    BY <1>t, <1>s DEF HandlerType
  <2> QED BY <1>1, <1>u, <2>1 DEF LoadToDelete
<1>2. ASSUME NEW t \in Tenants, NEW b \in Mailboxes, Callback(h, t, b) PROVE TypeOK'
  <2>1. [handler[h] EXCEPT !.pc = "load", !.org = t, !.box = b] \in HandlerType
    BY <1>t DEF HandlerType
  <2> QED BY <1>2, <1>u, <2>1 DEF Callback
<1>3. CASE LoadToSave(h)
  <2>1. [handler[h] EXCEPT !.pc = "save", !.snap = file] \in HandlerType
    BY <1>t, <1>s DEF HandlerType
  <2> QED BY <1>3, <1>u, <2>1 DEF LoadToSave
<1>4. CASE Save(h) \/ Delete(h)
  <2>1. file' \in [Tenants -> Mailboxes \union {None}]
    BY <1>4, <1>t, <1>s DEF Save, Delete, HandlerType
  <2>2. [IdleHandler EXCEPT !.pc = "list", !.org = handler[h].org] \in HandlerType
    BY <1>i, <1>t DEF HandlerType
  <2>3. handler' \in [Handlers -> HandlerType]
    BY <1>0, <1>4, <1>i, <2>2, HandlerUpdate DEF Save, Delete
  <2> QED BY <1>0, <1>4, <2>1, <2>3 DEF Save, Delete, TypeOK
<1>5. CASE ListGrants(h)
  <2> DEFINE rows == UNION {grants[a] : a \in AgentsOf(handler[h].org)}
  <2>1. rows \in SUBSET Rows
    BY <1>0 DEF TypeOK, AgentsOf
  <2>2. [IdleHandler EXCEPT !.pc = "drop", !.rows = rows] \in HandlerType
    BY <1>i, <2>1 DEF HandlerType
  <2> QED BY <1>5, <1>u, <2>2 DEF ListGrants
<1>6. CASE DropGrants(h)
  <2>1. handler' \in [Handlers -> HandlerType]
    BY <1>0, <1>6, <1>i, HandlerUpdate DEF DropGrants
  <2>2. grants' \in [Agents -> SUBSET Rows]
    BY <1>0, <1>6 DEF DropGrants, TypeOK
  <2> QED BY <1>0, <1>6, <2>1, <2>2 DEF DropGrants, TypeOK
<1>7. ASSUME NEW a \in Agents, StartGrant(h, a) PROVE TypeOK'
  <2>1. [handler[h] EXCEPT !.pc = "look", !.agent = a] \in HandlerType
    BY <1>t DEF HandlerType
  <2> QED BY <1>7, <1>u, <2>1 DEF StartGrant
<1>8. ASSUME NEW a \in Agents, NEW r \in Rows, PickGrant(h, a, r) PROVE TypeOK'
  <2>1. [handler[h] EXCEPT !.pc = "drop", !.rows = {r}] \in HandlerType
    BY <1>t DEF HandlerType
  <2> QED BY <1>8, <1>u, <2>1 DEF PickGrant
<1>9. CASE LookForGrant(h) \/ GrantConflict(h) \/ HandlerFails(h)
  <2>1. [handler[h] EXCEPT !.pc = "insert"] \in HandlerType
    BY <1>t DEF HandlerType
  <2> QED BY <1>9, <1>i, <1>u, <2>1 DEF LookForGrant, GrantConflict, HandlerFails
<1>10. ASSUME NEW r \in Rows, InsertGrant(h, r) PROVE TypeOK'
  <2>1. handler' \in [Handlers -> HandlerType]
    BY <1>0, <1>10, <1>i, HandlerUpdate DEF InsertGrant
  <2>2. grants' \in [Agents -> SUBSET Rows]
    BY <1>0, <1>10 DEF InsertGrant, TypeOK
  <2> QED BY <1>0, <1>10, <2>1, <2>2 DEF InsertGrant, TypeOK
<1> QED BY <1>1, <1>2, <1>3, <1>4, <1>5, <1>6, <1>7, <1>8, <1>9, <1>10 DEF Handler

\* A step of a Gmail request keeps the types.
LEMMA CallTypes == ASSUME IInv, NEW c \in Calls, Proceed(c) PROVE TypeOK'
<1>0. TypeOK /\ RecordsInv
  BY DEF IInv
<1>t. call[c] \in CallType /\ IdleCall \in CallType
  BY <1>0 DEF TypeOK, IdleCall, CallType
<1>u. ASSUME NEW r \in CallType, call' = [call EXCEPT ![c] = r],
             UNCHANGED <<file, grants, enabled, handler>>,
             cache' \in [Tenants -> [box : Mailboxes \union {None}, left : 0..Lifetime]]
      PROVE  TypeOK'
  <2>1. call' \in [Calls -> CallType]
    BY <1>0, <1>u DEF TypeOK
  <2> QED BY <1>0, <1>u, <2>1 DEF TypeOK
<1>c. cache \in [Tenants -> [box : Mailboxes \union {None}, left : 0..Lifetime]]
  BY <1>0 DEF TypeOK
<1>p. \A pc \in {"grant", "token", "api"} : [call[c] EXCEPT !.pc = pc] \in CallType
  BY <1>t DEF CallType
<1>s. \A pc : Step(c, pc) => call' = [call EXCEPT ![c] = [call[c] EXCEPT !.pc = pc]]
  BY DEF Step
<1>1. CASE ReadConnection(c) \/ ReadGrant(c) \/ CallFails(c)
  BY <1>1, <1>t, <1>u, <1>c, <1>p, <1>s DEF ReadConnection, ReadGrant, CallFails, End
<1>2. call[c].pc # "idle" => OrgOf[call[c].agent] \in Tenants
  BY <1>0 DEF RecordsInv
<1>3. CASE TakeCached(c) \/ Reveal(c)
  <2>1. OrgOf[call[c].agent] \in Tenants
    BY <1>2, <1>3 DEF TakeCached, Reveal
  <2>2. \A pc \in {"api", "refresh"}, b \in Mailboxes \union {None} :
            [call[c] EXCEPT !.pc = pc, !.box = b] \in CallType
    BY <1>t DEF CallType
  <2>3. /\ cache[OrgOf[call[c].agent]].box \in Mailboxes \union {None}
        /\ Record(OrgOf[call[c].agent]) \in Mailboxes \union {None}
    BY <1>0, <2>1 DEF TypeOK, Record
  <2> QED BY <1>3, <1>u, <1>c, <2>2, <2>3 DEF TakeCached, Reveal
<1>4. CASE Refresh(c)
  <2>1. cache' \in [Tenants -> [box : Mailboxes \union {None}, left : 0..Lifetime]]
    <3>1. [box |-> call[c].box, left |-> Lifetime]
              \in [box : Mailboxes \union {None}, left : 0..Lifetime]
      BY <1>t DEF CallType
    <3> QED BY <1>c, <1>4, <3>1 DEF Refresh
  <2> QED BY <1>4, <1>u, <1>p, <1>s, <2>1 DEF Refresh
<1>5. CASE Serve(c)
  <2>1. [call[c] EXCEPT !.pc = "token", !.box = None] \in CallType
    BY <1>t DEF CallType
  <2> QED BY <1>5, <1>t, <1>u, <1>c, <2>1 DEF Serve, End
<1>6. CASE Refuse(c)
  <2>1. NoToken \in [box : Mailboxes \union {None}, left : 0..Lifetime]
    BY DEF NoToken
  <2>2. cache' \in [Tenants -> [box : Mailboxes \union {None}, left : 0..Lifetime]]
    BY <1>c, <1>6, <2>1 DEF Refuse
  <2> QED BY <1>6, <1>t, <1>u, <2>2 DEF Refuse, End
<1> QED BY <1>1, <1>3, <1>4, <1>5, <1>6 DEF Proceed

\* Every step keeps the types.
LEMMA TypeStep == ASSUME IInv, [Next]_vars PROVE TypeOK'
<1>0. TypeOK
  BY DEF IInv
<1>1. CASE UNCHANGED vars
  BY <1>0, <1>1 DEF TypeOK, vars
<1>2. ASSUME NEW a \in Agents, RevokeAgent(a) PROVE TypeOK'
  BY <1>0, <1>2 DEF RevokeAgent, TypeOK
<1>3. ASSUME NEW c \in Calls, NEW a \in Agents, StartCall(c, a) PROVE TypeOK'
  BY <1>0, <1>3 DEF StartCall, TypeOK, CallType
<1>4. CASE ConnectorRestarts
  BY <1>0, <1>4 DEF ConnectorRestarts, TypeOK, CallType, IdleCall, NoToken
<1>5. CASE Tick
  <2>1. \A n \in 0..Lifetime : Older(n) \in 0..Lifetime
    BY DEF Older
  <2>2. \A t \in Tenants : cache[t] \in [box : Mailboxes \union {None}, left : 0..Lifetime]
    BY <1>0 DEF TypeOK
  <2>3. \A t \in Tenants : [cache[t] EXCEPT !.left = Older(@)]
                               \in [box : Mailboxes \union {None}, left : 0..Lifetime]
    BY <2>1, <2>2
  <2> QED BY <1>0, <1>5, <2>3 DEF Tick, TypeOK
<1> QED BY <1>1, <1>2, <1>3, <1>4, <1>5, HandlerTypes, CallTypes DEF Next

-----------------------------------------------------------------------------

\* A step of an operator's request keeps every copy of a record its tenant's.
LEMMA HandlerRecords == ASSUME IInv, NEW h \in Handlers, Handler(h) PROVE RecordsInv'
<1>0. TypeOK /\ RecordsInv
  BY DEF IInv
<1> DEFINE Keeps == /\ \A t \in Tenants : handler'[h].snap[t] \in Owned(t)
                    /\ handler'[h].pc \in {"load", "save"} =>
                           /\ handler'[h].org \in Tenants
                           /\ handler'[h].box \in AccountsOf[handler'[h].org]
<1>1. ASSUME Keeps, \A g \in Handlers \ {h} : handler'[g] = handler[g],
             \A t \in Tenants : file'[t] \in Owned(t), UNCHANGED <<cache, call>>
      PROVE  RecordsInv'
  <2>1. \A g \in Handlers, t \in Tenants : handler'[g].snap[t] \in Owned(t)
    BY <1>0, <1>1 DEF RecordsInv
  <2>2. \A g \in Handlers : handler'[g].pc \in {"load", "save"} =>
            handler'[g].org \in Tenants /\ handler'[g].box \in AccountsOf[handler'[g].org]
    BY <1>0, <1>1 DEF RecordsInv
  <2> QED BY <1>0, <1>1, <2>1, <2>2 DEF RecordsInv, Owned
<1>2. handler[h] \in HandlerType /\ handler \in [Handlers -> HandlerType]
  BY <1>0 DEF TypeOK
<1>3. \A t \in Tenants : file[t] \in Owned(t) /\ handler[h].snap[t] \in Owned(t)
  BY <1>0 DEF RecordsInv
<1>4. /\ IdleHandler.pc = "idle"
      /\ \A t \in Tenants : IdleHandler.snap[t] \in Owned(t)
  BY DEF IdleHandler, Owned
<1>5. ASSUME NEW t \in Tenants, LoadToDelete(h, t) PROVE RecordsInv'
  <2>1. Keeps
    BY <1>2, <1>3, <1>5 DEF LoadToDelete, HandlerType
  <2> QED BY <1>1, <1>2, <1>3, <1>5, <2>1 DEF LoadToDelete
<1>6. ASSUME NEW t \in Tenants, NEW b \in Mailboxes, Callback(h, t, b) PROVE RecordsInv'
  <2>1. Keeps
    BY <1>2, <1>3, <1>6 DEF Callback, HandlerType
  <2> QED BY <1>1, <1>2, <1>3, <1>6, <2>1 DEF Callback
<1>7. CASE LoadToSave(h)
  <2>1. Keeps
    BY <1>0, <1>2, <1>3, <1>7 DEF LoadToSave, HandlerType, RecordsInv
  <2> QED BY <1>1, <1>2, <1>3, <1>7, <2>1 DEF LoadToSave
<1>8. CASE Save(h)
  <2>1. handler' = [handler EXCEPT ![h] = IdleHandler]
    BY <1>8 DEF Save
  <2>2. Keeps
    BY <1>2, <1>4, <2>1
  <2>3. handler[h].org \in Tenants /\ handler[h].box \in AccountsOf[handler[h].org]
    BY <1>0, <1>8 DEF Save, RecordsInv
  <2>4. \A t \in Tenants : file'[t] \in Owned(t)
    <3>1. file' = [handler[h].snap EXCEPT ![handler[h].org] = handler[h].box]
      BY <1>8 DEF Save
    <3>2. handler[h].snap \in [Tenants -> Mailboxes \union {None}]
      BY <1>2 DEF HandlerType
    <3> QED BY <1>3, <2>3, <3>1, <3>2 DEF Owned
  <2> QED BY <1>1, <1>2, <1>8, <2>1, <2>2, <2>4 DEF Save
<1>9. CASE Delete(h)
  <2>1. handler' = [handler EXCEPT ![h] = [IdleHandler EXCEPT !.pc = "list", !.org = handler[h].org]]
    BY <1>9 DEF Delete
  <2>2. Keeps
    BY <1>2, <1>4, <2>1 DEF IdleHandler
  <2>3. \A t \in Tenants : file'[t] \in Owned(t)
    <3>1. file' = [handler[h].snap EXCEPT ![handler[h].org] = None]
      BY <1>9 DEF Delete
    <3>2. handler[h].snap \in [Tenants -> Mailboxes \union {None}]
      BY <1>2 DEF HandlerType
    <3> QED BY <1>3, <3>1, <3>2 DEF Owned
  <2> QED BY <1>1, <1>2, <1>9, <2>1, <2>2, <2>3 DEF Delete
<1>10. CASE ListGrants(h)
  <2>1. handler' = [handler EXCEPT ![h] = [IdleHandler EXCEPT
            !.pc = "drop", !.rows = UNION {grants[a] : a \in AgentsOf(handler[h].org)}]]
    BY <1>10 DEF ListGrants
  <2>2. Keeps
    BY <1>2, <1>4, <2>1 DEF IdleHandler
  <2> QED BY <1>1, <1>2, <1>3, <1>10, <2>1, <2>2 DEF ListGrants
<1>11. CASE DropGrants(h) \/ GrantConflict(h) \/ HandlerFails(h)
            \/ \E r \in Rows : InsertGrant(h, r)
  <2>1. handler' = [handler EXCEPT ![h] = IdleHandler] /\ UNCHANGED <<file, cache, call>>
    BY <1>11 DEF DropGrants, GrantConflict, HandlerFails, InsertGrant
  <2>2. Keeps
    BY <1>2, <1>4, <2>1
  <2> QED BY <1>1, <1>2, <1>3, <2>1, <2>2
<1>12. ASSUME NEW a \in Agents, StartGrant(h, a) PROVE RecordsInv'
  <2>1. Keeps
    BY <1>2, <1>3, <1>12 DEF StartGrant, HandlerType
  <2> QED BY <1>1, <1>2, <1>3, <1>12, <2>1 DEF StartGrant
<1>13. ASSUME NEW a \in Agents, NEW r \in Rows, PickGrant(h, a, r) PROVE RecordsInv'
  <2>1. Keeps
    BY <1>2, <1>3, <1>13 DEF PickGrant, HandlerType
  <2> QED BY <1>1, <1>2, <1>3, <1>13, <2>1 DEF PickGrant
<1>14. CASE LookForGrant(h)
  <2>1. Keeps
    BY <1>2, <1>3, <1>4, <1>14 DEF LookForGrant, HandlerType
  <2> QED BY <1>1, <1>2, <1>3, <1>14, <2>1 DEF LookForGrant
<1> QED
  BY <1>5, <1>6, <1>7, <1>8, <1>9, <1>10, <1>11, <1>12, <1>13, <1>14 DEF Handler

\* A step of a Gmail request keeps every copy of a record its tenant's.
LEMMA CallRecords == ASSUME IInv, NEW c \in Calls, Proceed(c) PROVE RecordsInv'
<1>0. TypeOK /\ RecordsInv
  BY DEF IInv
<1>1. call \in [Calls -> CallType] /\ call[c] \in CallType
  BY <1>0 DEF TypeOK
<1>2. ASSUME \A d \in Calls \ {c} : call'[d] = call[d],
             call'[c].pc # "idle" => call'[c].agent \in Agents,
             call'[c].pc \in {"refresh", "api"} =>
                 call'[c].box \in AccountsOf[OrgOf[call'[c].agent]],
             \A t \in Tenants : cache'[t].box \in Owned(t),
             UNCHANGED <<file, handler>>
      PROVE  RecordsInv'
  <2>1. \A d \in Calls : call'[d].pc # "idle" => call'[d].agent \in Agents
    BY <1>0, <1>2 DEF RecordsInv
  <2>2. \A d \in Calls : call'[d].pc \in {"refresh", "api"} =>
            call'[d].box \in AccountsOf[OrgOf[call'[d].agent]]
    BY <1>0, <1>2 DEF RecordsInv
  <2> QED BY <1>0, <1>2, <2>1, <2>2 DEF RecordsInv, Owned
<1>3. \A t \in Tenants : cache[t].box \in Owned(t)
  BY <1>0 DEF RecordsInv
<1>4. call[c].pc # "idle" => call[c].agent \in Agents /\ OrgOf[call[c].agent] \in Tenants
  BY <1>0 DEF RecordsInv
<1>5. CASE ReadConnection(c) \/ ReadGrant(c) \/ Serve(c) \/ CallFails(c)
  <2>1. UNCHANGED <<file, cache, handler>>
    BY <1>5 DEF ReadConnection, ReadGrant, Serve, CallFails
  <2>2. call[c].pc # "idle"
    BY <1>5 DEF ReadConnection, ReadGrant, Serve, CallFails
  <2>3. \/ call' = [call EXCEPT ![c].pc = "grant"]
        \/ call' = [call EXCEPT ![c].pc = "token"]
        \/ call' = [call EXCEPT ![c] = IdleCall]
        \/ call' = [call EXCEPT ![c] = [call[c] EXCEPT !.pc = "token", !.box = None]]
    BY <1>5 DEF ReadConnection, ReadGrant, Serve, CallFails, Step, End
  <2>4. /\ \A d \in Calls \ {c} : call'[d] = call[d]
        /\ call'[c].pc \in {"grant", "token", "idle"}
        /\ call'[c].pc # "idle" => call'[c].agent = call[c].agent
    <3>1. IdleCall.pc = "idle"
      BY DEF IdleCall
    <3>2. CASE call' = [call EXCEPT ![c] = IdleCall]
      BY <1>1, <3>1, <3>2
    <3>3. CASE call' = [call EXCEPT ![c].pc = "grant"] \/ call' = [call EXCEPT ![c].pc = "token"]
      BY <1>1, <3>3 DEF CallType
    <3>4. CASE call' = [call EXCEPT ![c] = [call[c] EXCEPT !.pc = "token", !.box = None]]
      BY <1>1, <3>4 DEF CallType
    <3> QED BY <2>3, <3>2, <3>3, <3>4
  <2> QED BY <1>2, <1>3, <1>4, <2>1, <2>2, <2>4
<1>6. CASE TakeCached(c)
  <2>1. cache[OrgOf[call[c].agent]].box \in AccountsOf[OrgOf[call[c].agent]]
    BY <1>3, <1>4, <1>6 DEF TakeCached, Usable, Owned
  <2> QED BY <1>1, <1>2, <1>3, <1>4, <1>6, <2>1 DEF TakeCached, CallType
<1>7. CASE Reveal(c)
  <2>1. file[OrgOf[call[c].agent]] \in AccountsOf[OrgOf[call[c].agent]]
    BY <1>0, <1>4, <1>7 DEF Reveal, Record, RecordsInv, Owned
  <2> QED BY <1>1, <1>2, <1>3, <1>4, <1>7, <2>1 DEF Reveal, Record, CallType
<1>8. CASE Refresh(c)
  <2>1. call[c].box \in AccountsOf[OrgOf[call[c].agent]]
    BY <1>0, <1>8 DEF Refresh, RecordsInv
  <2>2. \A t \in Tenants : cache'[t].box \in Owned(t)
    BY <1>0, <1>3, <1>4, <1>8, <2>1 DEF Refresh, TypeOK, Owned
  <2> QED BY <1>1, <1>2, <1>4, <1>8, <2>1, <2>2 DEF Refresh, Step, CallType
<1>9. CASE Refuse(c)
  <2>1. \A t \in Tenants : cache'[t].box \in Owned(t)
    BY <1>0, <1>3, <1>9 DEF Refuse, TypeOK, Owned, NoToken
  <2> QED BY <1>1, <1>2, <1>4, <1>9, <2>1 DEF Refuse, End, IdleCall, CallType
<1> QED BY <1>5, <1>6, <1>7, <1>8, <1>9 DEF Proceed

\* Every copy of a record stays its tenant's.
LEMMA RecordsStep == ASSUME IInv, [Next]_vars PROVE RecordsInv'
<1>0. TypeOK /\ RecordsInv
  BY DEF IInv
<1>1. CASE UNCHANGED vars
  BY <1>0, <1>1 DEF RecordsInv, Owned, vars
<1>2. ASSUME NEW a \in Agents, RevokeAgent(a) PROVE RecordsInv'
  BY <1>0, <1>2 DEF RevokeAgent, RecordsInv, Owned
<1>3. ASSUME NEW c \in Calls, NEW a \in Agents, StartCall(c, a) PROVE RecordsInv'
  BY <1>0, <1>3 DEF StartCall, RecordsInv, Owned, TypeOK, CallType
<1>4. CASE ConnectorRestarts
  BY <1>0, <1>4 DEF ConnectorRestarts, RecordsInv, Owned, NoToken, IdleCall, TypeOK
<1>5. CASE Tick
  <2>1. \A t \in Tenants : cache'[t].box = cache[t].box
    BY <1>0, <1>5 DEF Tick, TypeOK
  <2> QED BY <1>0, <1>5, <2>1 DEF Tick, RecordsInv, Owned
<1> QED BY <1>1, <1>2, <1>3, <1>4, <1>5, HandlerRecords, CallRecords DEF Next

-----------------------------------------------------------------------------

\* What a step does to the rows: nothing, revoke some, or add one that the index
\* admits.
LEMMA GrantSteps ==
    ASSUME IInv, [Next]_vars
    PROVE  \/ UNCHANGED grants
           \/ \E rows : grants' = [a \in Agents |-> grants[a] \ rows]
           \/ \E b, r : IndexAdmits(b) /\ grants' = [grants EXCEPT ![b] = @ \union {r}]
<1>1. ASSUME NEW h \in Handlers, Handler(h)
      PROVE  \/ UNCHANGED grants \/ DropGrants(h) \/ \E r \in Rows : InsertGrant(h, r)
  BY <1>1 DEF Handler, LoadToDelete, Callback, LoadToSave, Save, Delete, ListGrants, StartGrant,
              PickGrant, LookForGrant, GrantConflict, HandlerFails
<1>2. ASSUME NEW c \in Calls, Proceed(c) PROVE UNCHANGED grants
  BY <1>2 DEF Proceed, ReadConnection, ReadGrant, TakeCached, Reveal, Refresh, Serve, Refuse,
              CallFails
<1>3. CASE UNCHANGED vars \/ ConnectorRestarts \/ Tick
           \/ \E a \in Agents : RevokeAgent(a) \/ \E c \in Calls : StartCall(c, a)
  BY <1>3 DEF vars, ConnectorRestarts, Tick, RevokeAgent, StartCall
<1>4. ASSUME NEW h \in Handlers, DropGrants(h)
      PROVE  \E rows : grants' = [a \in Agents |-> grants[a] \ rows]
  BY <1>4 DEF DropGrants
<1>5. ASSUME NEW h \in Handlers, NEW r \in Rows, InsertGrant(h, r)
      PROVE  \E b, q : IndexAdmits(b) /\ grants' = [grants EXCEPT ![b] = @ \union {q}]
  BY <1>5 DEF InsertGrant
<1> QED BY <1>1, <1>2, <1>3, <1>4, <1>5 DEF Next

\* An agent keeps one active row at most.
LEMMA GrantsStep == ASSUME IInv, [Next]_vars PROVE GrantsInv'
<1>0. grants \in [Agents -> SUBSET Rows] /\ GrantsInv
  BY DEF IInv, TypeOK
<1>1. CASE UNCHANGED grants
  BY <1>0, <1>1 DEF GrantsInv
<1>2. ASSUME NEW rows, grants' = [a \in Agents |-> grants[a] \ rows] PROVE GrantsInv'
  BY <1>0, <1>2 DEF GrantsInv
<1>3. ASSUME NEW b, NEW r, IndexAdmits(b), grants' = [grants EXCEPT ![b] = @ \union {r}]
      PROVE  GrantsInv'
  <2>1. ASSUME NEW a \in Agents PROVE grants'[a] = IF a = b THEN {r} ELSE grants[a]
    BY <1>0, <1>3, <2>1 DEF IndexAdmits
  <2> QED BY <1>0, <2>1 DEF GrantsInv
<1> QED BY <1>1, <1>2, <1>3, GrantSteps

-----------------------------------------------------------------------------

\* The inductive invariant holds in every reachable state.
THEOREM Invariant == Spec => []IInv
<1>1. IInv /\ [Next]_vars => IInv'
  BY TypeStep, RecordsStep, GrantsStep DEF IInv
<1> QED BY InitInv, <1>1, PTL DEF Spec

\* The stores, the cache and the requests keep their types.
THEOREM TypeCorrect == Spec => []TypeOK
<1>1. IInv => TypeOK
  BY DEF IInv
<1> QED BY <1>1, Invariant, PTL

\* However the copies of the shared file are written back, and whatever the
\* connector caches, a request uses a mailbox of its own tenant.
THEOREM TenantsAreSeparate == Spec => []OwnMailbox
<1>1. IInv => OwnMailbox
  BY DEF IInv, RecordsInv, OwnMailbox
<1> QED BY <1>1, Invariant, PTL

\* When a row of an agent is revoked, the agent is left without access, however
\* the grants and the revocations of several operators overlap.
THEOREM RevocationDisarms == Spec => RevokeDisarms
<1> DEFINE Disarms == \A a \in Agents : ~(grants[a] \subseteq grants'[a]) => grants'[a] = {}
<1>1. IInv /\ [Next]_vars => [Disarms]_vars
  <2> SUFFICES ASSUME IInv, [Next]_vars, NEW a \in Agents, ~(grants[a] \subseteq grants'[a])
               PROVE  grants'[a] = {}
    OBVIOUS
  <2>0. grants \in [Agents -> SUBSET Rows] /\ \A r, s \in grants[a] : r = s
    BY DEF IInv, TypeOK, GrantsInv
  <2>1. PICK rows : grants' = [b \in Agents |-> grants[b] \ rows]
    BY <2>0, GrantSteps
  <2> QED BY <2>0, <2>1
<1> QED BY Invariant, <1>1, PTL DEF Spec, RevokeDisarms
=============================================================================
