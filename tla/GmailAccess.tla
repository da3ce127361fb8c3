----------------------------- MODULE GmailAccess ------------------------------
(***************************************************************************)
(* Who may use a tenant's mailbox, and which mailbox a call reaches.       *)
(* Operators connect and disconnect a mailbox and grant it to agents on    *)
(* the control plane (routers/gmail.py); the connection lives in one file  *)
(* for all tenants, which every writer reads, changes and writes back      *)
(* whole (gmail_store.py); grants are rows of the database                 *)
(* (services/gmail_access.py).  The gateway reads both before it           *)
(* dispatches, and the connector, a process of its own, turns the stored   *)
(* credential into an access token that it keeps (protected/gmail.py).     *)
(* Time is what is left of the life of a token.                            *)
(***************************************************************************)
EXTENDS Integers

CONSTANTS
    Tenants,     \* organizations
    Agents,      \* agents
    OrgOf,       \* OrgOf[a]: the tenant of agent a
    Mailboxes,   \* Google accounts
    AccountsOf,  \* AccountsOf[t]: the accounts that operators of t can consent for
    Rows,        \* ids of grant rows
    Handlers,    \* control-plane threads serving operators
    Calls,       \* gateway threads serving agents' Gmail requests
    Lifetime,    \* life of an access token
    Slack,       \* a token with no more left than this is not used
    None         \* no mailbox, no tenant, no agent

ASSUME ConstantsAssumption ==
    /\ OrgOf \in [Agents -> Tenants]
    /\ AccountsOf \in [Tenants -> SUBSET Mailboxes]
    /\ None \notin Mailboxes \union Tenants \union Agents
    /\ Lifetime \in Nat /\ Slack \in Nat

VARIABLES
    file,     \* file[t]: the mailbox recorded in the store, None when there is no record
    grants,   \* grants[a]: the active grant rows of agent a
    enabled,  \* the agents whose status is "active"
    cache,    \* cache[t]: the connector's access token
    handler,  \* handler[h]: the request of control-plane thread h
    call      \* call[c]: the request of gateway thread c, then of the connector

vars == <<file, grants, enabled, cache, handler, call>>

\* Faulty variants, each a plausible slip in the definition it is named after.
NeverExpires(t) == cache[t].box # None
AnyRecord(t) ==
    IF \E s \in Tenants : file[s] # None
    THEN CHOOSE b \in Mailboxes : \E s \in Tenants : file[s] = b ELSE None
NoIndex(a) == TRUE

NoToken == [box |-> None, left |-> 0]
IdleHandler == [pc |-> "idle", org |-> None, agent |-> None, box |-> None,
                snap |-> [t \in Tenants |-> None], rows |-> {}]
IdleCall == [pc |-> "idle", agent |-> None, box |-> None]

Init ==
    /\ file = [t \in Tenants |-> None]
    /\ grants = [a \in Agents |-> {}]
    /\ enabled = Agents
    /\ cache = [t \in Tenants |-> NoToken]
    /\ handler = [h \in Handlers |-> IdleHandler]
    /\ call = [c \in Calls |-> IdleCall]

AgentsOf(t) == {a \in Agents : OrgOf[a] = t}

\* active_grant found nothing.
HasNoGrant(a) == grants[a] = {}

\* uq_gmail_grant_one_active_per_agent, as it judges the INSERT of a row of a.
IndexAdmits(a) == grants[a] = {}

\* The record of tenant t.
Record(t) == file[t]

\* _AccessToken.valid.
Usable(t) == cache[t].box # None /\ cache[t].left > Slack

-----------------------------------------------------------------------------
(***************************************************************************)
(* Operators, on the control plane.  The connector object of that process  *)
(* makes no calls: its forget_tokens changes nothing here.                 *)
(***************************************************************************)

\* oauth_callback, with a state that was signed for tenant t and has not
\* expired (the server keeps nothing of it): Google has exchanged the code of
\* the account that the operator chose.
Callback(h, t, b) ==
    /\ handler[h].pc = "idle" /\ b \in AccountsOf[t]
    /\ handler' = [handler EXCEPT ![h] = [@ EXCEPT !.pc = "load", !.org = t, !.box = b]]
    /\ UNCHANGED <<file, grants, enabled, cache, call>>

\* save_connection: reads the whole file, ...
LoadToSave(h) ==
    /\ handler[h].pc = "load"
    /\ handler' = [handler EXCEPT ![h] = [@ EXCEPT !.pc = "save", !.snap = file]]
    /\ UNCHANGED <<file, grants, enabled, cache, call>>

\* ... and replaces it.
Save(h) ==
    /\ handler[h].pc = "save"
    /\ file' = [handler[h].snap EXCEPT ![handler[h].org] = handler[h].box]
    /\ handler' = [handler EXCEPT ![h] = IdleHandler]
    /\ UNCHANGED <<grants, enabled, cache, call>>

\* disconnect: reads the whole file; without a record nothing is written, but
\* the grants are revoked all the same.
LoadToDelete(h, t) ==
    /\ handler[h].pc = "idle"
    /\ handler' = [handler EXCEPT ![h] =
           IF file[t] = None THEN [@ EXCEPT !.pc = "list", !.org = t]
                             ELSE [@ EXCEPT !.pc = "delete", !.org = t, !.snap = file]]
    /\ UNCHANGED <<file, grants, enabled, cache, call>>

Delete(h) ==
    /\ handler[h].pc = "delete"
    /\ file' = [handler[h].snap EXCEPT ![handler[h].org] = None]
    /\ handler' = [handler EXCEPT ![h] = [IdleHandler EXCEPT !.pc = "list", !.org = handler[h].org]]
    /\ UNCHANGED <<grants, enabled, cache, call>>

\* revoke_all_for_organization: loads the active rows, ...
ListGrants(h) ==
    /\ handler[h].pc = "list"
    /\ handler' = [handler EXCEPT ![h] = [IdleHandler EXCEPT
           !.pc = "drop", !.rows = UNION {grants[a] : a \in AgentsOf(handler[h].org)}]]
    /\ UNCHANGED <<file, grants, enabled, cache, call>>

\* ... and updates them by id, as does revoke its one row.
DropGrants(h) ==
    /\ handler[h].pc = "drop"
    /\ grants' = [a \in Agents |-> grants[a] \ handler[h].rows]
    /\ handler' = [handler EXCEPT ![h] = IdleHandler]
    /\ UNCHANGED <<file, enabled, cache, call>>

\* revoke_agent_access: takes some active row of the agent.
PickGrant(h, a, r) ==
    /\ handler[h].pc = "idle" /\ r \in grants[a]
    /\ handler' = [handler EXCEPT ![h] = [@ EXCEPT !.pc = "drop", !.rows = {r}]]
    /\ UNCHANGED <<file, grants, enabled, cache, call>>

\* grant_agent_access: a mailbox is connected and the agent is active.
StartGrant(h, a) ==
    /\ handler[h].pc = "idle" /\ a \in enabled /\ file[OrgOf[a]] # None
    /\ handler' = [handler EXCEPT ![h] = [@ EXCEPT !.pc = "look", !.agent = a]]
    /\ UNCHANGED <<file, grants, enabled, cache, call>>

\* grant: an active row is kept (with the new address); otherwise one is added.
LookForGrant(h) ==
    /\ handler[h].pc = "look"
    /\ handler' = [handler EXCEPT ![h] =
           IF HasNoGrant(handler[h].agent) THEN [@ EXCEPT !.pc = "insert"]
                                           ELSE IdleHandler]
    /\ UNCHANGED <<file, grants, enabled, cache, call>>

\* The row's id is new: no row has it, and no handler has loaded it.
InsertGrant(h, r) ==
    /\ handler[h].pc = "insert" /\ IndexAdmits(handler[h].agent)
    /\ \A a \in Agents : r \notin grants[a]
    /\ \A g \in Handlers : r \notin handler[g].rows
    /\ grants' = [grants EXCEPT ![handler[h].agent] = @ \union {r}]
    /\ handler' = [handler EXCEPT ![h] = IdleHandler]
    /\ UNCHANGED <<file, enabled, cache, call>>

\* Another request has added a row since the look: IntegrityError, which nobody
\* catches; the operator is answered 500.
GrantConflict(h) ==
    /\ handler[h].pc = "insert" /\ ~IndexAdmits(handler[h].agent)
    /\ handler' = [handler EXCEPT ![h] = IdleHandler]
    /\ UNCHANGED <<file, grants, enabled, cache, call>>

\* The store cannot be read or written, or the process dies: the rest of the
\* handler does not happen.
HandlerFails(h) ==
    /\ handler[h].pc # "idle"
    /\ handler' = [handler EXCEPT ![h] = IdleHandler]
    /\ UNCHANGED <<file, grants, enabled, cache, call>>

RevokeAgent(a) ==
    /\ enabled' = enabled \ {a}
    /\ UNCHANGED <<file, grants, cache, handler, call>>

-----------------------------------------------------------------------------
(***************************************************************************)
(* A Gmail request.  The gateway's part ends with the grant; between it    *)
(* and the connector's part lie the checks and the token of Dispatch.      *)
(***************************************************************************)

Step(c, pc) == call' = [call EXCEPT ![c].pc = pc]
End(c) == call' = [call EXCEPT ![c] = IdleCall]

\* Authenticated, and decided ALLOW or APPROVAL.
StartCall(c, a) ==
    /\ call[c].pc = "idle" /\ a \in enabled
    /\ call' = [call EXCEPT ![c] = [@ EXCEPT !.pc = "connection", !.agent = a]]
    /\ UNCHANGED <<file, grants, enabled, cache, handler>>

\* evaluate: the connection first (an unreadable store is no connection), ...
ReadConnection(c) ==
    /\ call[c].pc = "connection"
    /\ \/ file[OrgOf[call[c].agent]] # None /\ Step(c, "grant")
       \/ End(c)
    /\ UNCHANGED <<file, grants, enabled, cache, handler>>

\* ... then the grant.  Without either the decision is withdrawn.
ReadGrant(c) ==
    /\ call[c].pc = "grant"
    /\ IF HasNoGrant(call[c].agent) THEN End(c) ELSE Step(c, "token")
    /\ UNCHANGED <<file, grants, enabled, cache, handler>>

\* _access_token: a usable token of the tenant is taken from the cache; ...
TakeCached(c) ==
    LET t == OrgOf[call[c].agent] IN
    /\ call[c].pc = "token" /\ Usable(t)
    /\ call' = [call EXCEPT ![c] = [@ EXCEPT !.pc = "api", !.box = cache[t].box]]
    /\ UNCHANGED <<file, grants, enabled, cache, handler>>

\* ... otherwise the stored credential is revealed, ...
Reveal(c) ==
    LET t == OrgOf[call[c].agent] IN
    /\ call[c].pc = "token" /\ ~Usable(t) /\ Record(t) # None
    /\ call' = [call EXCEPT ![c] = [@ EXCEPT !.pc = "refresh", !.box = Record(t)]]
    /\ UNCHANGED <<file, grants, enabled, cache, handler>>

\* ... exchanged at Google without the lock, and the answer cached.
Refresh(c) ==
    /\ call[c].pc = "refresh"
    /\ cache' = [cache EXCEPT ![OrgOf[call[c].agent]] = [box |-> call[c].box, left |-> Lifetime]]
    /\ Step(c, "api")
    /\ UNCHANGED <<file, grants, enabled, handler>>

\* Google serves one request of the operation.  A search goes on with the next
\* message, for which it asks for a token again.
Serve(c) ==
    /\ call[c].pc = "api"
    /\ \/ End(c)
       \/ call' = [call EXCEPT ![c] = [@ EXCEPT !.pc = "token", !.box = None]]
    /\ UNCHANGED <<file, grants, enabled, cache, handler>>

\* 401 or 403: the tenant's token is forgotten.
Refuse(c) ==
    /\ call[c].pc = "api"
    /\ cache' = [cache EXCEPT ![OrgOf[call[c].agent]] = NoToken]
    /\ End(c)
    /\ UNCHANGED <<file, grants, enabled, handler>>

\* No credential is stored, Google refuses it or another answer is an error,
\* or the gateway or the connector gives up on the request.
CallFails(c) ==
    /\ call[c].pc \in {"token", "refresh", "api"}
    /\ End(c)
    /\ UNCHANGED <<file, grants, enabled, cache, handler>>

\* The connector's container restarts: its tokens were in memory.
ConnectorRestarts ==
    /\ cache' = [t \in Tenants |-> NoToken]
    /\ call' = [c \in Calls |-> IF call[c].pc \in {"token", "refresh", "api"}
                                THEN IdleCall ELSE call[c]]
    /\ UNCHANGED <<file, grants, enabled, handler>>

Older(n) == IF n = 0 THEN 0 ELSE n - 1

Tick ==
    /\ cache' = [t \in Tenants |-> [cache[t] EXCEPT !.left = Older(@)]]
    /\ UNCHANGED <<file, grants, enabled, handler, call>>

Handler(h) ==
    \/ \E t \in Tenants : LoadToDelete(h, t) \/ \E b \in Mailboxes : Callback(h, t, b)
    \/ LoadToSave(h) \/ Save(h) \/ Delete(h) \/ ListGrants(h) \/ DropGrants(h)
    \/ \E a \in Agents : StartGrant(h, a) \/ \E r \in Rows : PickGrant(h, a, r)
    \/ LookForGrant(h) \/ GrantConflict(h) \/ HandlerFails(h)
    \/ \E r \in Rows : InsertGrant(h, r)

\* What a request does once it has begun.
Proceed(c) ==
    \/ ReadConnection(c) \/ ReadGrant(c) \/ TakeCached(c) \/ Reveal(c) \/ Refresh(c)
    \/ Serve(c) \/ Refuse(c) \/ CallFails(c)

Next ==
    \/ \E h \in Handlers : Handler(h)
    \/ \E a \in Agents : RevokeAgent(a)
    \/ \E c \in Calls : Proceed(c) \/ \E a \in Agents : StartCall(c, a)
    \/ ConnectorRestarts
    \/ Tick

Spec == Init /\ [][Next]_vars

\* Time passes, and a request that has begun comes to an end: every wait of
\* the connector and of the gateway has a time-out.  Nobody has to begin one.
FairSpec == Spec /\ WF_vars(Tick) /\ \A c \in Calls : WF_vars(Proceed(c))

-----------------------------------------------------------------------------

HandlerType ==
    [pc : {"idle", "load", "save", "delete", "list", "drop", "look", "insert"},
     org : Tenants \union {None}, agent : Agents \union {None},
     box : Mailboxes \union {None}, snap : [Tenants -> Mailboxes \union {None}],
     rows : SUBSET Rows]

CallType ==
    [pc : {"idle", "connection", "grant", "token", "refresh", "api"},
     agent : Agents \union {None}, box : Mailboxes \union {None}]

\* The stores, the cache and the requests keep their types.
TypeOK ==
    /\ file \in [Tenants -> Mailboxes \union {None}]
    /\ grants \in [Agents -> SUBSET Rows]
    /\ enabled \in SUBSET Agents
    /\ cache \in [Tenants -> [box : Mailboxes \union {None}, left : 0..Lifetime]]
    /\ handler \in [Handlers -> HandlerType]
    /\ call \in [Calls -> CallType]

\* A request reaches Google with a token of its own tenant's mailbox, or with
\* none: neither the file that all tenants share, nor a copy of it written
\* back late, nor the connector's cache mixes tenants up.
OwnMailbox ==
    \A c \in Calls : call[c].pc = "api" => call[c].box \in AccountsOf[OrgOf[call[c].agent]]

\* Revoking disarms: the two handlers that revoke load rows by one query and
\* update them by id in another, and while they do, two grants of one agent may
\* both have found no row; still, when the row of an agent is revoked, none is
\* left that would let it go on.
RevokeDisarms ==
    [][\A a \in Agents : ~(grants[a] \subseteq grants'[a]) => grants'[a] = {}]_vars

\* Once the record of a tenant stays as it is, the requests of its agents
\* come to use that mailbox and no other; none, when there is no record.
MailboxSettles ==
    \A t \in Tenants :
        <>[][UNCHANGED file[t]]_vars =>
            <>[](\A c \in Calls : call[c].pc = "api" /\ OrgOf[call[c].agent] = t
                                      => call[c].box = file[t])

\* The live connection is resolved from the store at call time (models.py:466):
\* while a mailbox is on record, a request takes a token of that one.
LiveConnection ==
    [][\A c \in Calls : LET box == file[OrgOf[call[c].agent]] IN
           call[c].pc = "token" /\ call'[c].pc = "api" /\ box # None
               => call'[c].box = box]_vars

(***************************************************************************)
(* The inductive invariant.                                                *)
(***************************************************************************)

Owned(t) == AccountsOf[t] \union {None}

\* Every copy of a tenant's record, the cached tokens included.
RecordsInv ==
    /\ \A t \in Tenants : file[t] \in Owned(t) /\ cache[t].box \in Owned(t)
    /\ \A h \in Handlers, t \in Tenants : handler[h].snap[t] \in Owned(t)
    /\ \A h \in Handlers : handler[h].pc \in {"load", "save"} =>
           handler[h].org \in Tenants /\ handler[h].box \in AccountsOf[handler[h].org]
    /\ \A c \in Calls : call[c].pc # "idle" => call[c].agent \in Agents
    /\ \A c \in Calls : call[c].pc \in {"refresh", "api"} =>
           call[c].box \in AccountsOf[OrgOf[call[c].agent]]

\* What the index keeps: one active row of an agent at most.
GrantsInv == \A a \in Agents : \A r, s \in grants[a] : r = s

IInv == TypeOK /\ RecordsInv /\ GrantsInv
=============================================================================
