---------------------------- MODULE AgentCredential ----------------------------
(***************************************************************************)
(* One agent, its access tokens and the operators who rotate and revoke    *)
(* them (routers/agents.py), as get_agent_from_token sees them             *)
(* (security.py) on every call.  A handler reads the agent, then its       *)
(* credentials, and writes the rows it has read by id when it commits; a   *)
(* call is let in on two reads, of the credential and of the agent.        *)
(***************************************************************************)
EXTENDS Integers, FiniteSets

CONSTANTS
    Tokens,      \* bound: the tokens that are ever issued
    FirstToken,  \* the one that create_agent issued
    Operators,   \* control-plane threads serving operators
    Calls,       \* gateway threads serving the agent's calls
    NoToken      \* no token

ASSUME CredentialAssumption ==
    /\ FirstToken \in Tokens /\ NoToken \notin Tokens
    /\ IsFiniteSet(Operators) /\ Operators # {}

VARIABLES
    status,    \* agents.status
    cred,      \* cred[t]: credentials.status of token t
    expired,   \* the tokens whose expires_at has passed
    operator,  \* operator[o]: what thread o does, and the rows it has loaded
    latest,    \* history: latest[o] is the token that thread o issued last
    call       \* call[c]: how far call c has come; history: whether it came
               \* when the agent was revoked

credentialVars == <<status, cred, expired, operator, latest, call>>

Waiting == [pc |-> "waiting", token |-> NoToken, late |-> FALSE]
Free == [pc |-> "free", loaded |-> {}]

\* create_agent has committed the agent and its first credential.
CredentialInit ==
    /\ status = "active"
    /\ cred = [t \in Tokens |-> IF t = FirstToken THEN "active" ELSE "unissued"]
    /\ expired = {}
    /\ operator = [o \in Operators |-> Free]
    /\ latest = [o \in Operators |-> FirstToken]
    /\ call = [c \in Calls |-> Waiting]

Active == {t \in Tokens : cred[t] = "active"}

\* Faulty variants, each a plausible slip in the definition it is named after.
NoneLoaded(kind) == {}
AnyAgent == TRUE

\* The rows that the handler will write: a rotation retires the active ones, a
\* revocation all that are not revoked yet.
Retiring(kind) ==
    IF kind = "rotate" THEN Active
    ELSE {t \in Tokens : cred[t] \in {"active", "rotated"}}

\* get_agent_from_token: the credential and its expiry, ...
Valid(t) == t \in Active /\ t \notin expired

\* ... then its agent.
AgentActive == status = "active"

LoadAgent(o, kind) ==
    /\ operator[o].pc = "free"
    /\ kind = "rotate" => status = "active"
    /\ operator' = [operator EXCEPT ![o].pc = kind]
    /\ UNCHANGED <<status, cred, expired, latest, call>>

LoadCredentials(o, kind) ==
    /\ operator[o].pc = kind
    /\ operator' = [operator EXCEPT ![o] =
           [pc |-> IF kind = "rotate" THEN "issue" ELSE "disable", loaded |-> Retiring(kind)]]
    /\ UNCHANGED <<status, cred, expired, latest, call>>

\* The commit of rotate_credential.
Rotate(o, t) ==
    /\ operator[o].pc = "issue" /\ cred[t] = "unissued"
    /\ cred' = [u \in Tokens |-> IF u = t THEN "active"
                                 ELSE IF u \in operator[o].loaded THEN "rotated" ELSE cred[u]]
    /\ latest' = [latest EXCEPT ![o] = t]
    /\ operator' = [operator EXCEPT ![o] = Free]
    /\ UNCHANGED <<status, expired, call>>

\* The commit of revoke_agent.
Revoke(o) ==
    /\ operator[o].pc = "disable"
    /\ status' = "revoked"
    /\ cred' = [u \in Tokens |-> IF u \in operator[o].loaded THEN "revoked" ELSE cred[u]]
    /\ operator' = [operator EXCEPT ![o] = Free]
    /\ UNCHANGED <<expired, latest, call>>

\* The request fails before its commit.
GiveUp(o) ==
    /\ operator[o].pc # "free"
    /\ operator' = [operator EXCEPT ![o] = Free]
    /\ UNCHANGED <<status, cred, expired, latest, call>>

Expire(t) ==
    /\ cred[t] # "unissued"
    /\ expired' = expired \union {t}
    /\ UNCHANGED <<status, cred, operator, latest, call>>

\* A call comes with some token of the agent, in use or not.
Arrive(c, t) ==
    /\ call[c].pc = "waiting" /\ cred[t] # "unissued"
    /\ call' = [call EXCEPT ![c] = [pc |-> "arrived", token |-> t, late |-> status = "revoked"]]
    /\ UNCHANGED <<status, cred, expired, operator, latest>>

ReadCredential(c) ==
    /\ call[c].pc = "arrived"
    /\ call' = [call EXCEPT ![c] = IF Valid(call[c].token) THEN [@ EXCEPT !.pc = "known"]
                                                         ELSE Waiting]
    /\ UNCHANGED <<status, cred, expired, operator, latest>>

ReadAgent(c) ==
    /\ call[c].pc = "known"
    /\ call' = [call EXCEPT ![c] = IF AgentActive THEN [@ EXCEPT !.pc = "in"] ELSE Waiting]
    /\ UNCHANGED <<status, cred, expired, operator, latest>>

\* The rest of the call, which asks for nothing of this again.
Finish(c) ==
    /\ call[c].pc = "in"
    /\ call' = [call EXCEPT ![c] = Waiting]
    /\ UNCHANGED <<status, cred, expired, operator, latest>>

Operator(o) ==
    \/ \E kind \in {"rotate", "revoke"} : LoadAgent(o, kind) \/ LoadCredentials(o, kind)
    \/ \E t \in Tokens : Rotate(o, t)
    \/ Revoke(o)
    \/ GiveUp(o)

Gateway(c) ==
    \/ \E t \in Tokens : Arrive(c, t)
    \/ ReadCredential(c) \/ ReadAgent(c) \/ Finish(c)

CredentialNext ==
    \/ \E o \in Operators : Operator(o)
    \/ \E c \in Calls : Gateway(c)
    \/ \E t \in Tokens : Expire(t)

CredentialSpec == CredentialInit /\ [][CredentialNext]_credentialVars

-----------------------------------------------------------------------------

\* The rows and the handlers keep their types.
CredentialTypeOK ==
    /\ status \in {"active", "revoked"}
    /\ cred \in [Tokens -> {"unissued", "active", "rotated", "revoked"}]
    /\ expired \in SUBSET Tokens
    /\ operator \in [Operators ->
           [pc : {"free", "rotate", "revoke", "issue", "disable"}, loaded : SUBSET Tokens]]
    /\ latest \in [Operators -> Tokens]
    /\ call \in [Calls -> [pc : {"waiting", "arrived", "known", "in"},
                           token : Tokens \union {NoToken}, late : BOOLEAN]]

\* However rotations and revocations overlap, an agent never has more active
\* tokens than there are threads serving operators; with one of them a rotation
\* leaves the new token alone.
ActiveBound == Cardinality(Active) =< Cardinality(Operators)

\* A call that comes when the agent is revoked is not let in, although a
\* rotation that had read the agent before may leave it an active token.
RevokedStaysOut == \A c \in Calls : call[c].late => call[c].pc # "in"

(***************************************************************************)
(* The inductive invariant: every active token is the latest of some       *)
(* thread, a thread that has loaded the credentials will retire its own    *)
(* latest one, and what is issued is never issued again.                   *)
(***************************************************************************)

LatestInv ==
    /\ \A t \in Active : \E o \in Operators : latest[o] = t
    /\ \A o \in Operators : cred[latest[o]] # "unissued"
    /\ \A o \in Operators : operator[o].pc = "issue" /\ latest[o] \in Active
                                => latest[o] \in operator[o].loaded

\* Nothing makes a revoked agent active again.
LateInv == \A c \in Calls : call[c].late => status = "revoked" /\ call[c].pc # "in"

CredentialInv == CredentialTypeOK /\ LatestInv /\ LateInv
=============================================================================
