---------------------------- MODULE EvidenceChain ----------------------------
(***************************************************************************)
(* The evidence chain of one execution, whose id several requests of one   *)
(* agent share, under concurrent gateway threads: authorize_request (a new *)
(* decision), _resume_approved_request (an approved one) and the reseal of *)
(* a decision the gateway withdraws after it was committed.                *)
(*                                                                         *)
(* SELECTs see the latest commit and take no lock; the first INSERT or     *)
(* UPDATE takes SQLite's write lock until commit.  A handler loads the     *)
(* execution row once and keeps that row's chain tip until it commits,     *)
(* while every query for events is fresh.                                  *)
(***************************************************************************)
EXTENDS Integers, Sequences

CONSTANTS
    Threads,    \* gateway threads
    Requests,   \* request ids an agent submits
    MaxCalls,   \* the contract's operation_limits.max_calls
    MaxEvents,  \* bound: the length of the chain
    None        \* the holder of a free write lock

Decisions == {"ALLOW", "APPROVAL", "BLOCK"}

ASSUME ConstantsAssumption ==
    /\ MaxCalls \in Nat \ {0} /\ MaxEvents \in Nat
    /\ None \notin Threads

VARIABLES
    events,   \* the execution's rows of the events table, in commit order
    created,  \* does the executions row exist?
    tip,      \* executions.evidence_chain_tip
    writer,   \* holder of the write lock between two steps
    thread,   \* thread[w]: the state of one handler
    alarmed   \* has a critical integrity alert been recorded?

vars == <<events, created, tip, writer, thread, alarmed>>

(***************************************************************************)
(* The chain.  The digest of an event covers its decision and the digest   *)
(* before it, so it is the sequence of decisions up to that event; what    *)
(* else it covers never changes once the row exists.                       *)
(***************************************************************************)

Hashes == Seq(Decisions)

Genesis == <<>>

Digest(decision, previous) == Append(previous, decision)

\* A faulty variant: the events in ascending order.
Earliest == events[CHOOSE i \in DOMAIN events : \A j \in DOMAIN events :
                       events[j].seq > events[i].seq \/ j >= i]

\* The sealed event with the highest seq, the newest of those that tie.
Predecessor ==
    events[CHOOSE i \in DOMAIN events : \A j \in DOMAIN events :
               events[j].seq < events[i].seq \/ (events[j].seq = events[i].seq /\ j <= i)]

LastHash == IF events = <<>> THEN Genesis ELSE Predecessor.hash

\* max(seq) + 1.
NextSeq == IF events = <<>> THEN 1 ELSE Predecessor.seq + 1

LinkBroken(i) ==
    events[i].previous # IF i = 1 THEN Genesis ELSE events[i - 1].hash

\* Faulty variants, each a plausible slip in the check it is named after.
SealWithoutTip(t) == TRUE
LimitOffByOne(n) == n > MaxCalls + 1
RedeemAgain(i) == TRUE
UnsignedRewrite(e) == [e EXCEPT !.decision = "BLOCK", !.withdrawn = TRUE]
Relinked(e) ==
    LET previous == IF e.seq = 1 THEN Genesis ELSE events[e.seq - 1].hash
    IN  [e EXCEPT !.decision = "BLOCK", !.withdrawn = TRUE,
                  !.previous = previous, !.hash = Digest("BLOCK", previous)]

\* assert_execution_evidence_integrity, with the tip the caller's row holds.
Intact(t) ==
    /\ \A i \in DOMAIN events :
          /\ ~LinkBroken(i)
          /\ events[i].hash = Digest(events[i].decision, events[i].previous)
          /\ i > 1 => events[i].seq = events[i - 1].seq + 1
    /\ t = LastHash

\* seal_execution_event's check of the loaded tip against the predecessor.
Sealable(t) == events = <<>> \/ t = Genesis \/ t = LastHash

\* _evaluate_constraints: the trajectory's length against max_calls.
OverLimit(n) == n > MaxCalls

\* claim: has the grant on approval event i been consumed?
Unredeemed(i) == \A j \in DOMAIN events : events[j].redeems # i

\* Event e withdrawn, with the digest reseal_execution_event gives it.
Withdrawn(e) ==
    [e EXCEPT !.decision = "BLOCK", !.withdrawn = TRUE,
              !.hash = Digest("BLOCK", e.previous)]

-----------------------------------------------------------------------------

Idle == [pc |-> "idle", req |-> None, tip |-> Genesis, seen |-> 0,
         progress |-> 0, seq |-> 0, decision |-> "BLOCK", event |-> 0,
         isLast |-> FALSE]

Init ==
    /\ events = <<>>
    /\ created = FALSE
    /\ tip = Genesis
    /\ writer = None
    /\ thread = [w \in Threads |-> Idle]
    /\ alarmed = FALSE

\* Event e is sealed onto the predecessor and commits with the new tip.
Commit(w, e) ==
    LET id   == Len(events) + 1
        hash == Digest(e.decision, LastHash)
    IN  /\ Len(events) < MaxEvents
        /\ events' = Append(events, [req |-> e.req, seq |-> e.seq,
                        decision |-> e.decision, seen |-> e.seen,
                        progress |-> e.progress, redeems |-> e.redeems,
                        previous |-> LastHash, hash |-> hash,
                        withdrawn |-> FALSE])
        /\ tip' = hash
        /\ created' = TRUE
        /\ writer' = None
        /\ thread' = [thread EXCEPT ![w] =
              IF e.decision = "BLOCK" THEN Idle
              ELSE [Idle EXCEPT !.pc = "answered", !.event = id]]

(***************************************************************************)
(* authorize_request for a new request.                                    *)
(***************************************************************************)

\* No event of this agent has the request id yet.
Lookup(w, q) ==
    /\ thread[w].pc = "idle"
    /\ ~\E i \in DOMAIN events : events[i].req = q
    /\ thread' = [thread EXCEPT ![w] = [Idle EXCEPT !.pc = "new", !.req = q]]
    /\ UNCHANGED <<events, created, tip, writer, alarmed>>

\* get_or_create_execution: the row is loaded, with its tip, ...
Load(w) ==
    /\ thread[w].pc = "new"
    /\ thread' = [thread EXCEPT ![w].pc = IF created THEN "loaded" ELSE "absent",
                                ![w].tip = tip]
    /\ UNCHANGED <<events, created, tip, writer, alarmed>>

\* ... or inserted, under the write lock; a second insert of the id fails.
Insert(w) ==
    /\ thread[w].pc = "absent"
    /\ writer = None
    /\ IF created
       THEN /\ thread' = [thread EXCEPT ![w] = Idle]
            /\ UNCHANGED writer
       ELSE /\ thread' = [thread EXCEPT ![w].pc = "loaded"]
            /\ writer' = w
    /\ UNCHANGED <<events, created, tip, alarmed>>

Verify(w) ==
    /\ thread[w].pc = "loaded"
    /\ Intact(thread[w].tip)
    /\ thread' = [thread EXCEPT ![w].pc = "verified"]
    /\ UNCHANGED <<events, created, tip, writer, alarmed>>

\* The failure is recorded as a critical alert and the caller gets a 409.
VerifyFails(w) ==
    /\ thread[w].pc = "loaded"
    /\ ~Intact(thread[w].tip)
    /\ writer = None
    /\ alarmed' = TRUE
    /\ thread' = [thread EXCEPT ![w] = Idle]
    /\ UNCHANGED <<events, created, tip, writer>>

\* The trajectory is read for the limits and the behavior patterns, ...
ReadTrajectory(w) ==
    /\ thread[w].pc = "verified"
    /\ thread' = [thread EXCEPT ![w].pc = "observed", ![w].seen = Len(events)]
    /\ UNCHANGED <<events, created, tip, writer, alarmed>>

\* ... and again for the workflow's progress; then the engines decide, and
\* operation_limits counts every earlier call and this one.
Decide(w, d) ==
    /\ thread[w].pc = "observed"
    /\ OverLimit(thread[w].seen + 1) => d = "BLOCK"
    /\ thread' = [thread EXCEPT ![w].pc = "decided", ![w].decision = d,
                                ![w].progress = Len(events)]
    /\ UNCHANGED <<events, created, tip, writer, alarmed>>

Number(w) ==
    /\ thread[w].pc = "decided"
    /\ thread' = [thread EXCEPT ![w].pc = "numbered", ![w].seq = NextSeq]
    /\ UNCHANGED <<events, created, tip, writer, alarmed>>

\* The INSERT takes the lock, so seal sees no other writer until the commit.
Record(w) ==
    /\ thread[w].pc = "numbered"
    /\ writer \in {None, w}
    /\ Sealable(thread[w].tip)
    /\ Commit(w, [req |-> thread[w].req, seq |-> thread[w].seq,
                  decision |-> thread[w].decision, seen |-> thread[w].seen,
                  progress |-> thread[w].progress, redeems |-> 0])
    /\ UNCHANGED alarmed

\* seal refuses: 409, rolled back, and no alert.
SealFails(w) ==
    /\ thread[w].pc = "numbered"
    /\ writer \in {None, w}
    /\ ~Sealable(thread[w].tip)
    /\ writer' = None
    /\ thread' = [thread EXCEPT ![w] = Idle]
    /\ UNCHANGED <<events, created, tip, alarmed>>

(***************************************************************************)
(* _resume_approved_request, once its grant has evaluated.                 *)
(***************************************************************************)

\* The execution row is loaded before the grant is claimed.
ResumeLoad(w, i) ==
    /\ thread[w].pc = "idle"
    /\ events[i].decision = "APPROVAL"
    /\ thread' = [thread EXCEPT ![w] =
                     [Idle EXCEPT !.pc = "resuming", !.req = events[i].req,
                                  !.event = i, !.tip = tip]]
    /\ UNCHANGED <<events, created, tip, writer, alarmed>>

\* The claim takes the lock; the chain is verified, and the run is sealed
\* under it without a new look at the trajectory.
Resume(w) ==
    /\ thread[w].pc = "resuming"
    /\ writer = None
    /\ Unredeemed(thread[w].event)
    /\ Intact(thread[w].tip)
    /\ Commit(w, [req |-> None, seq |-> NextSeq, decision |-> "ALLOW",
                  seen |-> 0, progress |-> 0, redeems |-> thread[w].event])
    /\ UNCHANGED alarmed

\* The claim is lost, or the chain fails and is reported.
ResumeFails(w) ==
    /\ thread[w].pc = "resuming"
    /\ writer = None
    /\ Unredeemed(thread[w].event) => ~Intact(thread[w].tip)
    /\ alarmed' = (alarmed \/ Unredeemed(thread[w].event))
    /\ thread' = [thread EXCEPT ![w] = Idle]
    /\ UNCHANGED <<events, created, tip, writer>>

(***************************************************************************)
(* invoke_tool after the decision.                                         *)
(***************************************************************************)

\* The gates pass and the tool is called.
Answer(w) ==
    /\ thread[w].pc = "answered"
    /\ thread' = [thread EXCEPT ![w] = Idle]
    /\ UNCHANGED <<events, created, tip, writer, alarmed>>

\* The mailbox or the contract is gone: reseal looks whether the event it is
\* about to rewrite is still the last, ...
ResealRead(w) ==
    /\ thread[w].pc = "answered"
    /\ thread' = [thread EXCEPT ![w].pc = "resealing",
                     ![w].isLast = (Predecessor = events[thread[w].event])]
    /\ UNCHANGED <<events, created, tip, writer, alarmed>>

\* ... and a later commit writes the event, and the tip if it was.
ResealCommit(w) ==
    LET i == thread[w].event
    IN  /\ thread[w].pc = "resealing"
        /\ writer = None
        /\ events' = [events EXCEPT ![i] = Withdrawn(@)]
        /\ tip' = IF thread[w].isLast THEN events'[i].hash ELSE tip
        /\ thread' = [thread EXCEPT ![w] = Idle]
        /\ UNCHANGED <<created, writer, alarmed>>

\* A lock timeout or a crash: what was not committed is rolled back.
Abandon(w) ==
    /\ thread[w].pc # "idle"
    /\ thread' = [thread EXCEPT ![w] = Idle]
    /\ writer' = IF writer = w THEN None ELSE writer
    /\ UNCHANGED <<events, created, tip, alarmed>>

-----------------------------------------------------------------------------

Authorize(w) ==
    \/ \E q \in Requests : Lookup(w, q)
    \/ Load(w) \/ Insert(w) \/ Verify(w) \/ VerifyFails(w) \/ ReadTrajectory(w)
    \/ \E d \in Decisions : Decide(w, d)
    \/ Number(w) \/ Record(w) \/ SealFails(w)

Redeem(w) == \/ \E i \in DOMAIN events : ResumeLoad(w, i)
             \/ Resume(w) \/ ResumeFails(w)

Deliver(w) == Answer(w) \/ ResealRead(w) \/ ResealCommit(w)

Next == \E w \in Threads : Authorize(w) \/ Redeem(w) \/ Deliver(w) \/ Abandon(w)

Spec == Init /\ [][Next]_vars

-----------------------------------------------------------------------------

RowType == [req       : Requests \union {None},
            seq       : Nat,
            decision  : Decisions,
            seen      : Nat,
            progress  : Nat,
            redeems   : Nat,
            previous  : Hashes,
            hash      : Hashes,
            withdrawn : BOOLEAN]

ThreadType ==
    [pc       : {"idle", "new", "absent", "loaded", "verified", "observed",
                 "decided", "numbered", "resuming", "answered", "resealing"},
     req      : Requests \union {None},
     tip      : Hashes,
     seen     : Nat,
     progress : Nat,
     seq      : Nat,
     decision : Decisions,
     event    : Nat,
     isLast   : BOOLEAN]

\* Every variable keeps its type (models.Event, models.Execution and the
\* handlers' locals).
TypeOK ==
    /\ events \in Seq(RowType)
    /\ created \in BOOLEAN
    /\ tip \in Hashes
    /\ writer \in Threads \union {None}
    /\ thread \in [Threads -> ThreadType]
    /\ alarmed \in BOOLEAN

\* The chain has no gap, no duplicate and no reorder, and every digest is the
\* one its row recomputes to, though seq is read before the lock is taken
\* (behavior.next_seq, enforcement.py:392).
Numbered ==
    \A i \in DOMAIN events :
        /\ events[i].seq = i
        /\ events[i].hash = Digest(events[i].decision, events[i].previous)
        /\ Len(events[i].previous) = i - 1

\* Every decision was taken on exactly the events that precede it, at both
\* readings of the trajectory, although neither is made under the lock
\* (enforcement.py:294-315, evidence_verifier.py:110-113).
DecidedOnPrefix ==
    \A i \in DOMAIN events : events[i].redeems = 0 =>
        events[i].seen = i - 1 /\ events[i].progress = i - 1

\* Concurrent requests never get past max_calls between them
\* (engines/contract.py:166-171).
CallLimit ==
    \A i \in DOMAIN events :
        (events[i].redeems = 0 /\ events[i].decision # "BLOCK") => i <= MaxCalls

\* The chain only ever breaks behind a withdrawn event: a race of two new
\* decisions cannot break it (enforcement.py:393-441).
BrokenOnlyByReseal ==
    /\ \A i \in DOMAIN events : LinkBroken(i) => i > 1 /\ events[i - 1].withdrawn
    /\ tip # LastHash => \E i \in DOMAIN events : events[i].withdrawn

\* A committed row stays, and keeps all it says but for a withdrawal to BLOCK
\* (evidence_verifier.reseal_execution_event).
OnlyWithdrawn ==
    [][/\ Len(events) <= Len(events')
       /\ \A i \in DOMAIN events :
             LET old == events[i]
                 new == events'[i]
             IN  new = old \/ /\ ~old.withdrawn /\ new.withdrawn
                              /\ old.decision # "BLOCK"
                              /\ new = [old EXCEPT !.withdrawn = TRUE,
                                     !.decision = "BLOCK", !.hash =
                                        Digest("BLOCK", old.previous)]]_vars

\* No later step mends a broken link: the execution stays unusable, each
\* request that names it a 409.
BrokenForGood ==
    [][\A i \in DOMAIN events : LinkBroken(i) => LinkBroken(i)']_vars

\* The threads implement the trail of requests decided one at a time.
Trail == INSTANCE SequentialTrail WITH
    trail <- [i \in DOMAIN events |->
                 [decision |-> events[i].decision, redeems |-> events[i].redeems]]

ImplementsSequentialTrail == Trail!Spec

(***************************************************************************)
(* The inductive strengthening the proofs use.                             *)
(***************************************************************************)

RowsInv ==
    /\ created <=> events # <<>>
    /\ tip = Genesis <=> events = <<>>
    /\ Len(tip) <= Len(events)

\* What a handler read bounds the chain from below, in the order it read it;
\* a tip it read as NULL means it holds the lock on an execution of its own.
HandlerInv(w, d) ==
    /\ d.pc = "absent" => d.tip = Genesis
    /\ d.pc \in {"loaded", "verified", "observed", "decided", "numbered"} =>
          /\ Len(d.tip) <= Len(events)
          /\ d.tip = Genesis => events = <<>> /\ writer = w
    /\ d.pc \in {"observed", "decided", "numbered"} =>
          Len(d.tip) <= d.seen /\ d.seen <= Len(events)
    /\ d.pc \in {"decided", "numbered"} =>
          /\ d.seen <= d.progress /\ d.progress <= Len(events)
          /\ d.decision # "BLOCK" => d.seen < MaxCalls
    /\ d.pc = "numbered" => d.progress < d.seq /\ d.seq <= Len(events) + 1
    /\ d.pc \in {"resuming", "answered", "resealing"} => d.event \in DOMAIN events

ThreadsInv == \A w \in Threads : HandlerInv(w, thread[w])

\* Event i still says what was let through.
Live(i) == events[i].decision # "BLOCK" /\ ~events[i].withdrawn

Holding(w) == thread[w].pc \in {"answered", "resealing"}

\* Each handler that may withdraw a decision is the only one that may.
OwnersInv ==
    \A v, w \in Threads :
        Holding(v) /\ Holding(w) =>
            /\ Live(thread[v].event)
            /\ v # w => thread[v].event # thread[w].event

IInv == /\ TypeOK
        /\ Numbered
        /\ DecidedOnPrefix
        /\ CallLimit
        /\ BrokenOnlyByReseal
        /\ RowsInv
        /\ ThreadsInv
        /\ OwnersInv
=============================================================================
