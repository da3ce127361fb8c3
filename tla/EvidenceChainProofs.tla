------------------------- MODULE EvidenceChainProofs -------------------------
(***************************************************************************)
(* Proofs of EvidenceChain for any number of threads, requests and events. *)
(*                                                                         *)
(* The argument: the length of a digest is the position of the event it    *)
(* belongs to, a handler's loaded tip is at most as long as the chain was  *)
(* at each of its later readings, and seal only lets it commit when that   *)
(* tip is the last digest.  So nothing was committed in between, and every *)
(* reading had the same length.                                            *)
(***************************************************************************)
EXTENDS EvidenceChain, SequenceTheorems, TLAPS

LEMMA PredecessorIsLast ==
    events \in Seq(RowType) /\ Numbered /\ events # <<>> =>
        /\ Len(events) \in DOMAIN events
        /\ Predecessor = events[Len(events)]
        /\ LastHash = events[Len(events)].hash
        /\ NextSeq = Len(events) + 1
<1> SUFFICES ASSUME events \in Seq(RowType), Numbered, events # <<>>
             PROVE  /\ Len(events) \in DOMAIN events
                    /\ Predecessor = events[Len(events)]
                    /\ LastHash = events[Len(events)].hash
                    /\ NextSeq = Len(events) + 1
  OBVIOUS
<1> DEFINE n == Len(events)
           Latest(i) == \A j \in DOMAIN events :
                           \/ events[j].seq < events[i].seq
                           \/ events[j].seq = events[i].seq /\ j <= i
<1>1. n \in Nat /\ DOMAIN events = 1..n /\ n \in 1..n
  OBVIOUS
<1>2. \A i \in 1..n : events[i].seq = i
  BY <1>1 DEF Numbered
<1>3. Latest(n)
  BY <1>1, <1>2
<1>4. \A i \in 1..n : Latest(i) => i = n
  <2> SUFFICES ASSUME NEW i \in 1..n, Latest(i) PROVE i = n
    OBVIOUS
  <2>1. events[n].seq = n /\ events[i].seq = i
    BY <1>1, <1>2
  <2>2. n \in DOMAIN events
    BY <1>1
  <2>3. events[n].seq < events[i].seq \/ events[n].seq = events[i].seq
    BY <2>2
  <2> HIDE DEF n
  <2> QED BY <1>1, <2>1, <2>3
<1>5. (CHOOSE i \in DOMAIN events : Latest(i)) = n
  <2> HIDE DEF Latest, n
  <2> QED BY <1>1, <1>3, <1>4
<1> QED BY <1>1, <1>2, <1>5 DEF Predecessor, LastHash, NextSeq

LEMMA PredecessorIsLastNext ==
    (events \in Seq(RowType) /\ Numbered /\ events # <<>> =>
        LastHash = events[Len(events)].hash)'
<1>1. events \in Seq(RowType) /\ Numbered /\ events # <<>> =>
        LastHash = events[Len(events)].hash
  BY PredecessorIsLast
<1> QED BY <1>1, PTL

\* The digest a new event is chained to is as long as the chain.
LEMMA LastHashLength ==
    ASSUME events \in Seq(RowType), Numbered
    PROVE  /\ LastHash \in Hashes /\ Len(LastHash) = Len(events)
           /\ NextSeq = Len(events) + 1
<1>1. CASE events = <<>>
  BY <1>1 DEF LastHash, NextSeq, Genesis, Hashes
<1>2. CASE events # <<>>
  <2> DEFINE e == events[Len(events)]
  <2>1. e \in RowType /\ Len(events) \in DOMAIN events
    BY <1>2, PredecessorIsLast
  <2>2. /\ e.hash = Append(e.previous, e.decision)
        /\ Len(e.previous) = Len(events) - 1
    BY <2>1 DEF Numbered, Digest
  <2>3. e.previous \in Seq(Decisions) /\ e.decision \in Decisions
    BY <2>1 DEF RowType, Hashes
  <2>4. e.hash \in Seq(Decisions) /\ Len(e.hash) = Len(events)
    BY <2>2, <2>3
  <2> QED BY <1>2, <2>4, PredecessorIsLast DEF Hashes
<1> QED BY <1>1, <1>2

\* Whatever commits finds the chain ends where its tip says.
LEMMA SealedTip ==
    ASSUME IInv, NEW w \in Threads,
           thread[w].pc = "numbered", Sealable(thread[w].tip)
    PROVE  Len(thread[w].tip) = Len(events)
<1> DEFINE d == thread[w]
<1>1. /\ events \in Seq(RowType) /\ Numbered /\ HandlerInv(w, d)
      /\ d.tip \in Seq(Decisions)
  BY DEF IInv, TypeOK, ThreadsInv, ThreadType, Hashes
<1>2. CASE events = <<>>
  BY <1>1, <1>2 DEF HandlerInv
<1>3. CASE d.tip = Genesis
  BY <1>1, <1>3 DEF HandlerInv, Genesis
<1>4. CASE d.tip = LastHash
  BY <1>1, <1>4, LastHashLength
<1> QED BY <1>2, <1>3, <1>4 DEF Sealable

\* A handler that commits a new decision has read all of the chain.
LEMMA RecordReads ==
    ASSUME IInv, NEW w \in Threads,
           thread[w].pc = "numbered", Sealable(thread[w].tip)
    PROVE  /\ thread[w].seen = Len(events)
           /\ thread[w].progress = Len(events)
           /\ thread[w].seq = Len(events) + 1
           /\ thread[w].decision # "BLOCK" => Len(events) < MaxCalls
<1> DEFINE d == thread[w]
<1>1. /\ d.seen \in Nat /\ d.progress \in Nat /\ d.seq \in Nat
      /\ Len(events) \in Nat /\ HandlerInv(w, d)
  BY DEF IInv, TypeOK, ThreadsInv, ThreadType
<1>2. Len(d.tip) = Len(events)
  BY SealedTip
<1> QED BY <1>1, <1>2, ConstantsAssumption DEF HandlerInv

-----------------------------------------------------------------------------

LEMMA InitIInv == Init => IInv
<1> SUFFICES ASSUME Init PROVE IInv
  OBVIOUS
<1>1. Idle \in ThreadType
  BY DEF Idle, ThreadType, Genesis, Hashes, Decisions
<1>2. TypeOK
  <2>1. thread \in [Threads -> ThreadType]
    BY <1>1 DEF Init
  <2>2. events \in Seq(RowType) /\ tip \in Hashes
    BY DEF Init, Genesis, Hashes
  <2> QED BY <2>1, <2>2 DEF Init, TypeOK
<1>3. Numbered /\ DecidedOnPrefix /\ CallLimit
  BY DEF Init, Numbered, DecidedOnPrefix, CallLimit
<1>4. BrokenOnlyByReseal
  BY DEF Init, BrokenOnlyByReseal, LastHash
<1>5. RowsInv /\ ThreadsInv /\ OwnersInv
  BY DEF Init, RowsInv, ThreadsInv, OwnersInv, Holding, HandlerInv, Idle, Genesis
<1> QED BY <1>2, <1>3, <1>4, <1>5 DEF IInv

-----------------------------------------------------------------------------

(***************************************************************************)
(* The chain only moves when a new event commits or an old one is          *)
(* withdrawn.                                                              *)
(***************************************************************************)

ChainSame == UNCHANGED <<events, created, tip>>

LEMMA StepKinds ==
    ASSUME [Next]_vars
    PROVE  \/ ChainSame
           \/ \E w \in Threads : Record(w) \/ Resume(w) \/ ResealCommit(w)
BY DEF Next, vars, ChainSame, Authorize, Redeem, Deliver, Lookup, Load, Insert,
       Verify, VerifyFails, ReadTrajectory, Decide, Number, SealFails,
       ResumeLoad, ResumeFails, Answer, ResealRead, Abandon

\* What a commit adds: one row, numbered and chained, and its digest as tip.
Added(seen, progress, decision, redeems) ==
    LET n == Len(events) + 1
    IN  /\ events' \in Seq(RowType)
        /\ Len(events') = n
        /\ \A i \in DOMAIN events : events'[i] = events[i]
        /\ events'[n].seq = n
        /\ events'[n].seen = seen /\ events'[n].progress = progress
        /\ events'[n].decision = decision /\ events'[n].redeems = redeems
        /\ events'[n].previous = LastHash
        /\ events'[n].hash = Append(LastHash, decision)
        /\ tip' = events'[n].hash /\ tip' \in Hashes /\ Len(tip') = n
        /\ created' = TRUE /\ writer' = None

LEMMA CommitAdds ==
    ASSUME IInv, NEW w \in Threads, NEW req \in Requests \union {None},
           NEW decision \in Decisions, NEW seen \in Nat, NEW progress \in Nat,
           NEW redeems \in Nat,
           Commit(w, [req |-> req, seq |-> Len(events) + 1,
                      decision |-> decision, seen |-> seen,
                      progress |-> progress, redeems |-> redeems])
    PROVE  Added(seen, progress, decision, redeems)
<1> DEFINE n    == Len(events) + 1
           hash == Append(LastHash, decision)
           row  == [req |-> req, seq |-> n, decision |-> decision,
                    seen |-> seen, progress |-> progress, redeems |-> redeems,
                    previous |-> LastHash, hash |-> hash, withdrawn |-> FALSE]
<1>1. events \in Seq(RowType) /\ LastHash \in Hashes /\ Len(LastHash) = Len(events)
  BY LastHashLength DEF IInv, TypeOK
<1>2. hash \in Hashes /\ Len(hash) = n /\ n \in Nat
  BY <1>1 DEF Hashes
<1>3. row \in RowType
  BY <1>1, <1>2 DEF RowType
<1>4. /\ events' = Append(events, row) /\ tip' = hash
      /\ created' = TRUE /\ writer' = None
  BY DEF Commit, Digest
<1>5. /\ row.seq = n /\ row.seen = seen /\ row.progress = progress
      /\ row.decision = decision /\ row.redeems = redeems
      /\ row.previous = LastHash /\ row.hash = hash
  OBVIOUS
<1> HIDE DEF row, hash
<1>6. /\ events' \in Seq(RowType) /\ Len(events') = n
      /\ \A i \in DOMAIN events : events'[i] = events[i]
      /\ events'[n] = row
  BY <1>1, <1>3, <1>4
<1> QED BY <1>2, <1>4, <1>5, <1>6 DEF Added, hash

LEMMA RecordAdds ==
    ASSUME IInv, NEW w \in Threads, Record(w)
    PROVE  /\ Added(Len(events), Len(events), thread[w].decision, 0)
           /\ thread[w].decision # "BLOCK" => Len(events) < MaxCalls
<1> DEFINE d == thread[w]
<1>1. /\ d.seen = Len(events) /\ d.progress = Len(events)
      /\ d.seq = Len(events) + 1
      /\ d.decision # "BLOCK" => Len(events) < MaxCalls
  BY RecordReads DEF Record
<1>2. /\ d.req \in Requests \union {None} /\ d.decision \in Decisions
      /\ Len(events) \in Nat /\ 0 \in Nat
  BY DEF IInv, TypeOK, ThreadType
<1>3. Commit(w, [req |-> d.req, seq |-> Len(events) + 1,
                 decision |-> d.decision, seen |-> Len(events),
                 progress |-> Len(events), redeems |-> 0])
  BY <1>1 DEF Record
<1> HIDE DEF d
<1>4. Added(Len(events), Len(events), d.decision, 0)
  BY <1>2, <1>3, CommitAdds
<1> QED BY <1>1, <1>4 DEF d

LEMMA ResumeAdds ==
    ASSUME IInv, NEW w \in Threads, Resume(w)
    PROVE  /\ Added(0, 0, "ALLOW", thread[w].event)
           /\ thread[w].event \in DOMAIN events /\ Unredeemed(thread[w].event)
<1> DEFINE d == thread[w]
<1>1. /\ NextSeq = Len(events) + 1 /\ d.event \in Nat
      /\ "ALLOW" \in Decisions /\ 0 \in Nat
  BY LastHashLength DEF IInv, TypeOK, ThreadType, Decisions
<1>2. Commit(w, [req |-> None, seq |-> Len(events) + 1, decision |-> "ALLOW",
                 seen |-> 0, progress |-> 0, redeems |-> d.event])
  BY <1>1 DEF Resume
<1>3. d.event \in DOMAIN events /\ Unredeemed(d.event)
  BY DEF Resume, IInv, ThreadsInv, HandlerInv
<1> HIDE DEF d
<1>4. Added(0, 0, "ALLOW", d.event)
  BY <1>1, <1>2, CommitAdds
<1> QED BY <1>3, <1>4 DEF d

\* What a reseal changes: one row, and perhaps the tip.
Rewritten(n) ==
    /\ n \in DOMAIN events
    /\ events' \in Seq(RowType)
    /\ Len(events') = Len(events)
    /\ \A i \in DOMAIN events : i # n => events'[i] = events[i]
    /\ events'[n] = Withdrawn(events[n])
    /\ events'[n].withdrawn = TRUE /\ events'[n].decision = "BLOCK"
    /\ events'[n].hash = Append(events[n].previous, "BLOCK")
    /\ events'[n].previous = events[n].previous
    /\ events'[n].seq = events[n].seq /\ events'[n].seen = events[n].seen
    /\ events'[n].progress = events[n].progress
    /\ events'[n].redeems = events[n].redeems
    /\ tip' \in {tip, events'[n].hash} /\ tip' \in Hashes
    /\ created' = created

LEMMA ResealRewrites ==
    ASSUME IInv, NEW w \in Threads, ResealCommit(w)
    PROVE  Rewritten(thread[w].event)
<1> DEFINE n == thread[w].event
           row == Withdrawn(events[n])
<1>1. /\ events \in Seq(RowType) /\ n \in DOMAIN events
      /\ events[n] \in RowType /\ tip \in Hashes
  BY DEF ResealCommit, IInv, TypeOK, ThreadsInv, HandlerInv
<1>2. /\ events' = [events EXCEPT ![n] = row] /\ created' = created
      /\ tip' \in {tip, events'[n].hash}
  BY DEF ResealCommit
<1> HIDE DEF n
<1>3. events[n].previous \in Seq(Decisions) /\ "BLOCK" \in Decisions
  BY <1>1 DEF RowType, Hashes, Decisions
<1>4. Append(events[n].previous, "BLOCK") \in Hashes
  BY <1>3 DEF Hashes
<1>5. /\ row \in RowType
      /\ row.withdrawn = TRUE /\ row.decision = "BLOCK"
      /\ row.hash = Append(events[n].previous, "BLOCK")
      /\ row.previous = events[n].previous /\ row.seq = events[n].seq
      /\ row.seen = events[n].seen /\ row.progress = events[n].progress
      /\ row.redeems = events[n].redeems
  BY <1>1, <1>3, <1>4 DEF Withdrawn, Digest, RowType
<1> HIDE DEF row
<1>6. n \in 1..Len(events) /\ events' \in Seq(RowType)
  BY <1>1, <1>2, <1>5, ExceptSeq
<1>7. /\ Len(events') = Len(events) /\ events'[n] = row
      /\ \A i \in DOMAIN events : i # n => events'[i] = events[i]
  BY <1>1, <1>2, <1>6
<1>8. events'[n] = Withdrawn(events[n])
  BY <1>7 DEF row
<1>9. events'[n].hash \in Hashes
  BY <1>4, <1>5, <1>7
<1>10. /\ events'[n].withdrawn = TRUE /\ events'[n].decision = "BLOCK"
       /\ events'[n].hash = Append(events[n].previous, "BLOCK")
       /\ events'[n].previous = events[n].previous
       /\ events'[n].seq = events[n].seq /\ events'[n].seen = events[n].seen
       /\ events'[n].progress = events[n].progress
       /\ events'[n].redeems = events[n].redeems
  BY <1>5, <1>7
<1> QED BY <1>1, <1>2, <1>6, <1>7, <1>8, <1>9, <1>10 DEF Rewritten, n

-----------------------------------------------------------------------------

(***************************************************************************)
(* The invariant is inductive, conjunct by conjunct.                       *)
(***************************************************************************)

LEMMA NextNumbered == IInv /\ [Next]_vars => Numbered'
<1> SUFFICES ASSUME IInv, [Next]_vars PROVE Numbered'
  OBVIOUS
<1>0. Numbered /\ events \in Seq(RowType)
  BY DEF IInv, TypeOK
<1>1. CASE ChainSame
  BY <1>0, <1>1 DEF ChainSame, Numbered
<1>2. ASSUME NEW x, NEW y, NEW d, NEW i, Added(x, y, d, i)
      PROVE  Numbered'
  <2>1. Len(LastHash) = Len(events)
    BY <1>0, LastHashLength
  <2>2. DOMAIN events' = 1..(Len(events) + 1) /\ Len(events) \in Nat
        /\ DOMAIN events = 1..Len(events)
    BY <1>0, <1>2 DEF Added
  <2>3. ASSUME NEW j \in DOMAIN events'
        PROVE  /\ events'[j].seq = j
               /\ events'[j].hash = Append(events'[j].previous, events'[j].decision)
               /\ Len(events'[j].previous) = j - 1
    <3>1. CASE j \in DOMAIN events
      BY <1>0, <1>2, <3>1 DEF Added, Numbered, Digest
    <3>2. CASE j = Len(events) + 1
      BY <1>2, <2>1, <2>2, <3>2 DEF Added
    <3> QED BY <2>2, <3>1, <3>2
  <2> QED BY <2>3 DEF Numbered, Digest
<1>3. ASSUME NEW n, Rewritten(n)
      PROVE  Numbered'
  <2>1. DOMAIN events' = DOMAIN events
    BY <1>0, <1>3 DEF Rewritten
  <2>2. ASSUME NEW j \in DOMAIN events'
        PROVE  /\ events'[j].seq = j
               /\ events'[j].hash = Append(events'[j].previous, events'[j].decision)
               /\ Len(events'[j].previous) = j - 1
    <3>1. /\ events[j].seq = j /\ Len(events[j].previous) = j - 1
          /\ events[j].hash = Append(events[j].previous, events[j].decision)
      BY <1>0, <2>1 DEF Numbered, Digest
    <3>2. CASE j = n
      BY <1>3, <3>1, <3>2 DEF Rewritten
    <3>3. CASE j # n
      BY <1>3, <2>1, <3>1, <3>3 DEF Rewritten
    <3> QED BY <3>2, <3>3
  <2> QED BY <2>2 DEF Numbered, Digest
<1> QED BY <1>1, <1>2, <1>3, StepKinds, RecordAdds, ResumeAdds, ResealRewrites

LEMMA NextDecidedOnPrefix == IInv /\ [Next]_vars => DecidedOnPrefix' /\ CallLimit'
<1> SUFFICES ASSUME IInv, [Next]_vars PROVE DecidedOnPrefix' /\ CallLimit'
  OBVIOUS
<1>0. DecidedOnPrefix /\ CallLimit /\ events \in Seq(RowType)
  BY DEF IInv, TypeOK
<1>1. CASE ChainSame
  BY <1>0, <1>1 DEF ChainSame, DecidedOnPrefix, CallLimit
<1>2. ASSUME NEW x, NEW y, NEW d, NEW i, Added(x, y, d, i),
             i = 0 => /\ x = Len(events) /\ y = Len(events)
                      /\ d # "BLOCK" => Len(events) < MaxCalls
      PROVE  DecidedOnPrefix' /\ CallLimit'
  <2>1. DOMAIN events' = 1..(Len(events) + 1) /\ Len(events) \in Nat
        /\ DOMAIN events = 1..Len(events)
    BY <1>0, <1>2 DEF Added
  <2>2. ASSUME NEW j \in DOMAIN events', events'[j].redeems = 0
        PROVE  /\ events'[j].seen = j - 1 /\ events'[j].progress = j - 1
               /\ events'[j].decision # "BLOCK" => j <= MaxCalls
    <3>1. CASE j \in DOMAIN events
      BY <1>0, <1>2, <2>2, <3>1 DEF Added, DecidedOnPrefix, CallLimit
    <3>2. CASE j = Len(events) + 1
      BY <1>2, <2>1, <2>2, <3>2, ConstantsAssumption DEF Added
    <3> QED BY <2>1, <3>1, <3>2
  <2> QED BY <2>2 DEF DecidedOnPrefix, CallLimit
<1>3. ASSUME NEW n, Rewritten(n)
      PROVE  DecidedOnPrefix' /\ CallLimit'
  <2>1. DOMAIN events' = DOMAIN events
    BY <1>0, <1>3 DEF Rewritten
  <2> QED BY <1>0, <1>3, <2>1 DEF Rewritten, DecidedOnPrefix, CallLimit
<1>4. ASSUME NEW w \in Threads, Resume(w)
      PROVE  DecidedOnPrefix' /\ CallLimit'
  <2>1. thread[w].event \in 1..Len(events)
    BY <1>0, <1>4, ResumeAdds
  <2> QED BY <1>2, <1>4, <2>1, ResumeAdds
<1> QED BY <1>1, <1>2, <1>3, <1>4, StepKinds, RecordAdds, ResealRewrites

LEMMA NextBrokenOnlyByReseal == IInv /\ [Next]_vars => BrokenOnlyByReseal'
<1> SUFFICES ASSUME IInv, [Next]_vars PROVE BrokenOnlyByReseal'
  OBVIOUS
<1>0. BrokenOnlyByReseal /\ Numbered /\ Numbered' /\ events \in Seq(RowType)
  BY NextNumbered DEF IInv, TypeOK
<1>1. CASE ChainSame
  BY <1>0, <1>1
  DEF ChainSame, BrokenOnlyByReseal, LinkBroken, LastHash, Predecessor
<1>2. ASSUME NEW x, NEW y, NEW d, NEW i, Added(x, y, d, i)
      PROVE  BrokenOnlyByReseal'
  <2> DEFINE n == Len(events) + 1
  <2>1. DOMAIN events' = 1..n /\ n - 1 \in Nat
        /\ DOMAIN events = 1..(n - 1) /\ events' # <<>>
    BY <1>0, <1>2 DEF Added
  <2>2. tip' = LastHash'
    <3>1. /\ events' \in Seq(RowType)
          /\ LastHash' = events'[Len(events')].hash
      BY <1>0, <1>2, <2>1, PredecessorIsLastNext DEF Added
    <3> QED BY <1>2, <3>1 DEF Added
  <2>3. ASSUME NEW j \in DOMAIN events', LinkBroken(j)'
        PROVE  j > 1 /\ events'[j - 1].withdrawn
    <3>1. CASE j \in DOMAIN events
      <4>1. LinkBroken(j)
        BY <1>2, <2>1, <2>3, <3>1 DEF Added, LinkBroken
      <4>2. j > 1 /\ events[j - 1].withdrawn /\ j - 1 \in DOMAIN events
        BY <1>0, <2>1, <3>1, <4>1 DEF BrokenOnlyByReseal
      <4> QED BY <1>2, <4>2 DEF Added
    <3>2. CASE j = n
      <4>1. CASE events = <<>>
        BY <1>2, <2>3, <3>2, <4>1 DEF Added, LinkBroken, LastHash
      <4>2. CASE events # <<>>
        <5>1. LastHash = events[n - 1].hash /\ n - 1 \in DOMAIN events
          BY <1>0, <4>2, PredecessorIsLast
        <5> QED BY <1>2, <2>1, <2>3, <3>2, <5>1 DEF Added, LinkBroken
      <4> QED BY <4>1, <4>2
    <3> QED BY <2>1, <3>1, <3>2
  <2> QED BY <2>2, <2>3 DEF BrokenOnlyByReseal
<1>3. ASSUME NEW n, Rewritten(n)
      PROVE  BrokenOnlyByReseal'
  <2>1. DOMAIN events' = DOMAIN events /\ DOMAIN events = 1..Len(events)
        /\ Len(events) \in Nat
    BY <1>0, <1>3 DEF Rewritten
  <2>2. ASSUME NEW j \in DOMAIN events', LinkBroken(j)'
        PROVE  j > 1 /\ events'[j - 1].withdrawn
    <3>1. CASE j = n + 1 /\ n \in DOMAIN events
      BY <1>3, <2>1, <3>1 DEF Rewritten
    <3>2. CASE j # n + 1
      <4>1. LinkBroken(j)
        BY <1>3, <2>1, <2>2, <3>2 DEF Rewritten, LinkBroken
      <4>2. j > 1 /\ events[j - 1].withdrawn /\ j - 1 \in DOMAIN events
        BY <1>0, <2>1, <4>1 DEF BrokenOnlyByReseal
      <4> QED BY <1>3, <3>2, <4>2 DEF Rewritten
    <3> QED BY <1>3, <3>1, <3>2 DEF Rewritten
  <2> QED BY <1>3, <2>1, <2>2 DEF BrokenOnlyByReseal, Rewritten
<1> QED BY <1>1, <1>2, <1>3, StepKinds, RecordAdds, ResumeAdds, ResealRewrites

LEMMA NextRowsInv == IInv /\ [Next]_vars => RowsInv'
<1> SUFFICES ASSUME IInv, [Next]_vars PROVE RowsInv'
  OBVIOUS
<1>0. RowsInv /\ Numbered /\ Numbered' /\ events \in Seq(RowType) /\ tip \in Hashes
  BY NextNumbered DEF IInv, TypeOK
<1>1. CASE ChainSame
  BY <1>0, <1>1 DEF ChainSame, RowsInv
<1>2. ASSUME NEW x, NEW y, NEW d, NEW i, Added(x, y, d, i)
      PROVE  RowsInv'
  BY <1>0, <1>2 DEF Added, RowsInv, Genesis, Hashes
<1>3. ASSUME NEW n, Rewritten(n)
      PROVE  RowsInv'
  <2>1. events # <<>> /\ events' # <<>> /\ n \in 1..Len(events)
    BY <1>0, <1>3 DEF Rewritten
  <2>2. /\ events'[n].previous \in Seq(Decisions)
        /\ Len(events'[n].previous) = n - 1
        /\ events'[n].hash = Append(events'[n].previous, "BLOCK")
    <3>1. events[n] \in RowType /\ events'[n].previous = events[n].previous
      BY <1>0, <1>3, <2>1 DEF Rewritten
    <3> QED BY <1>0, <1>3, <3>1 DEF Rewritten, Numbered, RowType, Hashes
  <2>3. Len(events'[n].hash) = n
    BY <2>1, <2>2 DEF Decisions
  <2>4. events'[n].hash # Genesis
    BY <2>1, <2>3 DEF Genesis
  <2> QED BY <1>0, <1>3, <2>1, <2>3, <2>4 DEF Rewritten, RowsInv
<1> QED BY <1>1, <1>2, <1>3, StepKinds, RecordAdds, ResumeAdds, ResealRewrites

LEMMA IdleTyped ==
    /\ Idle \in ThreadType
    /\ \A q \in Requests : [Idle EXCEPT !.pc = "new", !.req = q] \in ThreadType
    /\ \A n \in Nat : [Idle EXCEPT !.pc = "answered", !.event = n] \in ThreadType
    /\ \A n \in Nat, q \in Requests \union {None}, t \in Hashes :
          [Idle EXCEPT !.pc = "resuming", !.req = q, !.event = n, !.tip = t]
              \in ThreadType
<1>1. Idle \in ThreadType
  BY DEF Idle, ThreadType, Genesis, Hashes, Decisions
<1> QED BY <1>1 DEF ThreadType

\* The handler's record after each of its steps.
LEMMA ThreadUpdates ==
    ASSUME NEW d \in ThreadType
    PROVE  /\ \A t \in Hashes, pc \in {"loaded", "absent"} :
                 [d EXCEPT !.pc = pc, !.tip = t] \in ThreadType
           /\ \A pc \in {"loaded", "verified"} : [d EXCEPT !.pc = pc] \in ThreadType
           /\ \A n \in Nat :
                 /\ [d EXCEPT !.pc = "observed", !.seen = n] \in ThreadType
                 /\ [d EXCEPT !.pc = "numbered", !.seq = n] \in ThreadType
           /\ \A n \in Nat, v \in Decisions :
                 [d EXCEPT !.pc = "decided", !.decision = v, !.progress = n]
                     \in ThreadType
           /\ \A b \in BOOLEAN :
                 [d EXCEPT !.pc = "resealing", !.isLast = b] \in ThreadType
BY DEF ThreadType, Decisions

LEMMA NextTypeOK == IInv /\ [Next]_vars => TypeOK'
<1> SUFFICES ASSUME IInv, [Next]_vars PROVE TypeOK'
  OBVIOUS
<1>0. /\ TypeOK /\ Numbered /\ Len(events) \in Nat /\ NextSeq \in Nat
      /\ \A v \in Threads : thread[v] \in ThreadType
      /\ Idle \in ThreadType
  <2>1. TypeOK /\ Numbered /\ Len(events) \in Nat
    BY DEF IInv, TypeOK
  <2>2. NextSeq \in Nat
    BY <2>1, LastHashLength DEF TypeOK
  <2> QED BY <2>1, <2>2, IdleTyped DEF TypeOK
<1>1. /\ events' \in Seq(RowType) /\ tip' \in Hashes /\ created' \in BOOLEAN
  <2>1. CASE ChainSame
    BY <1>0, <2>1 DEF ChainSame, TypeOK
  <2>2. ASSUME NEW x, NEW y, NEW d, NEW i, Added(x, y, d, i)
        PROVE  events' \in Seq(RowType) /\ tip' \in Hashes /\ created' \in BOOLEAN
    BY <2>2 DEF Added
  <2>3. ASSUME NEW n, Rewritten(n)
        PROVE  events' \in Seq(RowType) /\ tip' \in Hashes /\ created' \in BOOLEAN
    BY <1>0, <2>3 DEF Rewritten, TypeOK
  <2> QED BY <2>1, <2>2, <2>3, StepKinds, RecordAdds, ResumeAdds, ResealRewrites
<1>2. writer' \in Threads \union {None} /\ alarmed' \in BOOLEAN
  <2>1. writer \in Threads \union {None} /\ alarmed \in BOOLEAN
    BY <1>0 DEF TypeOK
  <2>2. ASSUME NEW w \in Threads, Authorize(w)
        PROVE  writer' \in {writer, w, None} /\ alarmed' \in {alarmed, TRUE}
    BY <2>2 DEF Authorize, Lookup, Load, Insert, Verify, VerifyFails,
                ReadTrajectory, Decide, Number, Record, SealFails, Commit
  <2>3. ASSUME NEW w \in Threads, Redeem(w) \/ Deliver(w) \/ Abandon(w)
        PROVE  writer' \in {writer, None} /\ alarmed' \in BOOLEAN
    <3>1. Unredeemed(thread[w].event) \in BOOLEAN
      BY DEF Unredeemed
    <3> QED BY <2>1, <2>3, <3>1
         DEF Redeem, Deliver, ResumeLoad, Resume, ResumeFails, Answer,
             ResealRead, ResealCommit, Abandon, Commit
  <2> QED BY <2>1, <2>2, <2>3 DEF Next, vars
<1>3. thread' \in [Threads -> ThreadType]
  <2>1. CASE UNCHANGED thread
    BY <1>0, <2>1 DEF TypeOK
  <2>2. ASSUME NEW w \in Threads, NEW d \in ThreadType,
               thread' = [thread EXCEPT ![w] = d]
        PROVE  thread' \in [Threads -> ThreadType]
    BY <1>0, <2>2 DEF TypeOK
  <2>3. ASSUME NEW w \in Threads, Authorize(w)
        PROVE  \E d \in ThreadType : thread' = [thread EXCEPT ![w] = d]
    <3> DEFINE t == thread[w]
    <3>0. t \in ThreadType /\ tip \in Hashes
      BY <1>0 DEF TypeOK
    <3>1. ASSUME NEW q \in Requests, Lookup(w, q)
          PROVE  \E d \in ThreadType : thread' = [thread EXCEPT ![w] = d]
      BY <3>1, IdleTyped DEF Lookup
    <3>2. CASE Load(w)
      <4>1. thread' = [thread EXCEPT ![w] =
               [t EXCEPT !.pc = IF created THEN "loaded" ELSE "absent",
                         !.tip = tip]]
        BY <3>2 DEF Load
      <4> HIDE DEF t
      <4> QED BY <3>0, <4>1, ThreadUpdates
    <3>3. CASE Insert(w) \/ Verify(w)
      <4>1. \/ thread' = [thread EXCEPT ![w] = Idle]
            \/ \E pc \in {"loaded", "verified"} :
                  thread' = [thread EXCEPT ![w] = [t EXCEPT !.pc = pc]]
        BY <3>3 DEF Insert, Verify
      <4> HIDE DEF t
      <4>2. \A pc \in {"loaded", "verified"} : [t EXCEPT !.pc = pc] \in ThreadType
        BY <3>0, ThreadUpdates
      <4> QED BY <1>0, <4>1, <4>2
    <3>4. CASE ReadTrajectory(w)
      <4>1. thread' = [thread EXCEPT ![w] =
                          [t EXCEPT !.pc = "observed", !.seen = Len(events)]]
        BY <3>4 DEF ReadTrajectory
      <4> HIDE DEF t
      <4> QED BY <1>0, <3>0, <4>1, ThreadUpdates
    <3>5. ASSUME NEW v \in Decisions, Decide(w, v)
          PROVE  \E d \in ThreadType : thread' = [thread EXCEPT ![w] = d]
      <4>1. thread' = [thread EXCEPT ![w] =
                          [t EXCEPT !.pc = "decided", !.decision = v,
                                    !.progress = Len(events)]]
        BY <3>5 DEF Decide
      <4> HIDE DEF t
      <4> QED BY <1>0, <3>0, <4>1, ThreadUpdates
    <3>6. CASE Number(w)
      <4>1. thread' = [thread EXCEPT ![w] =
                          [t EXCEPT !.pc = "numbered", !.seq = NextSeq]]
        BY <3>6 DEF Number
      <4> HIDE DEF t
      <4> QED BY <1>0, <3>0, <4>1, ThreadUpdates
    <3>7. CASE Record(w)
      <4>1. \/ thread' = [thread EXCEPT ![w] = Idle]
            \/ thread' = [thread EXCEPT ![w] =
                  [Idle EXCEPT !.pc = "answered", !.event = Len(events) + 1]]
        BY <3>7 DEF Record, Commit
      <4>2. Len(events) + 1 \in Nat
        BY <1>0
      <4> QED BY <4>1, <4>2, IdleTyped
    <3>8. CASE VerifyFails(w) \/ SealFails(w)
      BY <1>0, <3>8 DEF VerifyFails, SealFails
    <3> QED BY <2>3, <3>1, <3>2, <3>3, <3>4, <3>5, <3>6, <3>7, <3>8 DEF Authorize
  <2>4. ASSUME NEW w \in Threads, Redeem(w)
        PROVE  \E d \in ThreadType : thread' = [thread EXCEPT ![w] = d]
    <3>1. ASSUME NEW i \in DOMAIN events, ResumeLoad(w, i)
          PROVE  \E d \in ThreadType : thread' = [thread EXCEPT ![w] = d]
      <4> DEFINE q == events[i].req
      <4>1. q \in Requests \union {None} /\ i \in Nat /\ tip \in Hashes
        <5>1. events[i] \in RowType /\ i \in Nat
          BY <1>0 DEF TypeOK
        <5> QED BY <1>0, <5>1 DEF TypeOK, RowType
      <4>2. thread' = [thread EXCEPT ![w] =
                [Idle EXCEPT !.pc = "resuming", !.req = q, !.event = i, !.tip = tip]]
        BY <3>1 DEF ResumeLoad
      <4> HIDE DEF q
      <4> QED BY <4>1, <4>2, IdleTyped
    <3>2. CASE Resume(w)
      <4>1. thread' = [thread EXCEPT ![w] =
                  [Idle EXCEPT !.pc = "answered", !.event = Len(events) + 1]]
        BY <3>2 DEF Resume, Commit
      <4>2. Len(events) + 1 \in Nat
        BY <1>0
      <4> QED BY <4>1, <4>2, IdleTyped
    <3>3. CASE ResumeFails(w)
      BY <1>0, <3>3 DEF ResumeFails
    <3> QED BY <2>4, <3>1, <3>2, <3>3 DEF Redeem
  <2>5. ASSUME NEW w \in Threads, Deliver(w) \/ Abandon(w)
        PROVE  \E d \in ThreadType : thread' = [thread EXCEPT ![w] = d]
    <3> DEFINE t == thread[w]
    <3>1. \/ thread' = [thread EXCEPT ![w] = Idle]
          \/ \E b \in BOOLEAN : thread' = [thread EXCEPT ![w] =
                [t EXCEPT !.pc = "resealing", !.isLast = b]]
      BY <2>5 DEF Deliver, Abandon, Answer, ResealRead, ResealCommit
    <3>2. t \in ThreadType
      BY <1>0
    <3> HIDE DEF t
    <3> QED BY <1>0, <3>1, <3>2, ThreadUpdates
  <2> QED BY <2>1, <2>2, <2>3, <2>4, <2>5 DEF Next, vars
<1> QED BY <1>1, <1>2, <1>3 DEF TypeOK

\* A step of one handler leaves the others' readings below the chain, and
\* touches nothing while another handler holds the lock.
LEMMA OthersKept ==
    ASSUME IInv, NEW w \in Threads, NEW v \in Threads, v # w,
           Authorize(w) \/ Redeem(w) \/ Deliver(w) \/ Abandon(w)
    PROVE  /\ thread'[v] = thread[v]
           /\ Len(events) <= Len(events')
           /\ writer = v => UNCHANGED <<events, writer>>
<1>1. /\ thread \in [Threads -> ThreadType] /\ Len(events) \in Nat
      /\ events \in Seq(RowType) /\ v # None
  BY ConstantsAssumption DEF IInv, TypeOK
<1>2. \E d : thread' = [thread EXCEPT ![w] = d]
  BY DEF Authorize, Redeem, Deliver, Lookup, Load, Insert, Verify, VerifyFails,
         ReadTrajectory, Decide, Number, Record, SealFails, ResumeLoad, Resume,
         ResumeFails, Answer, ResealRead, ResealCommit, Abandon, Commit
<1>3. thread'[v] = thread[v]
  BY <1>1, <1>2
<1>4. Len(events) <= Len(events')
  <2>1. [Next]_vars
    BY DEF Next
  <2>2. CASE ChainSame
    BY <1>1, <2>2 DEF ChainSame
  <2>3. ASSUME NEW x, NEW y, NEW d, NEW i, Added(x, y, d, i)
        PROVE  Len(events) <= Len(events')
    BY <1>1, <2>3 DEF Added
  <2>4. ASSUME NEW n, Rewritten(n)
        PROVE  Len(events) <= Len(events')
    BY <1>1, <2>4 DEF Rewritten
  <2> QED BY <2>1, <2>2, <2>3, <2>4, StepKinds, RecordAdds, ResumeAdds,
             ResealRewrites
<1>5. ASSUME writer = v PROVE UNCHANGED <<events, writer>>
  <2>1. writer # None /\ writer # w
    BY <1>1, <1>5
  <2>2. CASE Authorize(w)
    BY <2>1, <2>2 DEF Authorize, Lookup, Load, Insert, Verify, VerifyFails,
                      ReadTrajectory, Decide, Number, Record, SealFails
  <2>3. CASE Redeem(w) \/ Deliver(w) \/ Abandon(w)
    BY <2>1, <2>3 DEF Redeem, Deliver, ResumeLoad, Resume, ResumeFails, Answer,
                      ResealRead, ResealCommit, Abandon
  <2> QED BY <2>2, <2>3
<1> QED BY <1>3, <1>4, <1>5

\* The handler that moves keeps its invariant too.
LEMMA MoverKept ==
    ASSUME IInv, NEW w \in Threads,
           Authorize(w) \/ Redeem(w) \/ Deliver(w) \/ Abandon(w)
    PROVE  HandlerInv(w, thread[w])'
<1> DEFINE d == thread[w]
           e == thread'[w]
<1>0. /\ d \in ThreadType /\ HandlerInv(w, d) /\ RowsInv /\ Numbered
      /\ thread \in [Threads -> ThreadType] /\ events \in Seq(RowType)
      /\ tip \in Hashes /\ Len(events) \in Nat
  BY DEF IInv, TypeOK, ThreadsInv
<1>1. NextSeq = Len(events) + 1
  BY <1>0, LastHashLength
<1>2. CASE e.pc \in {"idle", "new"}
  BY <1>2 DEF HandlerInv
<1>3. CASE Load(w)
  <2>1. /\ e.tip = tip /\ e.pc = (IF created THEN "loaded" ELSE "absent")
        /\ UNCHANGED <<events, writer>>
    BY <1>0, <1>3 DEF Load, ThreadType
  <2> QED BY <1>0, <2>1 DEF HandlerInv, RowsInv
<1>4. CASE Insert(w)
  <2>1. CASE created
    <3>1. e = Idle
      BY <1>0, <1>4, <2>1 DEF Insert
    <3> QED BY <1>2, <3>1 DEF Idle
  <2>2. CASE ~created
    <3>1. /\ e.tip = d.tip /\ e.pc = "loaded" /\ d.pc = "absent"
          /\ UNCHANGED events /\ writer' = w
      BY <1>0, <1>4, <2>2 DEF Insert, ThreadType
    <3> QED BY <1>0, <2>2, <3>1 DEF HandlerInv, RowsInv, Genesis
  <2> QED BY <2>1, <2>2
<1>5. CASE Verify(w)
  <2>1. /\ e.tip = d.tip /\ e.pc = "verified" /\ d.pc = "loaded"
        /\ UNCHANGED <<events, writer>>
    BY <1>0, <1>5 DEF Verify, ThreadType
  <2> QED BY <1>0, <2>1 DEF HandlerInv
<1>6. CASE ReadTrajectory(w)
  <2>1. /\ e.tip = d.tip /\ e.pc = "observed" /\ d.pc = "verified"
        /\ e.seen = Len(events) /\ UNCHANGED <<events, writer>>
    BY <1>0, <1>6 DEF ReadTrajectory, ThreadType
  <2> QED BY <1>0, <2>1 DEF HandlerInv
<1>7. ASSUME NEW v \in Decisions, Decide(w, v)
      PROVE  HandlerInv(w, thread[w])'
  <2>1. /\ e.tip = d.tip /\ e.pc = "decided" /\ d.pc = "observed"
        /\ e.seen = d.seen /\ e.progress = Len(events) /\ e.decision = v
        /\ UNCHANGED <<events, writer>>
    BY <1>0, <1>7 DEF Decide, ThreadType
  <2>2. d.seen \in Nat /\ (v # "BLOCK" => d.seen < MaxCalls)
    BY <1>0, <1>7, ConstantsAssumption DEF Decide, OverLimit, ThreadType
  <2> QED BY <1>0, <2>1, <2>2 DEF HandlerInv
<1>8. CASE Number(w)
  <2>1. /\ e.tip = d.tip /\ e.pc = "numbered" /\ d.pc = "decided"
        /\ e.seen = d.seen /\ e.progress = d.progress /\ e.seq = Len(events) + 1
        /\ e.decision = d.decision /\ UNCHANGED <<events, writer>>
    BY <1>0, <1>1, <1>8 DEF Number, ThreadType
  <2>2. d.progress \in Nat
    BY <1>0 DEF ThreadType
  <2> QED BY <1>0, <2>1, <2>2 DEF HandlerInv
<1>9. ASSUME NEW i \in DOMAIN events, ResumeLoad(w, i)
      PROVE  HandlerInv(w, thread[w])'
  <2>1. e.pc = "resuming" /\ e.event = i /\ UNCHANGED events
    BY <1>0, <1>9 DEF ResumeLoad, Idle
  <2> QED BY <2>1 DEF HandlerInv
<1>10. CASE Record(w) \/ Resume(w)
  <2>1. \/ e = Idle
        \/ e.pc = "answered" /\ e.event = Len(events) + 1
    BY <1>0, <1>10 DEF Record, Resume, Commit, Idle
  <2>2. CASE e = Idle
    BY <1>2, <2>2 DEF Idle
  <2>3. CASE e.pc = "answered" /\ e.event = Len(events) + 1
    <3>1. Len(events) + 1 \in DOMAIN events'
      <4>1. ASSUME NEW x, NEW y, NEW v, NEW i, Added(x, y, v, i)
            PROVE  Len(events) + 1 \in DOMAIN events'
        BY <1>0, <4>1 DEF Added
      <4> QED BY <1>10, <4>1, RecordAdds, ResumeAdds
    <3> QED BY <2>3, <3>1 DEF HandlerInv
  <2> QED BY <2>1, <2>2, <2>3
<1>11. CASE ResealRead(w)
  <2>1. /\ e.pc = "resealing" /\ d.pc = "answered" /\ e.event = d.event
        /\ UNCHANGED events
    BY <1>0, <1>11 DEF ResealRead, ThreadType
  <2> QED BY <1>0, <2>1 DEF HandlerInv
<1>12. CASE \/ \E q \in Requests : Lookup(w, q)
            \/ VerifyFails(w) \/ SealFails(w) \/ ResumeFails(w)
            \/ Answer(w) \/ ResealCommit(w) \/ Abandon(w)
  <2>1. CASE \E q \in Requests : Lookup(w, q)
    <3>1. e.pc = "new"
      BY <1>0, <2>1 DEF Lookup, Idle
    <3> QED BY <1>2, <3>1
  <2>2. CASE \/ VerifyFails(w) \/ SealFails(w) \/ ResumeFails(w)
             \/ Answer(w) \/ ResealCommit(w) \/ Abandon(w)
    <3>1. e = Idle
      BY <1>0, <2>2 DEF VerifyFails, SealFails, ResumeFails, Answer,
                        ResealCommit, Abandon
    <3> QED BY <1>2, <3>1 DEF Idle
  <2> QED BY <1>12, <2>1, <2>2
<1> QED BY <1>3, <1>4, <1>5, <1>6, <1>7, <1>8, <1>9, <1>10, <1>11, <1>12
        DEF Authorize, Redeem, Deliver

LEMMA NextThreadsInv == IInv /\ [Next]_vars => ThreadsInv'
<1> SUFFICES ASSUME IInv, [Next]_vars, NEW v \in Threads
             PROVE  HandlerInv(v, thread[v])'
  BY DEF ThreadsInv
<1>0. /\ HandlerInv(v, thread[v]) /\ Len(events) \in Nat
      /\ thread[v] \in ThreadType /\ events \in Seq(RowType)
  BY DEF IInv, TypeOK, ThreadsInv
<1>1. CASE UNCHANGED vars
  BY <1>0, <1>1 DEF vars, HandlerInv
<1>2. ASSUME NEW w \in Threads,
             Authorize(w) \/ Redeem(w) \/ Deliver(w) \/ Abandon(w)
      PROVE  HandlerInv(v, thread[v])'
  <2>1. CASE v = w
    BY <1>2, <2>1, MoverKept
  <2>2. CASE v # w
    <3> DEFINE d == thread[v]
    <3>1. /\ thread'[v] = d /\ Len(events) <= Len(events')
          /\ writer = v => UNCHANGED <<events, writer>>
      BY <1>2, <2>2, OthersKept
    <3>2. /\ d.seen \in Nat /\ d.progress \in Nat /\ d.seq \in Nat
          /\ d.tip \in Hashes /\ d.event \in Nat
      BY <1>0 DEF ThreadType
    <3>3. events' \in Seq(RowType) /\ Len(d.tip) \in Nat
      BY <3>2, NextTypeOK DEF TypeOK, Hashes
    <3>4. DOMAIN events \subseteq DOMAIN events' /\ Len(events') \in Nat
      BY <1>0, <3>1, <3>3
    <3>5. HandlerInv(v, d)
      BY <1>0
    <3> HIDE DEF d
    <3> DEFINE n == Len(events)
               m == Len(events')
               t == Len(d.tip)
    <3>6. /\ n \in Nat /\ m \in Nat /\ t \in Nat /\ n <= m
          /\ t <= n => t <= m
          /\ d.seen <= n => d.seen <= m
          /\ d.progress <= n => d.progress <= m
          /\ d.seq <= n + 1 => d.seq <= m + 1
      BY <1>0, <3>1, <3>2, <3>3, <3>4
    <3> HIDE DEF n, m, t
    <3>7. /\ d.pc = "absent" => d.tip = Genesis
          /\ d.pc \in {"loaded", "verified", "observed", "decided", "numbered"} =>
                t <= m /\ (d.tip = Genesis => events' = <<>> /\ writer' = v)
          /\ d.pc \in {"observed", "decided", "numbered"} =>
                t <= d.seen /\ d.seen <= m
          /\ d.pc \in {"decided", "numbered"} =>
                /\ d.seen <= d.progress /\ d.progress <= m
                /\ d.decision # "BLOCK" => d.seen < MaxCalls
          /\ d.pc = "numbered" => d.progress < d.seq /\ d.seq <= m + 1
          /\ d.pc \in {"resuming", "answered", "resealing"} =>
                d.event \in DOMAIN events'
      BY <3>1, <3>4, <3>5, <3>6 DEF HandlerInv, n, t
    <3> QED BY <3>1, <3>7 DEF HandlerInv, m, t, d
  <2> QED BY <2>1, <2>2
<1> QED BY <1>1, <1>2 DEF Next

\* A decision let through has one handler that may still withdraw it.
LEMMA NextOwnersInv == IInv /\ [Next]_vars => OwnersInv'
<1> SUFFICES ASSUME IInv, [Next]_vars PROVE OwnersInv'
  OBVIOUS
<1>0. /\ OwnersInv /\ events \in Seq(RowType) /\ Len(events) \in Nat
      /\ thread \in [Threads -> ThreadType]
      /\ \A x \in Threads : Holding(x) => thread[x].event \in DOMAIN events
  BY DEF IInv, TypeOK, ThreadsInv, HandlerInv, Holding
<1>1. CASE UNCHANGED vars
  BY <1>0, <1>1 DEF vars, OwnersInv, Holding, Live
<1>2. ASSUME NEW w \in Threads,
             Authorize(w) \/ Redeem(w) \/ Deliver(w) \/ Abandon(w)
      PROVE  OwnersInv'
  <2>1. \A x \in Threads : x # w => thread'[x] = thread[x]
    BY <1>2, OthersKept
  <2>2. CASE Record(w) \/ Resume(w)
    <3>1. /\ \A i \in DOMAIN events : events'[i] = events[i]
          /\ Len(events) + 1 \notin DOMAIN events
      <4>1. Len(events) + 1 \notin DOMAIN events
        BY <1>0
      <4> QED BY <2>2, <4>1, RecordAdds, ResumeAdds DEF Added
    <3>2. Holding(w)' => /\ thread'[w].event = Len(events) + 1
                         /\ events'[Len(events) + 1].decision # "BLOCK"
                         /\ ~events'[Len(events) + 1].withdrawn
      <4>1. CASE Record(w)
        <5>1. \/ thread'[w] = Idle
              \/ /\ thread'[w].event = Len(events) + 1
                 /\ thread[w].decision # "BLOCK"
          BY <1>0, <4>1 DEF Record, Commit, Idle
        <5>2. /\ events'[Len(events) + 1].withdrawn = FALSE
              /\ events'[Len(events) + 1].decision = thread[w].decision
          BY <1>0, <4>1 DEF Record, Commit
        <5> QED BY <5>1, <5>2 DEF Holding, Idle
      <4>2. CASE Resume(w)
        <5>1. thread'[w].event = Len(events) + 1
          BY <1>0, <4>2 DEF Resume, Commit, Idle
        <5>2. /\ events'[Len(events) + 1].withdrawn = FALSE
              /\ events'[Len(events) + 1].decision = "ALLOW"
          BY <1>0, <4>2 DEF Resume, Commit
        <5> QED BY <5>1, <5>2
      <4> QED BY <2>2, <4>1, <4>2
    <3> QED BY <1>0, <2>1, <3>1, <3>2 DEF OwnersInv, Live, Holding
  <2>3. CASE ResealCommit(w)
    <3>1. thread'[w].pc = "idle" /\ thread[w].pc = "resealing"
      BY <1>0, <2>3 DEF ResealCommit, Idle
    <3>2. \A i \in DOMAIN events : i # thread[w].event => events'[i] = events[i]
      BY <2>3, ResealRewrites DEF Rewritten
    <3> QED BY <1>0, <2>1, <3>1, <3>2 DEF OwnersInv, Live, Holding
  <2>4. CASE ~(Record(w) \/ Resume(w) \/ ResealCommit(w))
    <3>1. UNCHANGED events
      BY <1>2, <2>4
      DEF Authorize, Redeem, Deliver, Lookup, Load, Insert, Verify, VerifyFails,
          ReadTrajectory, Decide, Number, SealFails, ResumeLoad, ResumeFails,
          Answer, ResealRead, Abandon
    <3>2. Holding(w)' => Holding(w) /\ thread'[w].event = thread[w].event
      <4>1. CASE ResealRead(w)
        BY <1>0, <4>1 DEF ResealRead, Holding, ThreadType
      <4>2. CASE ~ResealRead(w)
        <5>1. thread'[w].pc \notin {"answered", "resealing"}
          <6>1. CASE \E q \in Requests : Lookup(w, q)
            BY <1>0, <6>1 DEF Lookup, Idle
          <6>2. CASE \/ Load(w) \/ Insert(w) \/ Verify(w) \/ ReadTrajectory(w)
                     \/ Number(w) \/ \E d \in Decisions : Decide(w, d)
            <7>1. CASE Load(w)
              BY <1>0, <7>1 DEF Load, ThreadType
            <7>2. CASE Insert(w)
              BY <1>0, <7>2 DEF Insert, Idle, ThreadType
            <7>3. CASE Verify(w) \/ ReadTrajectory(w) \/ Number(w)
              BY <1>0, <7>3 DEF Verify, ReadTrajectory, Number, ThreadType
            <7>4. CASE \E d \in Decisions : Decide(w, d)
              BY <1>0, <7>4 DEF Decide, ThreadType
            <7> QED BY <6>2, <7>1, <7>2, <7>3, <7>4
          <6>3. CASE \/ VerifyFails(w) \/ SealFails(w) \/ ResumeFails(w)
                     \/ Answer(w) \/ Abandon(w)
            BY <1>0, <6>3 DEF VerifyFails, SealFails, ResumeFails, Answer,
                              Abandon, Idle
          <6>4. CASE \E i \in DOMAIN events : ResumeLoad(w, i)
            BY <1>0, <6>4 DEF ResumeLoad, Idle
          <6> QED BY <1>2, <2>4, <4>2, <6>1, <6>2, <6>3, <6>4
                  DEF Authorize, Redeem, Deliver
        <5> QED BY <5>1 DEF Holding
      <4> QED BY <4>1, <4>2
    <3> QED BY <1>0, <2>1, <3>1, <3>2 DEF OwnersInv, Live, Holding
  <2> QED BY <2>2, <2>3, <2>4
<1> QED BY <1>1, <1>2 DEF Next

-----------------------------------------------------------------------------

(***************************************************************************)
(* The theorems.                                                           *)
(***************************************************************************)

\* The inductive invariant: the chain, its tip and every handler's readings
\* agree in every reachable state of enforcement.py's protocol.
THEOREM Invariant == Spec => []IInv
<1>1. IInv /\ [Next]_vars => IInv'
  BY NextTypeOK, NextNumbered, NextDecidedOnPrefix, NextBrokenOnlyByReseal,
     NextRowsInv, NextThreadsInv, NextOwnersInv DEF IInv
<1> QED BY InitIInv, <1>1, PTL DEF Spec

\* The rows, the tip and the handlers' locals keep their types.
THEOREM TypeCorrect == Spec => []TypeOK
BY Invariant, PTL DEF IInv

\* However the gateway's threads interleave, a chain has no gap, duplicate or
\* reorder, and each digest recomputes (behavior.next_seq is read unlocked).
THEOREM ChainIsNumbered == Spec => []Numbered
BY Invariant, PTL DEF IInv

\* The chain-tip check of seal_execution_event serialises the decisions: each
\* was taken on exactly the events before it.
THEOREM DecisionsAreSerial == Spec => []DecidedOnPrefix
BY Invariant, PTL DEF IInv

\* max_calls holds across concurrent requests, for every limit.
THEOREM LimitHolds == Spec => []CallLimit
BY Invariant, PTL DEF IInv

\* Only reseal_execution_event can leave a broken chain behind.
THEOREM BreaksOnlyByReseal == Spec => []BrokenOnlyByReseal
BY Invariant, PTL DEF IInv

\* A committed row only ever changes by one withdrawal to BLOCK.
THEOREM RowsOnlyWithdrawn == Spec => OnlyWithdrawn
<1> DEFINE Kept ==
       /\ Len(events) <= Len(events')
       /\ \A i \in DOMAIN events :
             LET old == events[i]
                 new == events'[i]
             IN  new = old \/ /\ ~old.withdrawn /\ new.withdrawn
                              /\ old.decision # "BLOCK"
                              /\ new = [old EXCEPT !.withdrawn = TRUE,
                                     !.decision = "BLOCK", !.hash =
                                        Digest("BLOCK", old.previous)]
<1>1. IInv /\ [Next]_vars => [Kept]_vars
  <2> SUFFICES ASSUME IInv, [Next]_vars PROVE Kept
    OBVIOUS
  <2>0. events \in Seq(RowType) /\ Len(events) \in Nat
    BY DEF IInv, TypeOK
  <2>1. CASE ChainSame
    BY <2>0, <2>1 DEF ChainSame
  <2>2. ASSUME NEW x, NEW y, NEW d, NEW i, Added(x, y, d, i)
        PROVE  Kept
    <3>1. Len(events) <= Len(events')
      BY <2>0, <2>2 DEF Added
    <3>2. \A j \in DOMAIN events : events'[j] = events[j]
      BY <2>2 DEF Added
    <3> QED BY <3>1, <3>2
  <2>3. ASSUME NEW w \in Threads, ResealCommit(w)
        PROVE  Kept
    <3> DEFINE n == thread[w].event
    <3>1. Live(n)
      BY <2>3 DEF IInv, OwnersInv, Holding, ResealCommit
    <3>2. Rewritten(n)
      BY <2>3, ResealRewrites
    <3> HIDE DEF n
    <3>3. /\ n \in DOMAIN events /\ Len(events) <= Len(events')
          /\ \A j \in DOMAIN events : j # n => events'[j] = events[j]
          /\ events'[n].withdrawn /\ events'[n] = Withdrawn(events[n])
      BY <2>0, <3>2 DEF Rewritten
    <3>4. /\ events[n].decision # "BLOCK" /\ ~events[n].withdrawn
          /\ Withdrawn(events[n]) = [events[n] EXCEPT !.withdrawn = TRUE,
                 !.decision = "BLOCK", !.hash = Digest("BLOCK", events[n].previous)]
      <4>1. events[n] \in RowType
        BY <2>0, <3>3
      <4> QED BY <3>1, <4>1 DEF Live, Withdrawn, RowType
    <3> QED BY <3>3, <3>4
  <2> QED BY <2>1, <2>2, <2>3, StepKinds, RecordAdds, ResumeAdds
<1> QED BY Invariant, <1>1, PTL DEF Spec, OnlyWithdrawn

\* A link a race of reseal broke stays broken.
THEOREM BreaksForGood == Spec => BrokenForGood
<1> DEFINE Stays == \A i \in DOMAIN events : LinkBroken(i) => LinkBroken(i)'
<1>1. IInv /\ [Next]_vars => [Stays]_vars
  <2> SUFFICES ASSUME IInv, [Next]_vars, NEW i \in DOMAIN events, LinkBroken(i)
               PROVE  LinkBroken(i)'
    OBVIOUS
  <2>0. /\ events \in Seq(RowType) /\ DOMAIN events = 1..Len(events)
        /\ i > 1 /\ events[i - 1].withdrawn /\ i - 1 \in DOMAIN events
    BY DEF IInv, TypeOK, BrokenOnlyByReseal
  <2>1. CASE ChainSame
    BY <2>1 DEF ChainSame, LinkBroken
  <2>2. ASSUME NEW x, NEW y, NEW d, NEW r, Added(x, y, d, r)
        PROVE  LinkBroken(i)'
    BY <2>0, <2>2 DEF Added, LinkBroken
  <2>3. ASSUME NEW w \in Threads, ResealCommit(w)
        PROVE  LinkBroken(i)'
    <3>1. Live(thread[w].event) /\ Rewritten(thread[w].event)
      BY <2>3, ResealRewrites DEF IInv, OwnersInv, Holding, ResealCommit
    <3>2. i - 1 # thread[w].event
      BY <2>0, <3>1 DEF Live
    <3> QED BY <2>0, <3>1, <3>2 DEF Rewritten, LinkBroken
  <2> QED BY <2>1, <2>2, <2>3, StepKinds, RecordAdds, ResumeAdds
<1> QED BY Invariant, <1>1, PTL DEF Spec, BrokenForGood

(***************************************************************************)
(* The refinement.                                                         *)
(***************************************************************************)

Entry(e) == [decision |-> e.decision, redeems |-> e.redeems]

trail == [i \in DOMAIN events |-> Entry(events[i])]

LEMMA TrailSeq ==
    ASSUME events \in Seq(RowType)
    PROVE  trail \in Seq([decision : Decisions, redeems : Nat])
           /\ Len(trail) = Len(events)
<1>1. \A i \in 1..Len(events) :
          events[i] \in RowType /\ DOMAIN events = 1..Len(events)
  OBVIOUS
<1>2. \A i \in 1..Len(events) :
          Entry(events[i]) \in [decision : Decisions, redeems : Nat]
  BY <1>1 DEF Entry, RowType
<1>3. trail = [i \in 1..Len(events) |-> Entry(events[i])]
  BY DEF trail
<1> HIDE DEF Entry
<1> QED BY <1>2, <1>3

\* A row added to the events is an entry added to the trail.
LEMMA TrailAppends ==
    ASSUME IInv, NEW x, NEW y, NEW d, NEW r, Added(x, y, d, r)
    PROVE  trail' = Append(trail, [decision |-> d, redeems |-> r])
<1> DEFINE n == Len(events)
           e == [decision |-> d, redeems |-> r]
<1>1. events \in Seq(RowType) /\ n \in Nat /\ DOMAIN events = 1..n
  BY DEF IInv, TypeOK
<1>2. DOMAIN events' = 1..(n + 1)
  BY <1>1 DEF Added
<1>3. trail' = [i \in 1..(n + 1) |-> Entry(events'[i])]
  BY <1>2 DEF trail
<1>4. \A i \in 1..n : Entry(events'[i]) = trail[i]
  BY <1>1 DEF Added, trail
<1>5. Entry(events'[n + 1]) = e
  BY DEF Added, Entry
<1>6. Append(trail, e) = [i \in 1..(n + 1) |-> IF i = n + 1 THEN e ELSE trail[i]]
  BY <1>1, TrailSeq
<1> HIDE DEF n, e, trail, Entry
<1>7. \A i \in 1..(n + 1) :
          Entry(events'[i]) = IF i = n + 1 THEN e ELSE trail[i]
  BY <1>1, <1>4, <1>5
<1>8. trail' = Append(trail, e)
  BY <1>3, <1>6, <1>7
<1> QED BY <1>8 DEF e

\* The threads implement the trail of requests decided one at a time, for any
\* number of them: enforcement.py's optimistic check on the chain tip is as
\* good as a lock held from the trajectory's reading to the commit.
THEOREM Implements == Spec => ImplementsSequentialTrail
<1>1. Init => trail = <<>>
  BY DEF Init, trail
<1>2. IInv /\ [Next]_vars => [Trail!Next]_trail
  <2> SUFFICES ASSUME IInv, [Next]_vars
               PROVE  Trail!Next \/ UNCHANGED trail
    OBVIOUS
  <2>0. /\ events \in Seq(RowType) /\ Len(trail) = Len(events)
        /\ DOMAIN trail = DOMAIN events
        /\ \A i \in DOMAIN events : trail[i].redeems = events[i].redeems
    BY TrailSeq DEF IInv, TypeOK, trail, Entry
  <2>1. CASE ChainSame
    BY <2>1 DEF ChainSame, trail
  <2>2. ASSUME NEW w \in Threads, Record(w)
        PROVE  Trail!Next
    <3>1. PICK d \in Decisions :
             /\ Added(Len(events), Len(events), d, 0)
             /\ d # "BLOCK" => Len(events) < MaxCalls
      <4>1. thread[w].decision \in Decisions
        BY DEF IInv, TypeOK, ThreadType
      <4> QED BY <2>2, <4>1, RecordAdds
    <3>2. trail' = Append(trail, [decision |-> d, redeems |-> 0])
      BY <3>1, TrailAppends
    <3>3. Trail!Decide(d)
      BY <2>0, <3>1, <3>2 DEF Trail!Decide, trail, Entry
    <3> QED BY <3>1, <3>3 DEF Trail!Next
  <2>3. ASSUME NEW w \in Threads, Resume(w)
        PROVE  Trail!Next
    <3>1. PICK i \in DOMAIN events :
             Added(0, 0, "ALLOW", i) /\ Unredeemed(i)
      BY <2>3, ResumeAdds
    <3>2. trail' = Append(trail, [decision |-> "ALLOW", redeems |-> i])
      BY <3>1, TrailAppends
    <3>3. \A j \in DOMAIN trail : trail[j].redeems # i
      BY <2>0, <3>1 DEF Unredeemed
    <3>4. Trail!Redeem(i)
      BY <3>2, <3>3 DEF Trail!Redeem, trail, Entry
    <3> QED BY <2>0, <3>1, <3>4 DEF Trail!Next, trail, Entry
  <2>4. ASSUME NEW w \in Threads, ResealCommit(w)
        PROVE  Trail!Next
    <3>1. PICK n \in DOMAIN events : Rewritten(n)
      BY <2>4, ResealRewrites DEF Rewritten
    <3>2. DOMAIN events' = DOMAIN events /\ n \in DOMAIN events
      BY <2>0, <3>1 DEF Rewritten
    <3>3. \A i \in DOMAIN events :
             Entry(events'[i]) = IF i = n THEN [trail[i] EXCEPT !.decision = "BLOCK"]
                                 ELSE trail[i]
      BY <3>1 DEF Rewritten, Entry, trail
    <3>4. trail' = [i \in DOMAIN events |-> Entry(events'[i])]
      BY <3>2 DEF trail
    <3>5. DOMAIN trail = DOMAIN events /\ trail = [i \in DOMAIN trail |-> trail[i]]
      BY DEF trail
    <3>6. trail' = [trail EXCEPT ![n].decision = "BLOCK"]
      <4> HIDE DEF trail, Entry
      <4> QED BY <3>2, <3>3, <3>4, <3>5
    <3>7. Trail!Withdraw(n)
      BY <3>6 DEF Trail!Withdraw, trail, Entry
    <3> QED BY <3>2, <3>5, <3>7 DEF Trail!Next, trail, Entry
  <2> QED BY <2>1, <2>2, <2>3, <2>4, StepKinds
<1> QED BY <1>1, <1>2, Invariant, PTL
    DEF Spec, ImplementsSequentialTrail, Trail!Spec, trail, Entry
=============================================================================
