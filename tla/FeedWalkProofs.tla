---------------------------- MODULE FeedWalkProofs ----------------------------
(***************************************************************************)
(* verify_feed is right on every feed, of any length, under every key      *)
(* schedule and from every last sequence: it returns exactly the good      *)
(* feeds, and an event it refuses as a conflict contradicts one that it    *)
(* accepted.  The invariant says what the loop has established so far:     *)
(* the events read are good, and they are all that `seen` holds.           *)
(***************************************************************************)
EXTENDS FeedWalk, TLAPS

\* Event i of the feed is what it has to be at its place.
IsGood(i) ==
    /\ feed[i].seq = last + i
    /\ KeyIsActive(feed[i]) /\ SignatureVerifies(feed[i])
    /\ WellFormed(feed[i], AcceptedRoot)

FeedInv ==
    /\ feed \in Seq(Event) /\ last \in Nat /\ read \in 0..Len(feed)
    /\ outcome = "reading" =>
          /\ previous = last + read
          /\ \A i \in 1..read : IsGood(i)
          /\ \A e \in seen : \E i \in 1..read : e = feed[i]
    /\ ReturnsExactlyGoodFeeds
    /\ ConflictIsNamed

-----------------------------------------------------------------------------
LEMMA FeedInvInit == Init => FeedInv
<1> SUFFICES ASSUME Init PROVE FeedInv
  OBVIOUS
<1>1. feed \in Seq(Event)
  <2>1. PICK m \in 0..MaxFeed : feed \in [1..m -> Event]
    BY DEF Init, BoundedSeq, SeqOf
  <2>2. m \in Nat
    BY <2>1, FeedWalkAssumption
  <2> QED
    BY <2>1, <2>2
<1>2. last \in Nat /\ read \in 0..Len(feed) /\ previous = last + read
  BY <1>1, FeedWalkAssumption DEF Init
<1> QED
  BY <1>1, <1>2 DEF Init, FeedInv, ReturnsExactlyGoodFeeds, ConflictIsNamed

\* An event is accepted exactly when it is good at its place: nothing accepted
\* before it can have its sequence, so a good event is never a conflict.
LEMMA AcceptedIsGood ==
    ASSUME FeedInv, outcome = "reading", read < Len(feed)
    PROVE  Verdict(feed[read + 1], previous, seen, AcceptedRoot) = "accepted"
              <=> IsGood(read + 1)
<1> DEFINE e == feed[read + 1]
<1>1. previous = last + read /\ last \in Nat /\ read \in Nat
  BY DEF FeedInv
<1>2. ASSUME Verdict(e, previous, seen, AcceptedRoot) = "accepted"
      PROVE  IsGood(read + 1)
  <2>1. /\ KeyIsActive(e) /\ SignatureVerifies(e) /\ WellFormed(e, AcceptedRoot)
        /\ ~LeavesGap(e, previous)
    BY <1>2 DEF Verdict
  <2> QED
    BY <1>1, <2>1 DEF LeavesGap, IsGood
<1>3. ASSUME IsGood(read + 1)
      PROVE  Verdict(e, previous, seen, AcceptedRoot) = "accepted"
  <2>1. e.seq = previous + 1
    BY <1>1, <1>3 DEF IsGood
  <2>2. ~IsReplay(e, previous) /\ ~LeavesGap(e, previous)
    BY <1>1, <2>1 DEF IsReplay, LeavesGap
  <2>3. ASSUME NEW s \in seen
        PROVE  s.seq # e.seq
    <3>1. PICK i \in 1..read : s = feed[i]
      BY <2>3 DEF FeedInv
    <3>2. s.seq = last + i
      BY <3>1 DEF FeedInv, IsGood
    <3> QED
      BY <1>1, <2>1, <3>2
  <2>4. ~ConflictsWith(e, seen)
    BY <2>3 DEF ConflictsWith
  <2> QED
    BY <1>3, <2>2, <2>4 DEF Verdict, IsGood
<1> QED
  BY <1>2, <1>3

LEMMA FeedInvStep == FeedInv /\ [Next]_vars => FeedInv'
<1> SUFFICES ASSUME FeedInv, [Next]_vars PROVE FeedInv'
  OBVIOUS
<1>1. CASE Examine
  <2> DEFINE e == feed[read + 1]
             verdict == Verdict(e, previous, seen, AcceptedRoot)
  <2>1. /\ outcome = "reading" /\ read < Len(feed)
        /\ read' = read + 1 /\ feed' = feed /\ last' = last
    BY <1>1 DEF Examine
  <2>2. feed' \in Seq(Event) /\ last' \in Nat /\ read' \in 0..Len(feed')
    BY <2>1 DEF FeedInv
  <2>3. verdict = "accepted" <=> IsGood(read + 1)
    BY <2>1, AcceptedIsGood
  <2>4. CASE verdict = "accepted"
    <3>1. previous' = e.seq /\ seen' = seen \cup {e} /\ outcome' = "reading"
      BY <1>1, <2>1, <2>4 DEF Examine
    <3>2. previous' = last' + read'
      BY <2>1, <2>3, <2>4, <3>1 DEF IsGood, FeedInv
    <3>3. \A i \in 1..read' : IsGood(i)'
      BY <2>1, <2>3, <2>4 DEF IsGood, FeedInv
    <3>4. \A x \in seen' : \E i \in 1..read' : x = feed'[i]
      BY <2>1, <3>1 DEF FeedInv
    <3> QED
      BY <2>2, <3>1, <3>2, <3>3, <3>4
      DEF FeedInv, ReturnsExactlyGoodFeeds, ConflictIsNamed
  <2>5. CASE verdict # "accepted"
    <3>1. outcome' = verdict /\ seen' = seen
      BY <1>1, <2>5 DEF Examine
    <3>2. verdict \notin {"reading", "returned"}
      BY DEF Verdict
    <3>3. ~FeedIsGood'
      BY <2>1, <2>3, <2>5 DEF FeedIsGood, IsGood, FeedInv
    <3>4. ReturnsExactlyGoodFeeds'
      BY <3>1, <3>2, <3>3 DEF ReturnsExactlyGoodFeeds
    <3>5. feed'[read'] = e
      BY <2>1
    <3>6. /\ verdict = "conflict" => ConflictsWith(e, seen)
          /\ verdict = "rollback" => ~ConflictsWith(e, seen)
      BY DEF Verdict
    <3>7. ConflictIsNamed'
      BY <3>1, <3>5, <3>6 DEF ConflictIsNamed, ConflictsWith
    <3> QED
      BY <2>2, <3>1, <3>2, <3>4, <3>7 DEF FeedInv
  <2> QED
    BY <2>4, <2>5
<1>2. CASE Return
  <2>1. /\ outcome = "reading" /\ read = Len(feed) /\ outcome' = "returned"
        /\ feed' = feed /\ last' = last /\ read' = read
    BY <1>2 DEF Return
  <2>2. FeedIsGood'
    BY <2>1 DEF FeedInv, FeedIsGood, IsGood
  <2> QED
    BY <2>1, <2>2 DEF FeedInv, ReturnsExactlyGoodFeeds, ConflictIsNamed
<1>3. CASE UNCHANGED vars
  BY <1>3 DEF vars, FeedInv, IsGood, ReturnsExactlyGoodFeeds, FeedIsGood, ConflictIsNamed
<1> QED
  BY <1>1, <1>2, <1>3 DEF Next

LEMMA FeedInvHolds == Spec => []FeedInv
<1> QED
  BY FeedInvInit, FeedInvStep, PTL DEF Spec

-----------------------------------------------------------------------------
\* Whatever the feed, the key schedule and the last sequence, verify_feed returns
\* exactly when every event is authentic, well formed and next in sequence.
THEOREM FeedsAreReturnedIfGood == Spec => []ReturnsExactlyGoodFeeds
<1>1. FeedInv => ReturnsExactlyGoodFeeds
  BY DEF FeedInv
<1> QED
  BY FeedInvHolds, <1>1, PTL

\* An authentic event is refused as a conflict exactly when another event was
\* accepted at its sequence, and as a rollback otherwise.
THEOREM ConflictsAreNamed == Spec => []ConflictIsNamed
<1>1. FeedInv => ConflictIsNamed
  BY DEF FeedInv
<1> QED
  BY FeedInvHolds, <1>1, PTL
===============================================================================
