------------------------------- MODULE FeedWalk -------------------------------
(***************************************************************************)
(* verify_feed over a whole list: the loop walks the list once, raising    *)
(* FeedError at the first event that fails a check and returning the       *)
(* accepted events otherwise.                                              *)
(***************************************************************************)
EXTENDS ErrataFeed, SequencesExt

CONSTANTS
    Event,          \* events a feed may carry
    AcceptedRoot,   \* the RootRegistry
    MaxFeed,        \* bound: events in one feed
    MaxLast         \* bound: last_sequence of the caller

ASSUME FeedWalkAssumption == MaxFeed \in Nat /\ MaxLast \in Nat

VARIABLES
    feed,       \* the list given
    last,       \* last_sequence given
    read,       \* events examined so far
    previous,   \* sequence of the last accepted event
    seen,       \* events accepted so far, by sequence
    accepted,   \* the list to return
    outcome     \* "reading", "returned", or the reason of the FeedError

vars == <<feed, last, read, previous, seen, accepted, outcome>>

Init ==
    /\ feed \in BoundedSeq(Event, MaxFeed)
    /\ last \in 0..MaxLast
    /\ read = 0 /\ previous = last /\ seen = {} /\ accepted = <<>>
    /\ outcome = "reading"

Examine ==
    /\ outcome = "reading" /\ read < Len(feed)
    /\ LET e == feed[read + 1]
           verdict == Verdict(e, previous, seen, AcceptedRoot)
       IN  /\ read' = read + 1
           /\ IF verdict = "accepted"
              THEN /\ previous' = e.seq
                   /\ seen' = seen \cup {e}
                   /\ accepted' = Append(accepted, e)
                   /\ UNCHANGED outcome
              ELSE /\ outcome' = verdict
                   /\ UNCHANGED <<previous, seen, accepted>>
    /\ UNCHANGED <<feed, last>>

Return ==
    /\ outcome = "reading" /\ read = Len(feed)
    /\ outcome' = "returned"
    /\ UNCHANGED <<feed, last, read, previous, seen, accepted>>

Next == Examine \/ Return

Spec == Init /\ [][Next]_vars /\ WF_vars(Next)

-----------------------------------------------------------------------------
\* The loop accepts a feed exactly when the closed statement of the rule holds:
\* every event is signed by the key active at its own sequence, is well formed,
\* and the sequences are last+1, last+2, ... with no gap, repeat or rollback.
FeedIsGood ==
    \A i \in DOMAIN feed :
        /\ feed[i].seq = last + i
        /\ KeyIsActive(feed[i]) /\ SignatureVerifies(feed[i])
        /\ WellFormed(feed[i], AcceptedRoot)
ReturnsExactlyGoodFeeds ==
    outcome # "reading" => (outcome = "returned" <=> FeedIsGood)

\* The refusal names equivocation only when the view really equivocated, and an
\* authentic second event for an accepted sequence is named as a conflict,
\* never as an ordinary replay.
ConflictIsNamed ==
    outcome \in {"conflict", "rollback"} =>
        LET e == feed[read]
        IN  (outcome = "conflict") <=> \E s \in seen : s.seq = e.seq /\ s # e
===============================================================================
