------------------------------ MODULE ErrataFeed ------------------------------
(***************************************************************************)
(* Authentication and ordering of errata (prototype/errata.py).            *)
(*                                                                         *)
(* An erratum is a record                                                  *)
(*   id, seq, root, op, replacement  - what the owner says                 *)
(*   negative, positive, preserve    - the postconditions of the triad;    *)
(*                                     None when the event omits one,      *)
(*                                     preserve a set of propositions      *)
(*   key                             - the key id it names                 *)
(*   signer                          - the key whose signature verifies on *)
(*                                     exactly this content, None if none  *)
(* so two events with the same fingerprint are the same record.            *)
(***************************************************************************)
EXTENDS Vocabulary, Naturals, Sequences, FiniteSetsExt

CONSTANT KeySchedule   \* OwnerKeySchedule: <<[from, key], ...>> by activation

\* OwnerKeySchedule.__post_init__: starts at 1, strictly ordered, keys distinct.
ASSUME KeyScheduleAssumption ==
    /\ KeySchedule # <<>>
    /\ KeySchedule[1].from = 1
    /\ \A i, j \in DOMAIN KeySchedule :
          i < j => /\ KeySchedule[i].from < KeySchedule[j].from
                   /\ KeySchedule[i].key # KeySchedule[j].key

\* key_for(sequence): the last activation that is not later than `seq`.
ActiveKey(seq) ==
    LET live == {i \in DOMAIN KeySchedule : KeySchedule[i].from <= seq}
    IN  KeySchedule[IF live = {} THEN 1 ELSE Max(live)].key

\* Erratum and Operation: from_json refuses any other operation.
IsErratum(e) ==
    /\ e.seq \in Nat
    /\ e.op \in {"correct", "supersede", "erase"}
    /\ e.replacement \in Prop \cup {None}

KeyIsActive(e) == e.key = ActiveKey(e.seq)
SignatureVerifies(e) == e.signer = e.key /\ e.signer # None

\* _check_shape
WellFormed(e, roots) ==
    /\ e.root \in roots
    /\ (e.replacement = None) <=> (e.op = "erase")
    /\ e.negative # None /\ e.preserve # None
    /\ e.op # "erase" => e.positive # None

\* Variants: no conflict is seen, one missing sequence is none.
ConflictsNever(e, seen)         == FALSE
LeavesGapOfTwo(e, previous)     == e.seq > previous + 2

ConflictsWith(e, seen)   == \E s \in seen : s.seq = e.seq /\ s # e
IsReplay(e, previous)    == e.seq <= previous
LeavesGap(e, previous)   == e.seq # previous + 1

\* One turn of the loop of verify_feed: the first check that fails.  `seen`
\* is the set of events accepted earlier in the same call.
Verdict(e, previous, seen, roots) ==
    IF      ~KeyIsActive(e)                       THEN "wrong key"
    ELSE IF ~SignatureVerifies(e)                 THEN "bad signature"
    ELSE IF ConflictsWith(e, seen)                THEN "conflict"
    ELSE IF IsReplay(e, previous)                 THEN "rollback"
    ELSE IF LeavesGap(e, previous)                THEN "gap"
    ELSE IF ~WellFormed(e, roots)                 THEN "bad shape"
    ELSE "accepted"
===============================================================================
