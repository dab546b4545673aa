------------------------------ MODULE Readiness ------------------------------
(***************************************************************************)
(* The production-readiness gate (scripts/check_readiness.py), run over a  *)
(* checkout that people go on editing and committing while reviewers       *)
(* report on it.  A report is about one gate and names a commit and the    *)
(* digest of that gate's surface, and maintainers record it in the ledger  *)
(* (readiness/production-readiness.json).  Nothing but the check stands    *)
(* between a green repository and the statuses and verdict they write, so  *)
(* these are not state: a property quantifies over all they could write.   *)
(*                                                                         *)
(* A digest is the content it hashes, in which the review target that the  *)
(* adapter corpus names reads as zeros.  Left out are conditions that only *)
(* refuse more: dates, versions, gate classes and names, repository        *)
(* references, and the matrix (PRODUCTION_READINESS.md), which has to      *)
(* state the same.                                                         *)
(***************************************************************************)
EXTENDS Naturals, Sequences, FiniteSets

CONSTANTS
    None,
    Gate,           \* bound: the gates an instance has, of REQUIRED_GATES
    Part,           \* parts of the repository
    Surface,        \* the parts each gate's review covers
    Revision,       \* contents of a part, None if it is missing
    Hashed,         \* what is hashed of a content: a target reads as zeros
    FirstTree,      \* what the checkout holds at the start
    Body,           \* what reports say, apart from commit and digest
    Insider,        \* producers whose name the independence patterns match
    MaxEdits,       \* bound: edits of the checkout
    MaxCommits,     \* bound: commits
    MaxEntries      \* bound: reports in the ledger

RequiredGates == {"G1", "G2", "G3", "G4", "G5", "G6"}
Results       == {"pass", "pass-with-findings", "fail"}
Operations    == {"correction", "supersession", "erasure"}

ASSUME ReadinessAssumption ==
    /\ Gate \subseteq RequiredGates
    /\ Surface \in [RequiredGates \ {"G1", "G4"} -> SUBSET Part]
    /\ \A b \in Body : /\ "gate" \in DOMAIN b /\ b.gate \in Gate \ {"G1"}
                      /\ b.result \in Results
    /\ Hashed \in [Revision -> Revision]
    /\ FirstTree \in [Part -> Revision]
    /\ MaxEdits \in Nat /\ MaxCommits \in Nat /\ MaxEntries \in Nat

VARIABLES
    work,       \* the checkout
    history,    \* the commits, each a tree
    evidence,   \* the external entries of the ledger
    edits       \* edits so far

vars == <<work, history, evidence, edits>>

-----------------------------------------------------------------------------
\* The surfaces.  G4 is reported against the whole Phase 2 surface of G2.

SurfaceOf(g) == Surface[IF g = "G4" THEN "G2" ELSE g]

Digest(tree, g) == [p \in SurfaceOf(g) |-> Hashed[tree[p]]]

\* A digest of a tree that lacks a file is refused (OSError).
Bound(digest, tree, g) ==
    /\ digest = Digest(tree, g)
    /\ \A p \in SurfaceOf(g) : tree[p] # None

-----------------------------------------------------------------------------
\* What makes one entry valid, and what makes it count for a PASS.

Distinct(records, Key(_)) == Cardinality({Key(r) : r \in records}) = Cardinality(records)

\* The shape of a validator's and of an experiment's report.
Shaped(e) ==
    /\ e.complete
    /\ e.gate = "G4" => e.role \in {"adapter", "validator"}
    /\ e.gate = "G4" /\ e.role = "validator" =>
          /\ Cardinality(e.validated) >= 2
          /\ Distinct(e.validated, LAMBDA v : v.implementation)
          /\ Distinct(e.validated, LAMBDA v : v.receipt)
    /\ e.gate = "G5" =>
          /\ Cardinality(e.systems) = 3
          /\ Distinct(e.systems, LAMBDA s : s.operator)

\* A variant that compares with the named commit only.
ValidAtItsCommit(e) ==
    /\ e.producer \notin Insider
    /\ Shaped(e)
    /\ Bound(e.digest, history[e.commit], e.gate)

Valid(e) ==
    /\ e.producer \notin Insider
    /\ Shaped(e)
    /\ Bound(e.digest, work, e.gate)
    /\ Bound(e.digest, history[e.commit], e.gate)

Passing(result) == result \in {"pass", "pass-with-findings"}

ExperimentHolds(e) ==
    /\ e.synthetic /\ e.user_controlled
    /\ \A s \in e.systems : s.passes /\ s.independent /\ s.completed = Operations
    /\ \E s \in e.systems : s.nonconforming
    /\ \E s \in e.systems : s.coverage \in {"incomplete", "opaque"}
    /\ \E s \in e.systems : s.mixed

MeasurementPasses(m) ==
    CASE m.comparator = "<=" -> m.value <= m.threshold
      [] m.comparator = "<"  -> m.value <  m.threshold
      [] m.comparator = ">=" -> m.value >= m.threshold
      [] m.comparator = ">"  -> m.value >  m.threshold
      [] m.comparator = "==" -> m.value =  m.threshold
      [] m.comparator = "!=" -> m.value #  m.threshold

\* A variant that takes the report's own word.
DetailsAsDeclared(e) == TRUE

Details(e) ==
    /\ e.gate = "G3" => e.constant_time /\ e.audited_build
    /\ e.gate = "G5" => ExperimentHolds(e)
    /\ e.gate = "G6" => \A s \in e.scopes :
                            s.passes /\ \A m \in s.measurements : MeasurementPasses(m)

Qualifies(e) == Valid(e) /\ Passing(e.result) /\ Details(e)

\* What a passing result of a validator says of a receipt.
Vouched(v)  == {[implementation |-> r.implementation, receipt |-> r.receipt] :
                   r \in {x \in v.validated : Passing(x.result)}}
Claim(a)    == [implementation |-> a.implementation, receipt |-> a.receipt]
Target(e)   == <<e.commit, e.digest, e.erratum>>

\* qualifying_g4_evidence
QualifyTogether(entries) ==
    LET passing  == {e \in entries : Valid(e) /\ Passing(e.result)}
        adapters == {e \in passing : e.role = "adapter"}
    IN \E v \in passing \ adapters, a, b \in adapters :
          /\ v.producer_identity \notin {x.producer_identity : x \in adapters}
          /\ a.producer_identity # b.producer_identity
          /\ a.implementation # b.implementation
          /\ Target(a) = Target(v) /\ Target(b) = Target(v)
          /\ {Claim(a), Claim(b)} \subseteq Vouched(v)

EvidenceFor(g) == {e \in evidence : e.gate = g}

Qualified(g) ==
    IF g = "G4" THEN QualifyTogether(EvidenceFor(g))
                ELSE \E e \in EvidenceFor(g) : Qualifies(e)

\* What the ledger states, and the matrix has to state too (validate_matrix).
Statement == [status : [Gate -> {"PASS", "BLOCKED"}], verdict : {"PROD_READY", "NOT_PROD_READY"}]

\* The check exits 0 (validate_ledger).
Accepts(said) ==
    /\ \A e \in evidence : Valid(e)
    /\ \A g \in Gate \ {"G1"} : said.status[g] = "PASS" => Qualified(g)
    /\ said.verdict = "PROD_READY" => \A g \in Gate : said.status[g] = "PASS"

-----------------------------------------------------------------------------
Init ==
    /\ work = FirstTree
    /\ history = <<work>>
    /\ evidence = {}
    /\ edits = 0

Edit(p, v) ==
    /\ edits < MaxEdits /\ v # work[p]
    /\ work' = [work EXCEPT ![p] = v]
    /\ edits' = edits + 1
    /\ UNCHANGED <<history, evidence>>

Commit ==
    /\ Len(history) < MaxCommits
    /\ work # history[Len(history)]
    /\ history' = Append(history, work)
    /\ UNCHANGED <<work, evidence, edits>>

Enter(e) ==
    /\ Cardinality(evidence \cup {e}) <= MaxEntries
    /\ evidence' = evidence \cup {e}
    /\ UNCHANGED <<work, history, edits>>

Report(b, c, digest) ==
    [field \in DOMAIN b \cup {"commit", "digest"} |->
        IF field = "commit" THEN c ELSE IF field = "digest" THEN digest ELSE b[field]]

\* A report on a commit is recorded.
Record(b, c) == Enter(Report(b, c, Digest(history[c], b.gate)))

\* A report on a checkout with uncommitted edits, which names its HEAD.
RecordDirty(b) ==
    /\ Digest(work, b.gate) # Digest(history[Len(history)], b.gate)
    /\ Enter(Report(b, Len(history), Digest(work, b.gate)))

Withdraw(e) ==
    /\ evidence' = evidence \ {e}
    /\ UNCHANGED <<work, history, edits>>

Next ==
    \/ \E p \in Part, v \in Revision : Edit(p, v)
    \/ Commit
    \/ \E b \in Body, c \in DOMAIN history : Record(b, c)
    \/ \E b \in Body : RecordDirty(b)
    \/ \E e \in evidence : Withdraw(e)

Spec == Init /\ [][Next]_vars

-----------------------------------------------------------------------------
(***************************************************************************)
(* Properties                                                              *)
(***************************************************************************)

\* An outside report on gate g that passes and read what its surface holds now,
\* but for the review target named in it.
Supports(e, g) ==
    /\ e.gate = g /\ Passing(e.result) /\ e.producer \notin Insider
    /\ \A p \in SurfaceOf(g) : /\ Hashed[work[p]] = Hashed[history[e.commit][p]]
                               /\ Hashed[work[p]] = e.digest[p]

\* A gate that is accepted as PASS rests on an outside report that passes and
\* read exactly what its surface holds now, whatever was edited or committed
\* since, and whatever else is recorded (check_readiness.py:366-395).
PassRestsOnThisContent ==
    \A said \in Statement : Accepts(said) =>
        \A g \in Gate \ {"G1"} :
            said.status[g] = "PASS" => \E e \in evidence : Supports(e, g)

\* A repository accepted as ready rests, for G6, on a report in which no number
\* misses its threshold, whatever it declares, for G5 on one in which no system
\* left an operation out, for G3 on an audited build (check_readiness.py:423-439,
\* 618-638, 777-789).
ReadyIsMeasured ==
    \A said \in Statement :
        Accepts(said) /\ said.verdict = "PROD_READY" =>
            /\ \E e \in evidence :
                  /\ Supports(e, "G6")
                  /\ \A s \in e.scopes : \A m \in s.measurements : MeasurementPasses(m)
            /\ \E e \in evidence :
                  /\ Supports(e, "G5")
                  /\ \A s \in e.systems : s.passes /\ Operations \subseteq s.completed
            /\ \E e \in evidence : Supports(e, "G3") /\ e.audited_build
=============================================================================
