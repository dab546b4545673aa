------------------------------ MODULE SemanticRun ------------------------------
(***************************************************************************)
(* The semantic probe runner (prototype/semantic.py): declared probes go   *)
(* to an untrusted verifier one by one, or a recorded list is taken as it  *)
(* is, and what came back becomes one report that is persisted without     *)
(* the diagnostics' causes and may be parsed again later.                  *)
(*                                                                         *)
(* A probe is [id, kind, operation, required]; an observation is           *)
(* [id, operation, config, verdict] and may name any id, whichever probe   *)
(* it was returned for.  The declared tuple may be in any order, so the    *)
(* probes are asked in any order.                                          *)
(***************************************************************************)
EXTENDS Naturals, Sequences, FiniteSets, SequencesExt

CONSTANTS
    ProbeSet,       \* the sets of probes a caller may declare
    Observation,    \* observations a verifier may return or a file may hold
    Recorded,       \* the recorded lists a caller may bring
    Config,         \* the digest of the run's VerifierConfig
    ErasureProbeId  \* [kind -> the fixed id of an erasure's probe]

ProbeKind == {"negative", "positive", "preservation"}
Operation == {"correct", "supersede", "erase"}
Verdict   == {"pass", "fail", "inconclusive", "error"}

\* What the constructors refuse: an erasure has no positive probe, and its
\* probes and observations have fixed ids.
IsProbe(p) ==
    /\ p.kind \in ProbeKind /\ p.operation \in Operation /\ p.required \in BOOLEAN
    /\ p.operation = "erase" =>
          p.kind \in DOMAIN ErasureProbeId /\ p.id = ErasureProbeId[p.kind]
IsObservation(o) ==
    /\ o.verdict \in Verdict /\ o.operation \in Operation
    /\ o.operation = "erase" => \E k \in DOMAIN ErasureProbeId : o.id = ErasureProbeId[k]

\* run raises before it asks anything when two probes share an id.
ASSUME ProbeAssumption ==
    /\ DOMAIN ErasureProbeId = {"negative", "preservation"}
    /\ ErasureProbeId["negative"] # ErasureProbeId["preservation"]
    /\ \A probes \in ProbeSet :
          /\ \A p \in probes : IsProbe(p)
          /\ \A p, q \in probes : p.id = q.id => p = q
    /\ \A o \in Observation : IsObservation(o)
    /\ Recorded \subseteq Seq(Observation)

VARIABLES
    declared,       \* the probes of this run
    toAsk,          \* probes the verifier has not been asked
    received,       \* observations, in the order they came
    diagnostics,    \* adapter_limitations
    report,         \* the report, <<>> until there is one
    parsed          \* what from_dict made of it: "unread", "refused", "accepted"

vars == <<declared, toAsk, received, diagnostics, report, parsed>>

-----------------------------------------------------------------------------
\* _required_triad raises ValueError when this is false.
ExpectedKinds(operation) ==
    {"negative", "preservation"} \cup (IF operation = "erase" THEN {} ELSE {"positive"})

RequiredTriad(probes) ==
    /\ probes # {}
    /\ \A p, q \in probes : (p.id = q.id => p = q) /\ p.operation = q.operation
    /\ \A p \in probes :
          {q.kind : q \in {q \in probes : q.required}} = ExpectedKinds(p.operation)

Places(observations, id) == {n \in DOMAIN observations : observations[n].id = id}
ConfigBound(o) == o.config = Config
Matches(o, p)  == o.id = p.id /\ o.operation = p.operation /\ ConfigBound(o)

\* A variant that accepts every matching observation of a probe.
AcceptedRepeatedly(probes, observations) ==
    {o \in Range(observations) : \E p \in probes : Matches(o, p)}

\* Observations that count: the only one of their probe, and matching it.
Accepted(probes, observations) ==
    {observations[n] : n \in {n \in DOMAIN observations :
        /\ \E p \in probes : Matches(observations[n], p)
        /\ Places(observations, observations[n].id) = {n}}}

ValidFails(probes, accepted) ==
    {p \in probes : p.required /\ \E o \in accepted : o.id = p.id /\ o.verdict = "fail"}

\* The limitations of _evaluate_evidence, as <<code, probe id or count>>.
Defects(probes, observations) ==
    LET unexpected == {n \in DOMAIN observations :
                          observations[n].id \notin {p.id : p \in probes}}
    IN  (IF unexpected = {} THEN {} ELSE {<<"unexpected", Cardinality(unexpected)>>})
        \cup {<<"duplicate", p.id>> :
                 p \in {p \in probes : Cardinality(Places(observations, p.id)) > 1}}
        \cup {<<"mismatch", p.id>> :
                 p \in {p \in probes : \E n \in DOMAIN observations :
                           /\ Places(observations, p.id) = {n}
                           /\ ~Matches(observations[n], p)}}

\* A variant that takes an inconclusive answer for a pass.
OnlyMissing(probes, accepted) ==
    {<<"missing", p.id>> :
        p \in {p \in probes : p.required /\ \A o \in accepted : o.id # p.id}}

Unanswered(probes, accepted) ==
    {<<"missing", p.id>> :
        p \in {p \in probes : p.required /\ \A o \in accepted : o.id # p.id}}
    \cup {<<"undecided", o.id>> :
        o \in {o \in accepted : /\ o.verdict \in {"inconclusive", "error"}
                                /\ \E p \in probes : p.required /\ p.id = o.id}}

EvidenceLimitations(probes, observations) ==
    Defects(probes, observations)
        \cup Unanswered(probes, Accepted(probes, observations))

\* A variant in which an uncertainty hides a failure.
CoverageUncertainFirst(fails, limitations) ==
    IF limitations # {} THEN "unknown" ELSE IF fails # {} THEN "failed" ELSE "verified"

CoverageOf(fails, limitations) ==
    IF fails # {} THEN "failed" ELSE IF limitations # {} THEN "unknown" ELSE "verified"

-----------------------------------------------------------------------------
Init ==
    /\ declared \in ProbeSet
    /\ toAsk = declared
    /\ received = <<>> /\ diagnostics = {}
    /\ report = <<>> /\ parsed = "unread"

\* RecordedSemanticVerifier, or a plain iterable: the list is taken whole.
TakeRecorded(observations) ==
    /\ toAsk = declared /\ toAsk # {}
    /\ received' = observations
    /\ toAsk' = {}
    /\ UNCHANGED <<declared, diagnostics, report, parsed>>

\* verifier.evaluate returns an observation, whatever it is of.
Answer(p, o) ==
    /\ p \in toAsk
    /\ received' = Append(received, o)
    /\ toAsk' = toAsk \ {p}
    /\ UNCHANGED <<declared, diagnostics, report, parsed>>

\* It returns None.
NoAnswer(p) ==
    /\ p \in toAsk
    /\ toAsk' = toAsk \ {p}
    /\ UNCHANGED <<declared, received, diagnostics, report, parsed>>

Diagnostic(code, p) == {<<code, p.id>>}

\* It raises, or returns something that is no observation.
BadAnswer(p, code) ==
    /\ p \in toAsk
    /\ diagnostics' = diagnostics \cup Diagnostic(code, p)
    /\ toAsk' = toAsk \ {p}
    /\ UNCHANGED <<declared, received, report, parsed>>

\* _from_runner_evidence, after _required_triad let the probes pass
Report ==
    LET accepted    == Accepted(declared, received)
        limitations == diagnostics \cup EvidenceLimitations(declared, received)
    IN  /\ toAsk = {} /\ report = <<>>
        /\ RequiredTriad(declared)
        /\ report' = <<[coverage     |-> CoverageOf(ValidFails(declared, accepted), limitations),
                        observations |-> accepted,
                        limitations  |-> limitations]>>
        /\ UNCHANGED <<declared, toAsk, received, diagnostics, parsed>>

\* A variant of the check below that trusts the limitations it is given.
LimitationsAsGiven(written) == written.limitations

\* What _validate expects the limitations of a parsed report to be: those its
\* own observations show.  Accepted observations have distinct ids.
ExpectedLimitations(written) ==
    EvidenceLimitations(declared, SetToSeq(written.observations))

\* SemanticProbeReport.from_dict over the persisted report
Parse ==
    /\ report # <<>> /\ parsed = "unread"
    /\ LET written  == report[1]
           expected == ExpectedLimitations(written)
       IN  parsed' = IF /\ written.limitations = expected
                        /\ written.coverage =
                              CoverageOf(ValidFails(declared, written.observations), expected)
                     THEN "accepted" ELSE "refused"
    /\ UNCHANGED <<declared, toAsk, received, diagnostics, report>>

Next ==
    \/ \E list \in Recorded : TakeRecorded(list)
    \/ \E p \in declared :
          \/ \E o \in Observation : Answer(p, o)
          \/ NoAnswer(p)
          \/ \E code \in {"provider error", "malformed"} : BadAnswer(p, code)
    \/ Report
    \/ Parse

Spec == Init /\ [][Next]_vars

-----------------------------------------------------------------------------
\* Every variable holds a value the code could put there.
TypeOK ==
    /\ declared \in ProbeSet /\ toAsk \subseteq declared
    /\ received \in Seq(Observation)
    /\ report # <<>> =>
          /\ report[1].coverage \in {"verified", "unknown", "failed"}
          /\ report[1].observations \subseteq Range(received)
          /\ \A o, q \in report[1].observations : o.id = q.id => o = q
    /\ parsed \in {"unread", "refused", "accepted"}

\* SemanticProbeRunner, "without upgrading uncertainty": `verified` means that
\* every required probe got exactly one answer, under this operation and this
\* configuration, that passed, and that nothing else arrived or went wrong,
\* with an optional probe neither.
VerifiedIsCompleteEvidence ==
    report # <<>> /\ report[1].coverage = "verified" =>
        /\ diagnostics = {}
        /\ \A n \in DOMAIN received :
              /\ \E p \in declared : Matches(received[n], p)
              /\ Places(received, received[n].id) = {n}
        /\ \A p \in declared : p.required =>
              \E n \in DOMAIN received : received[n].id = p.id /\ received[n].verdict = "pass"

\* A valid failure of a required probe takes precedence over every limitation
\* that other answers cause, and nothing but such a failure is reported failed.
FailureIsNotMasked ==
    report # <<>> =>
        (report[1].coverage = "failed" <=>
            \E p \in declared, n \in DOMAIN received :
                /\ p.required /\ Matches(received[n], p) /\ received[n].verdict = "fail"
                /\ Cardinality(Places(received, p.id)) = 1)

\* A persisted report is read back exactly when its own observations explain
\* it: one whose uncertainty came from evidence that was not persisted, or from
\* the verifier, is refused by the parser rather than read as something else.
ParsedIsSelfContained ==
    parsed # "unread" =>
        (parsed = "accepted" <=>
            /\ diagnostics = {}
            /\ \A n \in DOMAIN received : received[n] \in report[1].observations
            /\ Cardinality(report[1].observations) = Len(received))
===============================================================================
