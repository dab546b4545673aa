--------------------------- MODULE SemanticRunProofs ---------------------------
(***************************************************************************)
(* A semantic report is honest whatever the untrusted verifier answers,    *)
(* for every set of probes and every list of recorded observations.        *)
(*                                                                         *)
(* The inductive invariant SInv says what a report is made of: once there  *)
(* is one, no probe is left to ask, so what it was computed from is still  *)
(* what was received.                                                      *)
(***************************************************************************)
EXTENDS SemanticRun, FiniteSetTheorems, TLAPS

ReportOf(probes, observations, causes) ==
    LET accepted    == Accepted(probes, observations)
        limitations == causes \cup EvidenceLimitations(probes, observations)
    IN  [coverage     |-> CoverageOf(ValidFails(probes, accepted), limitations),
         observations |-> accepted,
         limitations  |-> limitations]

\* What from_dict compares.
Explained(written) ==
    /\ written.limitations = ExpectedLimitations(written)
    /\ written.coverage = CoverageOf(ValidFails(declared, written.observations),
                                    ExpectedLimitations(written))

SInv ==
    /\ declared \in ProbeSet /\ toAsk \subseteq declared
    /\ received \in Seq(Observation)
    /\ parsed \in {"unread", "refused", "accepted"}
    /\ \A d \in diagnostics : d[1] \in {"provider error", "malformed"}
    /\ report # <<>> =>
          toAsk = {} /\ report[1] = ReportOf(declared, received, diagnostics)
    /\ parsed # "unread" =>
          report # <<>> /\ (parsed = "accepted" <=> Explained(report[1]))

LEMMA SInvHolds == Spec => []SInv
<1>1. Init => SInv
  BY DEF Init, SInv
<1>2. SInv /\ [Next]_vars => SInv'
  <2> SUFFICES ASSUME SInv, [Next]_vars PROVE SInv'
    OBVIOUS
  <2>1. ASSUME NEW list \in Recorded, TakeRecorded(list) PROVE SInv'
    <3>1. report = <<>> /\ parsed = "unread"
      BY <2>1 DEF TakeRecorded, SInv
    <3> QED
      BY <2>1, <3>1, ProbeAssumption DEF TakeRecorded, SInv
  <2>2. ASSUME NEW p \in declared, NEW o \in Observation, Answer(p, o) PROVE SInv'
    <3>1. report = <<>> /\ parsed = "unread"
      BY <2>2 DEF Answer, SInv
    <3>2. received' \in Seq(Observation) /\ toAsk' \subseteq declared
      <4>1. received' = Append(received, o) /\ toAsk' = toAsk \ {p}
        BY <2>2 DEF Answer
      <4>2. received \in Seq(Observation) /\ toAsk \subseteq declared
        BY DEF SInv
      <4> QED
        BY <2>2, <4>1, <4>2
    <3>3. UNCHANGED <<declared, diagnostics, report, parsed>>
      BY <2>2 DEF Answer
    <3> QED
      BY <3>1, <3>2, <3>3 DEF SInv
  <2>3. ASSUME NEW p \in declared, NoAnswer(p) PROVE SInv'
    <3>1. report = <<>> /\ parsed = "unread"
      BY <2>3 DEF NoAnswer, SInv
    <3> QED
      BY <2>3, <3>1 DEF NoAnswer, SInv
  <2>4. ASSUME NEW p \in declared, NEW code \in {"provider error", "malformed"},
               BadAnswer(p, code)
        PROVE  SInv'
    <3>1. report = <<>> /\ parsed = "unread"
      BY <2>4 DEF BadAnswer, SInv
    <3>2. \A d \in diagnostics' : d[1] \in {"provider error", "malformed"}
      <4>1. diagnostics' = diagnostics \cup {<<code, p.id>>}
        BY <2>4 DEF BadAnswer, Diagnostic
      <4>2. <<code, p.id>>[1] = code
        OBVIOUS
      <4> QED
        BY <4>1, <4>2 DEF SInv
    <3>3. toAsk' \subseteq declared /\ UNCHANGED <<declared, received, report, parsed>>
      BY <2>4 DEF BadAnswer, SInv
    <3> QED
      BY <3>1, <3>2, <3>3 DEF SInv
  <2>5. CASE Report
    <3>1. /\ report' = <<ReportOf(declared, received, diagnostics)>> /\ toAsk = {}
          /\ report = <<>> /\ UNCHANGED <<declared, toAsk, received, diagnostics, parsed>>
      BY <2>5 DEF Report, ReportOf
    <3> QED
      BY <3>1 DEF SInv
  <2>6. CASE Parse
    <3>1. /\ report # <<>> /\ UNCHANGED <<declared, toAsk, received, diagnostics, report>>
          /\ parsed' = IF Explained(report[1]) THEN "accepted" ELSE "refused"
      BY <2>6 DEF Parse, Explained
    <3>2. Explained(report[1])' <=> Explained(report[1])
      BY <3>1 DEF Explained, ExpectedLimitations
    <3> QED
      BY <3>1, <3>2 DEF SInv
  <2>7. CASE UNCHANGED vars
    <3>1. Explained(report[1])' <=> Explained(report[1])
      BY <2>7 DEF vars, Explained, ExpectedLimitations
    <3> QED
      BY <2>7, <3>1 DEF vars, SInv
  <2> QED
    BY <2>1, <2>2, <2>3, <2>4, <2>5, <2>6, <2>7 DEF Next
<1> QED
  BY <1>1, <1>2, PTL DEF Spec

-----------------------------------------------------------------------------
\* What a list of observations amounts to.

LEMMA ProbeIdsAreUnique ==
    ASSUME NEW probes \in ProbeSet, NEW p \in probes, NEW q \in probes, p.id = q.id
    PROVE  p = q
  BY ProbeAssumption

LEMMA PlacesCount ==
    ASSUME NEW list \in Seq(Observation), NEW id
    PROVE  /\ Places(list, id) \subseteq DOMAIN list /\ DOMAIN list = 1..Len(list)
           /\ Cardinality(Places(list, id)) \in Nat
           /\ Cardinality(Places(list, id)) = 0 <=> Places(list, id) = {}
           /\ Cardinality(Places(list, id)) = 1 <=> \E n : Places(list, id) = {n}
<1> DEFINE S == Places(list, id)
<1>1. S \subseteq DOMAIN list
  BY DEF Places
<1>2. DOMAIN list = 1..Len(list) /\ Len(list) \in Nat
  OBVIOUS
<1>3. IsFiniteSet(1..Len(list))
  BY <1>2, FS_Interval
<1>4. IsFiniteSet(S)
  BY <1>1, <1>2, <1>3, FS_Subset
<1> HIDE DEF S
<1>5. Cardinality(S) \in Nat
  BY <1>4, FS_CardinalityType
<1>6. /\ Cardinality(S) = 0 <=> S = {}
      /\ Cardinality(S) = 1 <=> \E n : S = {n}
  BY <1>4, FS_EmptySet, FS_Singleton
<1> QED
  BY <1>1, <1>2, <1>5, <1>6 DEF S

\* Nothing arrived but one matching observation of each probe it is of.
AllCount(probes, list) ==
    \A n \in DOMAIN list :
        /\ \E p \in probes : Matches(list[n], p)
        /\ Places(list, list[n].id) = {n}

LEMMA NoDefects ==
    ASSUME NEW probes \in ProbeSet, NEW list \in Seq(Observation)
    PROVE  Defects(probes, list) = {} <=> AllCount(probes, list)
<1> DEFINE unexpected == {n \in DOMAIN list : list[n].id \notin {p.id : p \in probes}}
           twice == {p \in probes : Cardinality(Places(list, p.id)) > 1}
           other == {p \in probes : \E n \in DOMAIN list :
                        Places(list, p.id) = {n} /\ ~Matches(list[n], p)}
<1>1. Defects(probes, list) = {} <=> unexpected = {} /\ twice = {} /\ other = {}
  <2> DEFINE A == IF unexpected = {} THEN {} ELSE {<<"unexpected", Cardinality(unexpected)>>}
             B == {<<"duplicate", p.id>> : p \in twice}
             C == {<<"mismatch", p.id>> : p \in other}
  <2>1. Defects(probes, list) = A \cup B \cup C
    BY DEF Defects
  <2>2. A = {} <=> unexpected = {}
    OBVIOUS
  <2> HIDE DEF unexpected, twice, other
  <2>3. (B = {} <=> twice = {}) /\ (C = {} <=> other = {})
    OBVIOUS
  <2> HIDE DEF A, B, C
  <2> QED
    BY <2>1, <2>2, <2>3
<1>2. ASSUME unexpected = {}, twice = {}, other = {} PROVE AllCount(probes, list)
  <2> SUFFICES ASSUME NEW n \in DOMAIN list
               PROVE  /\ \E p \in probes : Matches(list[n], p)
                      /\ Places(list, list[n].id) = {n}
    BY DEF AllCount
  <2>1. PICK p \in probes : p.id = list[n].id
    BY <1>2
  <2>2. n \in Places(list, p.id)
    BY <2>1 DEF Places
  <2>3. ~(Cardinality(Places(list, p.id)) > 1)
    BY <1>2
  <2>4. Cardinality(Places(list, p.id)) = 1
    BY <2>2, <2>3, PlacesCount
  <2>5. Places(list, p.id) = {n}
    BY <2>2, <2>4, PlacesCount
  <2>6. Matches(list[n], p)
    BY <1>2, <2>5
  <2> QED
    BY <2>1, <2>5, <2>6
<1>3. ASSUME AllCount(probes, list) PROVE unexpected = {} /\ twice = {} /\ other = {}
  <2>1. unexpected = {}
    BY <1>3 DEF AllCount, Matches
  <2>2. ASSUME NEW p \in probes, Cardinality(Places(list, p.id)) > 1 PROVE FALSE
    <3>1. Places(list, p.id) # {}
      BY <2>2, PlacesCount
    <3>2. PICK n \in DOMAIN list : list[n].id = p.id
      BY <3>1 DEF Places
    <3>3. Cardinality(Places(list, p.id)) = 1
      BY <1>3, <3>2, PlacesCount DEF AllCount
    <3> QED
      BY <2>2, <3>3
  <2>3. ASSUME NEW p \in probes, NEW n \in DOMAIN list, Places(list, p.id) = {n}
        PROVE  Matches(list[n], p)
    <3>1. list[n].id = p.id
      BY <2>3 DEF Places
    <3>2. PICK q \in probes : Matches(list[n], q)
      BY <1>3 DEF AllCount
    <3> QED
      BY <3>1, <3>2, ProbeIdsAreUnique DEF Matches
  <2> QED
    BY <2>1, <2>2, <2>3
<1> QED
  BY <1>1, <1>2, <1>3

LEMMA AcceptedCounts ==
    ASSUME NEW probes, NEW list, NEW o \in Accepted(probes, list)
    PROVE  \E n \in DOMAIN list : /\ o = list[n] /\ Places(list, o.id) = {n}
                                  /\ \E p \in probes : Matches(o, p)
  BY DEF Accepted

LEMMA AcceptedIdsAreUnique ==
    ASSUME NEW probes, NEW list, NEW o \in Accepted(probes, list),
           NEW q \in Accepted(probes, list), o.id = q.id
    PROVE  o = q
<1>1. PICK n \in DOMAIN list : o = list[n] /\ Places(list, o.id) = {n}
  BY DEF Accepted
<1>2. PICK m \in DOMAIN list : q = list[m] /\ Places(list, q.id) = {m}
  BY DEF Accepted
<1> QED
  BY <1>1, <1>2

\* A required probe fails exactly when its only observation matches and fails.
LEMMA FailsAreValid ==
    ASSUME NEW probes \in ProbeSet, NEW list \in Seq(Observation)
    PROVE  ValidFails(probes, Accepted(probes, list)) # {} <=>
              \E p \in probes, n \in DOMAIN list :
                  /\ p.required /\ Matches(list[n], p) /\ list[n].verdict = "fail"
                  /\ Cardinality(Places(list, p.id)) = 1
<1>1. ASSUME NEW p \in probes, p.required, NEW o \in Accepted(probes, list),
             o.id = p.id, o.verdict = "fail"
      PROVE  \E n \in DOMAIN list :
                /\ Matches(list[n], p) /\ list[n].verdict = "fail"
                /\ Cardinality(Places(list, p.id)) = 1
  <2>1. PICK n \in DOMAIN list : /\ o = list[n] /\ Places(list, o.id) = {n}
                                 /\ \E q \in probes : Matches(o, q)
    BY AcceptedCounts
  <2>2. Matches(o, p)
    BY <1>1, <2>1, ProbeIdsAreUnique DEF Matches
  <2>3. Cardinality(Places(list, p.id)) = 1
    BY <1>1, <2>1, PlacesCount
  <2> QED
    BY <1>1, <2>1, <2>2, <2>3
<1>2. ASSUME NEW p \in probes, NEW n \in DOMAIN list, Matches(list[n], p),
             Cardinality(Places(list, p.id)) = 1
      PROVE  list[n] \in Accepted(probes, list) /\ list[n].id = p.id
  <2>1. list[n].id = p.id /\ n \in Places(list, p.id)
    BY <1>2 DEF Matches, Places
  <2>2. Places(list, p.id) = {n}
    BY <1>2, <2>1, PlacesCount
  <2> QED
    BY <1>2, <2>1, <2>2 DEF Accepted
<1> QED
  BY <1>1, <1>2 DEF ValidFails

-----------------------------------------------------------------------------
\* Every variable holds a value the code could put there, and the observations a
\* report lists have distinct ids.
THEOREM SemanticTypes == Spec => []TypeOK
<1>1. SInv => TypeOK
  <2> SUFFICES ASSUME SInv, report # <<>>
               PROVE  /\ report[1].coverage \in {"verified", "unknown", "failed"}
                      /\ report[1].observations \subseteq Range(received)
                      /\ \A o, q \in report[1].observations : o.id = q.id => o = q
    BY DEF SInv, TypeOK
  <2>1. /\ report[1].observations = Accepted(declared, received)
        /\ report[1].coverage \in {"verified", "unknown", "failed"}
    <3> DEFINE r == ReportOf(declared, received, diagnostics)
               fails == ValidFails(declared, Accepted(declared, received))
               causes == diagnostics \cup EvidenceLimitations(declared, received)
    <3>1. /\ report[1] = r /\ r.observations = Accepted(declared, received)
          /\ r.coverage = CoverageOf(fails, causes)
      BY DEF SInv, ReportOf
    <3> HIDE DEF r, fails, causes
    <3>2. CoverageOf(fails, causes) \in {"verified", "unknown", "failed"}
      BY DEF CoverageOf
    <3> QED
      BY <3>1, <3>2
  <2>2. Accepted(declared, received) \subseteq Range(received)
    BY DEF Accepted, Range
  <2> QED
    BY <2>1, <2>2, AcceptedIdsAreUnique
<1> QED
  BY SInvHolds, <1>1, PTL

\* `verified` means that every required probe got exactly one answer, under this
\* operation and this configuration, that passed, and that nothing else arrived or
\* went wrong, whatever the verifier did.
THEOREM VerifiedReportsAreComplete == Spec => []VerifiedIsCompleteEvidence
<1>1. SInv => VerifiedIsCompleteEvidence
  <2> SUFFICES ASSUME SInv, report # <<>>, report[1].coverage = "verified"
               PROVE  /\ diagnostics = {} /\ AllCount(declared, received)
                      /\ \A p \in declared : p.required =>
                            \E n \in DOMAIN received :
                                received[n].id = p.id /\ received[n].verdict = "pass"
    BY DEF VerifiedIsCompleteEvidence, AllCount
  <2> DEFINE accepted == Accepted(declared, received)
  <2>1. /\ declared \in ProbeSet /\ received \in Seq(Observation)
        /\ report[1] = ReportOf(declared, received, diagnostics)
    BY DEF SInv
  <2>2. /\ ValidFails(declared, accepted) = {} /\ diagnostics = {}
        /\ Defects(declared, received) = {} /\ Unanswered(declared, accepted) = {}
    BY <2>1 DEF ReportOf, CoverageOf, EvidenceLimitations
  <2>3. AllCount(declared, received)
    BY <2>1, <2>2, NoDefects
  <2>4. ASSUME NEW p \in declared, p.required
        PROVE  \E n \in DOMAIN received : received[n].id = p.id /\ received[n].verdict = "pass"
    <3>1. PICK o \in accepted : o.id = p.id
      <4> HIDE DEF accepted
      <4> QED
        BY <2>2, <2>4 DEF Unanswered
    <3>2. o.verdict \notin {"inconclusive", "error"}
      <4> HIDE DEF accepted
      <4> QED
        BY <2>2, <2>4, <3>1 DEF Unanswered
    <3>3. o.verdict # "fail"
      BY <2>2, <2>4, <3>1 DEF ValidFails
    <3>4. PICK n \in DOMAIN received : o = received[n]
      BY <3>1 DEF Accepted
    <3>5. o.verdict \in Verdict
      BY <2>1, <3>4, ProbeAssumption DEF IsObservation
    <3> QED
      BY <3>1, <3>2, <3>3, <3>4, <3>5 DEF Verdict
  <2> QED
    BY <2>2, <2>3, <2>4
<1> QED
  BY SInvHolds, <1>1, PTL

\* A valid failure of a required probe takes precedence over every limitation
\* that other answers cause, and nothing but such a failure is reported failed.
THEOREM FailuresAreReported == Spec => []FailureIsNotMasked
<1>1. SInv => FailureIsNotMasked
  <2> SUFFICES ASSUME SInv, report # <<>>
               PROVE  report[1].coverage = "failed" <=>
                        \E p \in declared, n \in DOMAIN received :
                            /\ p.required /\ Matches(received[n], p)
                            /\ received[n].verdict = "fail"
                            /\ Cardinality(Places(received, p.id)) = 1
    BY DEF FailureIsNotMasked
  <2>1. /\ declared \in ProbeSet /\ received \in Seq(Observation)
        /\ report[1] = ReportOf(declared, received, diagnostics)
    BY DEF SInv
  <2>2. report[1].coverage = "failed" <=>
           ValidFails(declared, Accepted(declared, received)) # {}
    BY <2>1 DEF ReportOf, CoverageOf
  <2> QED
    BY <2>1, <2>2, FailsAreValid
<1> QED
  BY SInvHolds, <1>1, PTL

-----------------------------------------------------------------------------
\* What the parser recomputes from the observations of a report.

LEMMA AcceptedIsFinite ==
    ASSUME NEW probes, NEW list \in Seq(Observation)
    PROVE  IsFiniteSet(Accepted(probes, list)) /\ Accepted(probes, list) \subseteq Observation
<1> DEFINE T == {n \in DOMAIN list : /\ \E p \in probes : Matches(list[n], p)
                                     /\ Places(list, list[n].id) = {n}}
           f == [n \in T |-> list[n]]
<1>1. Accepted(probes, list) = {list[n] : n \in T}
  BY DEF Accepted
<1>2. DOMAIN list = 1..Len(list) /\ Len(list) \in Nat /\ \A n \in DOMAIN list : list[n] \in Observation
  OBVIOUS
<1>3. IsFiniteSet(T)
  <2>1. IsFiniteSet(1..Len(list)) /\ T \in SUBSET (1..Len(list))
    BY <1>2, FS_Interval
  <2> QED
    BY <2>1, FS_Subset
<1>4. T \subseteq DOMAIN list
  OBVIOUS
<1> HIDE DEF T
<1>5. f \in Surjection(T, {list[n] : n \in T})
  BY DEF Surjection
<1> QED
  BY <1>1, <1>2, <1>3, <1>4, <1>5, FS_Surjection

LEMMA ListOfASet ==
    ASSUME NEW S, IsFiniteSet(S)
    PROVE  /\ SetToSeq(S) \in [1..Cardinality(S) -> S] /\ Cardinality(S) \in Nat
           /\ IsInjective(SetToSeq(S))
           /\ \A x \in S : \E n \in 1..Cardinality(S) : SetToSeq(S)[n] = x
<1> DEFINE N == Cardinality(S)
<1>1. N \in Nat /\ ExistsBijection(1..N, S)
  BY FS_CardinalityType
<1>2. \E f \in [1..N -> S] : IsInjective(f)
  BY <1>1 DEF ExistsBijection, Bijection, Injection, IsInjective
<1>3. SetToSeq(S) \in [1..N -> S] /\ IsInjective(SetToSeq(S))
  BY <1>2 DEF SetToSeq
<1>4. SetToSeq(S) \in Injection(1..N, S)
  BY <1>3 DEF Injection, IsInjective
<1>5. Cardinality(1..N) = N
  BY <1>1, FS_Interval
<1>6. SetToSeq(S) \in Surjection(1..N, S)
  BY <1>4, <1>5, FS_Injection
<1> QED
  BY <1>1, <1>3, <1>6 DEF Surjection

\* Read back, the accepted observations all count, and show what is unanswered.
LEMMA AcceptedShowTheUnanswered ==
    ASSUME NEW probes \in ProbeSet, NEW list \in Seq(Observation)
    PROVE  EvidenceLimitations(probes, SetToSeq(Accepted(probes, list)))
              = Unanswered(probes, Accepted(probes, list))
<1> DEFINE accepted == Accepted(probes, list)
           again == SetToSeq(accepted)
           N == Cardinality(accepted)
<1>1. IsFiniteSet(accepted) /\ accepted \subseteq Observation
  BY AcceptedIsFinite
<1>2. /\ again \in [1..N -> accepted] /\ N \in Nat /\ IsInjective(again)
      /\ \A o \in accepted : \E n \in 1..N : again[n] = o
  BY <1>1, ListOfASet
<1>3. \A o, q \in accepted : o.id = q.id => o = q
  BY AcceptedIdsAreUnique
<1>4. \A o \in accepted : \E p \in probes : Matches(o, p)
  BY AcceptedCounts
<1> HIDE DEF again, N, accepted
<1>5. again \in Seq(Observation) /\ DOMAIN again = 1..N
  BY <1>1, <1>2
<1>6. ASSUME NEW n \in 1..N
      PROVE  Places(again, again[n].id) = {n} /\ \E p \in probes : Matches(again[n], p)
  <2>1. \A m \in 1..N : again[m].id = again[n].id => m = n
    BY <1>2, <1>3, <1>5 DEF IsInjective
  <2> QED
    BY <1>2, <1>4, <1>5, <2>1 DEF Places
<1>7. Defects(probes, again) = {}
  BY <1>5, <1>6, NoDefects DEF AllCount
<1>8. Accepted(probes, again) = accepted
  <2>1. Accepted(probes, again) = {again[n] : n \in 1..N}
    BY <1>5, <1>6 DEF Accepted
  <2> QED
    BY <1>2, <2>1
<1> QED
  BY <1>7, <1>8 DEF EvidenceLimitations, again, accepted

LEMMA AllAreAccepted ==
    ASSUME NEW probes \in ProbeSet, NEW list \in Seq(Observation)
    PROVE  AllCount(probes, list) <=>
              /\ \A n \in DOMAIN list : list[n] \in Accepted(probes, list)
              /\ Cardinality(Accepted(probes, list)) = Len(list)
<1> DEFINE accepted == Accepted(probes, list)
<1>1. DOMAIN list = 1..Len(list) /\ Len(list) \in Nat
  OBVIOUS
<1>2. ASSUME AllCount(probes, list)
      PROVE  /\ \A n \in DOMAIN list : list[n] \in accepted
             /\ Cardinality(accepted) = Len(list)
  <2>1. \A n \in DOMAIN list : list[n] \in accepted
    BY <1>2 DEF AllCount, Accepted
  <2>2. \A m, n \in DOMAIN list : list[m] = list[n] => m = n
    BY <1>2 DEF AllCount
  <2>3. \A o \in accepted : \E n \in DOMAIN list : list[n] = o
    BY DEF Accepted
  <2> HIDE DEF accepted
  <2>4. list \in [1..Len(list) -> accepted]
    BY <1>1, <2>1
  <2>5. list \in Bijection(1..Len(list), accepted)
    BY <1>1, <2>2, <2>3, <2>4 DEF Bijection, Injection, Surjection, IsInjective
  <2>6. ExistsBijection(1..Len(list), accepted)
    BY <2>5 DEF ExistsBijection
  <2> QED
    BY <1>1, <2>1, <2>6, FS_CountingElements
<1>3. ASSUME NEW n \in DOMAIN list, list[n] \in accepted
      PROVE  /\ \E p \in probes : Matches(list[n], p)
             /\ Places(list, list[n].id) = {n}
  <2>1. PICK m \in DOMAIN list : /\ list[n] = list[m] /\ Places(list, list[n].id) = {m}
                                 /\ \E p \in probes : Matches(list[n], p)
    BY <1>3, AcceptedCounts
  <2>2. n \in Places(list, list[n].id)
    BY DEF Places
  <2> QED
    BY <2>1, <2>2
<1> QED
  BY <1>2, <1>3 DEF AllCount

\* A persisted report is read back exactly when its own observations explain it:
\* no cause outside of them, none of them left out.
THEOREM ParsedReportsExplainThemselves == Spec => []ParsedIsSelfContained
<1>1. SInv => ParsedIsSelfContained
  <2> SUFFICES ASSUME SInv, parsed # "unread"
               PROVE  parsed = "accepted" <=>
                        /\ diagnostics = {}
                        /\ \A n \in DOMAIN received : received[n] \in report[1].observations
                        /\ Cardinality(report[1].observations) = Len(received)
    BY DEF ParsedIsSelfContained
  <2> DEFINE accepted == Accepted(declared, received)
             open == Unanswered(declared, accepted)
             defects == Defects(declared, received)
             fails == ValidFails(declared, accepted)
  <2>1. /\ declared \in ProbeSet /\ received \in Seq(Observation)
        /\ report[1] = ReportOf(declared, received, diagnostics)
        /\ parsed = "accepted" <=> Explained(report[1])
        /\ \A d \in diagnostics : d[1] \in {"provider error", "malformed"}
    BY DEF SInv
  <2>2. /\ report[1].observations = accepted
        /\ report[1].limitations = diagnostics \cup (defects \cup open)
        /\ report[1].coverage = CoverageOf(fails, diagnostics \cup (defects \cup open))
    <3> DEFINE shown == EvidenceLimitations(declared, received)
    <3>1. shown = defects \cup open
      BY DEF EvidenceLimitations
    <3>2. /\ report[1].observations = accepted
          /\ report[1].limitations = diagnostics \cup shown
          /\ report[1].coverage = CoverageOf(fails, diagnostics \cup shown)
      <4> DEFINE r == ReportOf(declared, received, diagnostics)
      <4>1. /\ r.observations = accepted
            /\ r.limitations = diagnostics \cup shown
            /\ r.coverage = CoverageOf(fails, diagnostics \cup shown)
        BY DEF ReportOf
      <4> HIDE DEF shown, fails, accepted
      <4> QED
        BY <2>1, <4>1
    <3> HIDE DEF shown, defects, open, fails, accepted
    <3> QED
      BY <3>1, <3>2
  <2>3. ExpectedLimitations(report[1]) = open
    BY <2>1, <2>2, AcceptedShowTheUnanswered DEF ExpectedLimitations
  <2>4. Explained(report[1]) <=> diagnostics \cup (defects \cup open) = open
    <3> HIDE DEF accepted, open, defects, fails
    <3>1. fails = ValidFails(declared, accepted)
      BY DEF fails
    <3> QED
      BY <2>2, <2>3, <3>1 DEF Explained
  <2>5. \A d \in open : d[1] \in {"missing", "undecided"}
    <3> HIDE DEF accepted
    <3> QED
      BY DEF Unanswered
  <2>6. \A d \in defects : d[1] \in {"unexpected", "duplicate", "mismatch"}
    BY DEF Defects
  <2>7. diagnostics \cup (defects \cup open) = open <=> diagnostics = {} /\ defects = {}
    <3> HIDE DEF open, defects
    <3> QED
      BY <2>1, <2>5, <2>6
  <2>8. defects = {} <=> /\ \A n \in DOMAIN received : received[n] \in accepted
                         /\ Cardinality(accepted) = Len(received)
    BY <2>1, NoDefects, AllAreAccepted
  <2> QED
    BY <2>1, <2>2, <2>4, <2>7, <2>8
<1> QED
  BY SInvHolds, <1>1, PTL
===============================================================================
