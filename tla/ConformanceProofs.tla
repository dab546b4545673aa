-------------------------- MODULE ConformanceProofs --------------------------
(***************************************************************************)
(* Proofs about Conformance, for every corpus, set of bindings, helpers,   *)
(* conducts and number of edits:                                           *)
(*   1. the reference store without a defect meets every expectation of    *)
(*      the corpus, and no counter-result is an expectation;               *)
(*   2. an external report follows from the bytes it names: the invariant  *)
(*      of the run says that what was hashed is what is executed, that the *)
(*      helper cannot change between two cases, that two audits which      *)
(*      agree say what an undisturbed one says, and that every result      *)
(*      noted so far follows from these;                                   *)
(*   3. so no binding passes under the exact corpus that answers alike     *)
(*      with a defect it was told to have and without: none that is blind  *)
(*      to it and answers with what it sees.                               *)
(* That a run ends is a liveness property and stays with TLC.              *)
(***************************************************************************)
EXTENDS Conformance, FiniteSetTheorems, TLAPS

-----------------------------------------------------------------------------
\* The reference outcome of a case: what the corpus expects.

\* A set of two.
LEMMA TwoElements ==
    ASSUME NEW a, NEW b, a # b
    PROVE  Cardinality({a, b}) = 2
<1>1. {a, b} = {a} \cup {b} /\ b \notin {a}
  OBVIOUS
<1>2. IsFiniteSet({a}) /\ Cardinality({a}) = 1
  BY FS_Singleton
<1>3. Cardinality({a} \cup {b}) = Cardinality({a}) + 1
  BY <1>1, <1>2, FS_AddElement
<1> QED
  BY <1>1, <1>2, <1>3

\* A store without a defect counts no proposition more often than before.
LEMMA NothingIncreased ==
    ASSUME NEW c \in Case
    PROVE  Multiplicity(Counts(Records(c)), Counts(Active(c, "none"))) = "known"
<1> DEFINE fact(p)  == [id |-> p, text |-> {p}]
           before   == Records(c)
           after    == Active(c, "none")
           mixed    == [id |-> "summary", text |-> {"diet", "quiet", "budget"}]
           rest     == [id |-> "summary", text |-> Replacement(c) \cup Preserved]
<1>1. ASSUME NEW p \in Preserved
      PROVE  /\ {r \in before : p \in r.text} = {fact(p), mixed}
             /\ {r \in after : p \in r.text} = {fact(p), rest}
  <2>1. {r \in before : p \in r.text} = {fact(p), mixed}
    BY <1>1 DEF Records, Preserved
  <2>2. {r \in after : p \in r.text} = {fact(p), rest}
    BY <1>1 DEF Records, Active, Affected, Preserved, Replacement
  <2> QED
    BY <2>1, <2>2
<1>2. \A p \in Preserved : fact(p) # mixed /\ fact(p) # rest
  BY DEF Preserved
<1>3. {r \in before : Unrelated \in r.text} = {r \in after : Unrelated \in r.text}
  BY DEF Records, Active, Affected, Preserved, Replacement, Unrelated
<1>4. ASSUME NEW p \in Preserved PROVE Counts(before)[p] = 2 /\ Counts(after)[p] = 2
  <2>1. Cardinality({fact(p), mixed}) = 2 /\ Cardinality({fact(p), rest}) = 2
    <3> HIDE DEF fact, mixed, rest
    <3> QED
      BY <1>2, TwoElements
  <2> HIDE DEF before, after, fact, mixed, rest
  <2> QED
    BY <1>1, <2>1 DEF Counts
<1>5. Counts(before)[Unrelated] = Counts(after)[Unrelated]
  <2> HIDE DEF before, after, fact, mixed, rest
  <2> QED
    BY <1>3 DEF Counts
<1>6. Counts(before)[Unrelated] = 1
  <2>1. {r \in before : Unrelated \in r.text} = {fact("pet")}
    BY DEF Records, Unrelated
  <2> HIDE DEF before, after, fact, mixed, rest
  <2> QED
    BY <2>1, FS_Singleton DEF Counts
<1>7. DOMAIN Counts(before) = Preserved \cup {Unrelated}
  BY DEF Counts
<1> HIDE DEF before, after, fact, mixed, rest
<1> QED
  BY <1>4, <1>5, <1>6, <1>7 DEF Multiplicity, before, after

\* It recalls what it was told to keep and the replacement, and not the diet.
LEMMA WhatIsRecalled ==
    ASSUME NEW c \in Case
    PROVE  /\ ~Recalls(c, "none", "diet")
           /\ c # "empty-receipt" => Recalls(c, "none", "meat")
           /\ \A p \in Preserved \cup {Unrelated} : Recalls(c, "none", p)
<1> DEFINE rest == [id |-> "summary", text |-> Replacement(c) \cup Preserved]
<1>1. rest \in Active(c, "none")
  BY DEF Active
<1>2. \A r \in Active(c, "none") : "diet" \notin r.text
  BY DEF Active, Records, Affected, Replacement, Preserved
<1>3. [id |-> "pet", text |-> {"pet"}] \in Active(c, "none")
  BY DEF Active, Records, Affected
<1>4. c # "empty-receipt" => "meat" \in rest.text
  BY DEF Replacement, Operation
<1>5. \A p \in Preserved : p \in rest.text
  OBVIOUS
<1> HIDE DEF rest
<1> QED
  BY <1>1, <1>2, <1>3, <1>4, <1>5 DEF Recalls, Unrelated

\* Its triad passes every leg the case has.
LEMMA TriadOfReference ==
    ASSUME NEW c \in Case
    PROVE  /\ Triad(c, "none") = Legs(c, {})
           /\ [Triad(c, "none") EXCEPT !["preserve"] = @ /\ TRUE] = Legs(c, {})
           /\ FALSE \notin Range(Legs(c, {}))
<1> DEFINE legs == {"negative", "preserve"} \cup
                     (IF Operation(c) = "erase" THEN {} ELSE {"positive"})
           all  == [leg \in legs |-> TRUE]
<1>1. /\ ~Recalls(c, "none", "diet")
      /\ Operation(c) # "erase" => Recalls(c, "none", "meat")
      /\ \A p \in Preserved \cup {Unrelated} : Recalls(c, "none", p)
  BY WhatIsRecalled DEF Operation
<1>2. Triad(c, "none") = all
  BY <1>1 DEF Triad
<1>3. Legs(c, {}) = all
  BY DEF Legs
<1>4. FALSE \notin Range(all)
  BY DEF Range
<1>5. [all EXCEPT !["preserve"] = @ /\ TRUE] = all
  OBVIOUS
<1> HIDE DEF all
<1>6. [Triad(c, "none") EXCEPT !["preserve"] = @ /\ TRUE] = Legs(c, {})
  BY <1>2, <1>3, <1>5
<1> QED
  BY <1>2, <1>3, <1>4, <1>6

\* Its coverage is the expected one, at the gate and after the repair.
LEMMA CoverageOfReference ==
    ASSUME NEW c \in Case
    PROVE  LET coverage == IF c = "constant-lineage-complete" THEN "unknown" ELSE "verified"
           IN  /\ Audit(c, "none", "nothing").coverage = coverage
               /\ FinalCoverage(c, "none") = coverage
               /\ ConservativeCoverage(coverage, coverage) = coverage
  BY DEF Audit, FinalCoverage, HidesCoverage, LineageComplete, Undeclared, QuarantineCoverage,
         CheckpointCoverage, DispositionCoverage, ConservativeCoverage, Affected, Retired, Rebuilt

\* A store of one coverage all of whose probes pass is reported with it.
LEMMA AggregateOfOne ==
    ASSUME NEW triad, FALSE \notin Range(triad), NEW v \in {"unknown", "verified"}
    PROVE  AggregateCoverage([s \in {"store"} |-> v], triad) = v
<1>1. Range([s \in {"store"} |-> v]) = {v}
  BY DEF Range
<1> QED
  BY <1>1 DEF AggregateCoverage

\* The reference store without a defect does what the corpus expects.
LEMMA ReferenceMeetsExpectation ==
    ASSUME NEW c \in Case
    PROVE  Outcome(c, "none", "nothing") = Expected(c)
<1> DEFINE coverage == IF c = "constant-lineage-complete" THEN "unknown" ELSE "verified"
           cp == Audit(c, "none", "nothing").coverage
           stores == [s \in {"store"} |-> ConservativeCoverage(cp, FinalCoverage(c, "none"))]
           multiplicity == Multiplicity(Counts(Records(c)), Counts(Active(c, "none")))
           triad == [Triad(c, "none") EXCEPT !["preserve"] = @ /\ multiplicity # "increased"]
<1>1. cp = coverage /\ stores = [s \in {"store"} |-> coverage]
  BY CoverageOfReference
<1>2. multiplicity = "known"
  BY NothingIncreased
<1>3. triad = Legs(c, {}) /\ FALSE \notin Range(triad)
  <2>1. (multiplicity # "increased") = TRUE
    BY <1>2
  <2> HIDE DEF multiplicity
  <2> QED
    BY <2>1, TriadOfReference
<1>4. AggregateCoverage(stores, Triad(c, "none")) = coverage
  BY <1>1, TriadOfReference, AggregateOfOne
<1>5. /\ (~Recalls(c, "none", "diet")) = TRUE
      /\ (\A p \in Preserved : Recalls(c, "none", p)) = TRUE
      /\ Recalls(c, "none", Unrelated) = TRUE
  BY WhatIsRecalled DEF Recalls
<1>6. OfErasure(c, ~Recalls(c, "none", "diet")) = OfErasure(c, TRUE)
  BY <1>5 DEF OfErasure
<1> HIDE DEF coverage, cp, stores, multiplicity, triad
<1>7. Outcome(c, "none", "nothing") =
        [checkpoint |-> cp, aggregate |-> coverage, triad |-> triad,
         multiplicity |-> multiplicity,
         erased_absent |-> OfErasure(c, TRUE),
         preserved_present |-> TRUE, unrelated_present |-> TRUE,
         names_store |-> TRUE, non_trivial |-> TRUE,
         forbidden_absent |-> OfErasure(c, TRUE)]
  BY <1>3, <1>4, <1>5, <1>6 DEF Outcome, cp, stores, multiplicity, triad
<1> QED
  BY <1>1, <1>2, <1>3, <1>7 DEF Expected, coverage

\* Every counter-result differs from the expectation it belongs to.
LEMMA CounterResultsDiffer ==
    ASSUME NEW c \in Case
    PROVE  ExactCounterResult(c) # Expected(c)
<1>1. CASE c = "constant-lineage-complete"
  BY <1>1 DEF ExactCounterResult, Expected
<1>2. CASE c = "constant-unknown-coverage"
  BY <1>2 DEF ExactCounterResult, Expected
<1>3. CASE c \in {"duplicate-preserved-inputs", "empty-receipt", "retire-entire-store"}
  BY <1>3 DEF ExactCounterResult, Expected
<1> QED
  BY <1>1, <1>2, <1>3 DEF Case

\* An answer depends on what the audit lost through the coverage it left.
LEMMA SameAuditSameAnswer ==
    ASSUME NEW corpus, NEW conduct, NEW c, NEW mode, NEW lost, NEW other,
           Audit(c, Defect(conduct, c, mode), lost)
              = Audit(c, Defect(conduct, c, mode), other)
    PROVE  Answer(corpus, conduct, c, mode, lost) = Answer(corpus, conduct, c, mode, other)
<1>1. Outcome(c, Defect(conduct, c, mode), lost) = Outcome(c, Defect(conduct, c, mode), other)
  BY DEF Outcome
<1> QED
  BY <1>1 DEF Answer, Defect

-----------------------------------------------------------------------------
\* The invariant of a run.

RunFields ==
    {"pc", "external", "tracked", "commit", "corpus", "binding", "hashed", "helper",
     "alarm", "mutate", "lost", "plain", "results", "controls"}

Result ==
    [case : Case, expectation_met : BOOLEAN,
     positive_control_passed : BOOLEAN, mutation_control_passed : BOOLEAN]

BeforeBinding == {"idle", "list", "identify", "read"}
BeforeCases   == BeforeBinding \cup {"import", "runtime", "corpus", "construct", "name"}
InCase        == {"gate", "recheck", "repair"}
AfterCases    == {"controls", "report"}

\* The checkouts and the memory have their fields, and a run counts its cases.
FilesOK ==
    /\ DOMAIN work = Repository /\ DOMAIN head = Repository
    /\ \A r \in Repository : /\ DOMAIN work[r] = Files(r)
                             /\ DOMAIN head[r] = {"commit", "tree"}
                             /\ DOMAIN head[r].tree = Files(r)

MemoryOK ==
    /\ DOMAIN run = RunFields
    /\ run.pc \in BeforeCases \cup InCase \cup AfterCases \cup {"done"}
    /\ run.external \in BOOLEAN /\ run.mutate \in BOOLEAN
    /\ run.results \in Seq(Result) /\ Len(run.results) <= Len(CaseOrder)
    /\ run.pc \in BeforeCases => run.results = <<>> /\ ~run.mutate
    /\ run.pc \in InCase => Len(run.results) < Len(CaseOrder)
    /\ run.pc \in AfterCases => Len(run.results) = Len(CaseOrder)
    /\ report # None => run.pc = "done"

\* What the binding answers when no alarm disturbs an audit.
Says(corpus, conduct, case, mode) == Answer(corpus, conduct, case, mode, Loses(conduct))

ResultFrom(corpus, conduct, n) ==
    CaseResult(corpus, conduct, CaseOrder[n],
               Says(corpus, conduct, CaseOrder[n], "plain"),
               Says(corpus, conduct, CaseOrder[n], "mutated"))

\* An external run has hashed what it executes.
HashedIsExecuted ==
    run.external /\ run.pc \notin BeforeBinding \cup {"done"} => run.hashed = run.binding

\* The first case has imported all that a case imports.
HelperIsSettled ==
    \/ run.pc \in BeforeCases \cup {"done"}
    \/ run.pc = "gate" /\ ~run.mutate /\ run.results = <<>>
    \/ ~(run.external /\ run.helper = None /\ ImportsHelper[run.binding] = "in a case")

\* What was noted so far follows from the corpus, the binding and the helper.
ResultsFollow ==
    /\ \A n \in 1..Len(run.results) : run.results[n] = ResultFrom(run.corpus, Behaviour, n)
    /\ run.mutate => run.plain = Says(run.corpus, Behaviour, CaseNow, "plain")

\* The first audit of a gate came out as AuditEnds says; once the second agrees,
\* the two say what an undisturbed audit says.
AuditsAgree ==
    /\ run.pc = "recheck" =>
          \/ run.lost = Loses(Behaviour)
          \/ Behaviour.trouble["audit"] \in {"slow", "hang"} /\ run.alarm = "spent"
    /\ run.pc = "repair" =>
          Audit(CaseNow, DefectNow, run.lost) = Audit(CaseNow, DefectNow, Loses(Behaviour))

RunInv == HashedIsExecuted /\ HelperIsSettled /\ ResultsFollow /\ AuditsAgree

IInv == TypeOK /\ FilesOK /\ MemoryOK /\ RunInv /\ ReportFollowsFromItsEvidence

-----------------------------------------------------------------------------
\* How a step moves the memory.

\* The checkouts move.
LEMMA OutsideStep ==
    ASSUME IInv, run' = run, exit' = exit, report' = report,
           FilesOK', \A r \in Repository : \A f \in Files(r) :
              work'[r][f] \in Versions(f) /\ head'[r].tree[f] \in Versions(f)
    PROVE  IInv'
<1>1. TypeOK'
  BY DEF IInv, TypeOK
<1>2. MemoryOK' /\ HashedIsExecuted' /\ HelperIsSettled'
  BY DEF IInv, MemoryOK, RunInv, HashedIsExecuted, HelperIsSettled
<1>3. ResultsFollow' /\ AuditsAgree'
  BY DEF IInv, RunInv, ResultsFollow, AuditsAgree, Behaviour, CaseNow, DefectNow, ModeNow
<1>4. ReportFollowsFromItsEvidence'
  BY DEF IInv, ReportFollowsFromItsEvidence
<1> QED
  BY <1>1, <1>2, <1>3, <1>4 DEF IInv, RunInv

\* The run ends without a report.
LEMMA EndStep ==
    ASSUME IInv, NEW code \in 0..2, run.pc # "done", End(code), UNCHANGED report
    PROVE  IInv'
<1>1. /\ work' = work /\ head' = head /\ exit' = code /\ report = None /\ report' = None
      /\ run'.pc = "done" /\ DOMAIN run' = DOMAIN run
      /\ run'.external = run.external /\ run'.binding = run.binding
      /\ run'.hashed = run.hashed /\ run'.helper = run.helper /\ run'.corpus = run.corpus
      /\ run'.mutate = run.mutate /\ run'.plain = run.plain
      /\ run'.results = run.results /\ run'.alarm = run.alarm
  BY DEF End, IInv, MemoryOK, RunFields
<1>2. TypeOK'
  <2>0. code \in {0, 1, 2}
    OBVIOUS
  <2>1. code # None
    BY ConformanceAssumption
  <2>2. exit' \in {None, 0, 1, 2} /\ (exit' # None <=> run'.pc = "done")
    BY <1>1, <2>0, <2>1
  <2>3. \A r \in Repository : \A f \in Files(r) :
           work'[r][f] \in Versions(f) /\ head'[r].tree[f] \in Versions(f)
    BY <1>1 DEF IInv, TypeOK
  <2>4. run'.alarm \in {"off", "armed", "spent"} /\ Len(run'.results) <= Len(CaseOrder)
    BY <1>1 DEF IInv, TypeOK
  <2> QED
    BY <1>1, <2>2, <2>3, <2>4 DEF TypeOK
<1>3. FilesOK' /\ MemoryOK'
  BY <1>1 DEF IInv, FilesOK, MemoryOK, BeforeCases, BeforeBinding, InCase, AfterCases
<1>4. HashedIsExecuted' /\ HelperIsSettled'
  BY <1>1 DEF IInv, RunInv, HashedIsExecuted, HelperIsSettled
<1>5. ResultsFollow' /\ AuditsAgree'
  BY <1>1 DEF IInv, RunInv, ResultsFollow, AuditsAgree, Behaviour, CaseNow
<1>6. ReportFollowsFromItsEvidence'
  BY <1>1 DEF ReportFollowsFromItsEvidence
<1> QED
  BY <1>2, <1>3, <1>4, <1>5, <1>6 DEF IInv, RunInv

\* The run goes on before its first case: nothing is noted yet.
LEMMA EarlyStep ==
    ASSUME IInv, run.pc \in BeforeCases,
           DOMAIN run' = RunFields, run'.pc \in BeforeCases \cup {"gate"},
           run'.external \in BOOLEAN, run'.alarm \in {"off", "armed", "spent"},
           run'.mutate = run.mutate, run'.results = run.results,
           run'.external /\ run'.pc \notin BeforeBinding => run'.hashed = run'.binding,
           UNCHANGED <<work, head, exit, report>>
    PROVE  IInv'
<1>1. run.results = <<>> /\ ~run.mutate /\ run.pc # "done" /\ exit = None /\ report = None
  BY DEF IInv, TypeOK, MemoryOK, BeforeCases, BeforeBinding
<1>2. run'.pc # "done" /\ run'.pc \notin {"recheck", "repair", "controls", "report"}
  BY DEF BeforeCases, BeforeBinding
<1>3. TypeOK' /\ FilesOK' /\ MemoryOK'
  BY <1>1, <1>2
    DEF IInv, TypeOK, FilesOK, MemoryOK, BeforeCases, BeforeBinding, InCase, AfterCases, CaseOrder
<1>4. HashedIsExecuted' /\ HelperIsSettled'
  BY <1>1, <1>2 DEF HashedIsExecuted, HelperIsSettled
<1>5. ResultsFollow' /\ AuditsAgree'
  BY <1>1, <1>2 DEF ResultsFollow, AuditsAgree
<1>6. ReportFollowsFromItsEvidence'
  BY <1>1 DEF ReportFollowsFromItsEvidence
<1> QED
  BY <1>3, <1>4, <1>5, <1>6 DEF IInv, RunInv

\* The run goes on in a case, noting nothing: its evidence stays what it is.
LEMMA CaseStep ==
    ASSUME IInv, run.pc \in InCase,
           DOMAIN run' = RunFields, run'.pc \in InCase,
           run'.external = run.external, run'.alarm \in {"off", "armed", "spent"},
           run'.mutate = run.mutate, run'.plain = run.plain, run'.results = run.results,
           run'.corpus = run.corpus, run'.binding = run.binding, run'.hashed = run.hashed,
           run'.helper = run.helper, HelperIsSettled', AuditsAgree',
           UNCHANGED <<work, head, exit, report>>
    PROVE  IInv'
<1>1. run.pc \notin BeforeCases \cup AfterCases \cup {"done"} /\ exit = None /\ report = None
  BY DEF IInv, TypeOK, MemoryOK, BeforeCases, BeforeBinding, InCase, AfterCases
<1>2. run'.pc \notin BeforeCases \cup AfterCases \cup {"done"}
  BY DEF BeforeCases, BeforeBinding, InCase, AfterCases
<1>3. TypeOK' /\ FilesOK' /\ MemoryOK'
  BY <1>1, <1>2 DEF IInv, TypeOK, FilesOK, MemoryOK
<1>4. HashedIsExecuted'
  BY <1>1 DEF IInv, RunInv, HashedIsExecuted, BeforeCases
<1>5. ResultsFollow'
  <2>1. Behaviour' = Behaviour /\ CaseNow' = CaseNow
    BY DEF Behaviour, CaseNow
  <2> QED
    BY <2>1 DEF IInv, RunInv, ResultsFollow
<1>6. ReportFollowsFromItsEvidence'
  BY <1>1 DEF ReportFollowsFromItsEvidence
<1> QED
  BY <1>3, <1>4, <1>5, <1>6 DEF IInv, RunInv

\* The memory of a run that enters a phase, field by field.
LEMMA EnterFields ==
    ASSUME NEW pc, NEW memory, DOMAIN memory = RunFields
    PROVE  LET next == Enter(pc, memory)
           IN  /\ DOMAIN next = RunFields /\ next.pc = pc
               /\ next.alarm \in {"off", "armed"}
               /\ \A f \in RunFields \ {"pc", "alarm"} : next[f] = memory[f]
  BY DEF Enter, RunFields

\* The command line: the reference binding is what this process started with.
LEMMA StartStep == ASSUME IInv, NEW external \in BOOLEAN, Start(external) PROVE IInv'
<1>1. /\ run.pc = "idle" /\ DOMAIN run' = RunFields
      /\ run'.pc \in {"list", "runtime"} /\ run'.external \in BOOLEAN
      /\ run'.external => run'.pc = "list"
      /\ run'.alarm = run.alarm /\ run'.mutate = run.mutate /\ run'.results = run.results
      /\ UNCHANGED <<work, head, exit, report>>
  BY DEF Start, IInv, MemoryOK, RunFields
<1>2. run.alarm \in {"off", "armed", "spent"}
  BY DEF IInv, TypeOK
<1> QED
  BY <1>1, <1>2, EarlyStep DEF BeforeCases, BeforeBinding

\* The next phase of a run before its cases.
LEMMA AfterIsEarly ==
    ASSUME IInv, run.pc \in BeforeCases \ {"idle"}
    PROVE  /\ After(run.pc) \in BeforeCases \cup {"gate"}
           /\ run.external /\ After(run.pc) \notin BeforeBinding
                => run.pc = "read" \/ run.pc \notin BeforeBinding
  BY DEF After, BeforeCases, BeforeBinding

\* What Proceed keeps.
LEMMA ProceedStep ==
    ASSUME IInv, run.pc \in BeforeCases \ {"idle"}, NEW memory, Proceed(memory),
           DOMAIN memory = RunFields, memory.external = run.external,
           memory.mutate = run.mutate, memory.results = run.results,
           run.external /\ (run.pc = "read" \/ run.pc \notin BeforeBinding)
              => memory.hashed = memory.binding
    PROVE  IInv'
<1>1. /\ DOMAIN run' = RunFields /\ run'.pc = After(run.pc) /\ run'.alarm \in {"off", "armed"}
      /\ run'.external = run.external /\ run'.mutate = run.mutate
      /\ run'.results = run.results /\ run'.hashed = memory.hashed /\ run'.binding = memory.binding
      /\ UNCHANGED <<work, head, exit, report>>
  BY EnterFields DEF Proceed, RunFields
<1>2. run.external \in BOOLEAN
  BY DEF IInv, MemoryOK
<1> QED
  BY <1>1, <1>2, EarlyStep, AfterIsEarly

\* A refusal ends the run.
LEMMA RefuseStep == ASSUME IInv, run.pc # "done", Refuse PROVE IInv'
  BY EndStep DEF Refuse

\* Admission, identities, corpus, construction and name of the binding.
LEMMA PreparationStep ==
    ASSUME IInv,
           \/ ListTracked \/ Identify \/ ReadBinding
           \/ RuntimeIdentity \/ LoadCorpus \/ CallReturns
    PROVE  IInv'
<1>0. DOMAIN run = RunFields /\ (run.external /\ run.pc \notin BeforeBinding \cup {"done"} => run.hashed = run.binding)
  BY DEF IInv, MemoryOK, RunInv, HashedIsExecuted
<1>1. CASE ListTracked
  <2> DEFINE memory == [run EXCEPT !.tracked =
                          {f \in Files("candidate") : head["candidate"].tree[f] # None}]
  <2>1. DOMAIN memory = RunFields /\ \A f \in RunFields \ {"tracked"} : memory[f] = run[f]
    BY <1>0
  <2>2. run.pc = "list" /\ Proceed(memory)
    BY <1>1 DEF ListTracked
  <2> HIDE DEF memory
  <2> QED
    BY <1>0, <2>1, <2>2, ProceedStep DEF RunFields, BeforeCases, BeforeBinding
<1>2. CASE Identify
  <2> DEFINE memory == [run EXCEPT !.commit = head[BindingRepository].commit]
  <2>1. DOMAIN memory = RunFields /\ \A f \in RunFields \ {"commit"} : memory[f] = run[f]
    BY <1>0
  <2>2. run.pc = "identify" /\ (Proceed(memory) \/ Refuse)
    BY <1>2 DEF Identify
  <2> HIDE DEF memory
  <2> QED
    BY <1>0, <2>1, <2>2, ProceedStep, RefuseStep DEF RunFields, BeforeCases, BeforeBinding
<1>3. CASE ReadBinding
  <2> DEFINE payload == work[BindingRepository]["binding"]
             memory == [run EXCEPT !.hashed = payload,
                                   !.binding = IF run.external THEN payload ELSE @]
  <2>1. /\ DOMAIN memory = RunFields
        /\ \A f \in RunFields \ {"hashed", "binding"} : memory[f] = run[f]
        /\ run.external => memory.hashed = memory.binding
    BY <1>0 DEF RunFields
  <2>2. run.pc = "read" /\ Proceed(memory)
    BY <1>3 DEF ReadBinding
  <2> HIDE DEF memory
  <2> QED
    BY <1>0, <2>1, <2>2, ProceedStep DEF RunFields, BeforeCases, BeforeBinding
<1>4. CASE LoadCorpus
  <2> DEFINE memory == [run EXCEPT !.corpus = work["runtime"]["corpus"]]
  <2>1. DOMAIN memory = RunFields /\ \A f \in RunFields \ {"corpus"} : memory[f] = run[f]
    BY <1>0
  <2>2. run.pc = "corpus" /\ (Proceed(memory) \/ Refuse)
    BY <1>4 DEF LoadCorpus
  <2> HIDE DEF memory
  <2> QED
    BY <1>0, <2>1, <2>2, ProceedStep, RefuseStep DEF RunFields, BeforeCases, BeforeBinding
<1>5. CASE RuntimeIdentity
  <2>1. run.pc = "runtime" /\ (Proceed(run) \/ Refuse)
    BY <1>5 DEF RuntimeIdentity
  <2> QED
    BY <1>0, <2>1, ProceedStep, RefuseStep DEF BeforeCases, BeforeBinding
<1>6. CASE CallReturns
  <2>1. run.pc \in {"import", "construct", "name"} /\ Proceed(run)
    BY <1>6 DEF CallReturns
  <2> QED
    BY <1>0, <2>1, ProceedStep DEF BeforeCases, BeforeBinding
<1> QED
  BY <1>1, <1>2, <1>3, <1>4, <1>5, <1>6

\* A helper is imported before the first case, or first thing in it.
LEMMA LoadHelperStep == ASSUME IInv, LoadHelper PROVE IInv'
<1>1. run.pc \in {"import", "gate"} /\ run.external /\ run.helper = None
  BY DEF LoadHelper, NeedsHelper
<1>2. CASE Refuse
  BY <1>1, <1>2, RefuseStep
<1>3. CASE ~Refuse
  <2> DEFINE next == work["candidate"]["helper"]
  <2>1. /\ run' = [run EXCEPT !.helper = next] /\ next # None
        /\ UNCHANGED <<work, head, exit, report>>
    BY <1>3 DEF LoadHelper
  <2>2. /\ DOMAIN run' = RunFields /\ run'.helper = next
        /\ \A f \in RunFields \ {"helper"} : run'[f] = run[f]
    BY <2>1 DEF IInv, MemoryOK, RunFields
  <2> HIDE DEF next
  <2>3. /\ run'.pc = run.pc /\ run'.external = run.external /\ run'.alarm = run.alarm
        /\ run'.mutate = run.mutate /\ run'.plain = run.plain
        /\ run'.results = run.results /\ run'.corpus = run.corpus
        /\ run'.binding = run.binding /\ run'.hashed = run.hashed
    BY <2>2 DEF RunFields
  <2>4. run.alarm \in {"off", "armed", "spent"} /\ run.external \in BOOLEAN
    BY DEF IInv, TypeOK, MemoryOK
  <2>5. CASE run.pc = "import"
    <3>1. run.external => run.hashed = run.binding
      BY <2>5 DEF IInv, RunInv, HashedIsExecuted, BeforeBinding
    <3> QED
      BY <2>1, <2>2, <2>3, <2>4, <2>5, <3>1, EarlyStep DEF BeforeCases, BeforeBinding
  <2>6. CASE run.pc = "gate"
    <3>1. HelperIsSettled'
      BY <2>1, <2>2, <2>3 DEF HelperIsSettled
    <3>2. run.results = <<>> /\ ~run.mutate
      <4>1. ImportsHelper[run.binding] = "in a case"
        BY <2>6 DEF LoadHelper, NeedsHelper
      <4> QED
        BY <1>1, <2>6, <4>1
          DEF IInv, RunInv, HelperIsSettled, BeforeCases, BeforeBinding
    <3>3. TypeOK' /\ FilesOK' /\ MemoryOK'
      BY <2>1, <2>2, <2>3 DEF IInv, TypeOK, FilesOK, MemoryOK
    <3>4. HashedIsExecuted'
      BY <2>3 DEF IInv, RunInv, HashedIsExecuted
    <3>5. ResultsFollow' /\ AuditsAgree'
      BY <2>3, <2>6, <3>2 DEF ResultsFollow, AuditsAgree
    <3>6. ReportFollowsFromItsEvidence'
      BY <2>1 DEF IInv, ReportFollowsFromItsEvidence
    <3> QED
      BY <3>1, <3>3, <3>4, <3>5, <3>6 DEF IInv, RunInv
  <2> QED
    BY <1>1, <2>5, <2>6
<1> QED
  BY <1>2, <1>3

\* The first audit of a gate: an undisturbed one, or the alarm is spent in it.
LEMMA GateStep ==
    ASSUME IInv, NEW lost, NEW alarm \in {"armed", "spent"}, Gate(lost, alarm)
    PROVE  IInv'
<1>1. /\ run.pc = "gate" /\ ~NeedsHelper /\ AuditEnds(lost, alarm)
      /\ run' = [run EXCEPT !.pc = "recheck", !.lost = lost, !.alarm = alarm]
      /\ UNCHANGED <<work, head, exit, report>>
  BY DEF Gate
<1>2. /\ DOMAIN run' = RunFields
      /\ run'.pc = "recheck" /\ run'.lost = lost /\ run'.alarm = alarm
      /\ \A f \in RunFields \ {"pc", "lost", "alarm"} : run'[f] = run[f]
  BY <1>1 DEF IInv, MemoryOK, RunFields
<1>3. /\ run'.external = run.external /\ run'.mutate = run.mutate /\ run'.plain = run.plain
      /\ run'.results = run.results /\ run'.corpus = run.corpus
      /\ run'.binding = run.binding /\ run'.hashed = run.hashed /\ run'.helper = run.helper
  BY <1>2 DEF RunFields
<1>4. HelperIsSettled'
  BY <1>1, <1>3 DEF NeedsHelper, HelperIsSettled
<1>5. AuditsAgree'
  <2>1. \/ lost = Loses(Behaviour)
        \/ Behaviour.trouble["audit"] \in {"slow", "hang"} /\ alarm = "spent"
    BY <1>1 DEF AuditEnds, TroubleHere, PointOf, Loses
  <2>2. Behaviour' = Behaviour
    BY <1>3 DEF Behaviour
  <2> QED
    BY <1>2, <2>1, <2>2 DEF AuditsAgree
<1> QED
  BY <1>1, <1>2, <1>3, <1>4, <1>5, CaseStep DEF InCase

\* The second audit: the alarm goes off once, so one of the two is undisturbed,
\* and they agree.
LEMMA RecheckStep ==
    ASSUME IInv, NEW lost, NEW alarm \in {"armed", "spent"}, Recheck(lost, alarm)
    PROVE  IInv'
<1>1. run.pc = "recheck" /\ AuditEnds(lost, alarm)
  BY DEF Recheck
<1>2. CASE Refuse
  BY <1>1, <1>2, RefuseStep
<1>3. CASE ~Refuse
  <2>1. /\ Audit(CaseNow, DefectNow, run.lost) = Audit(CaseNow, DefectNow, lost)
        /\ run' = [run EXCEPT !.pc = "repair", !.alarm = alarm]
        /\ UNCHANGED <<work, head, exit, report>>
    BY <1>3 DEF Recheck, SameAudit
  <2>2. /\ DOMAIN run' = RunFields
        /\ run'.pc = "repair" /\ run'.alarm = alarm
        /\ \A f \in RunFields \ {"pc", "alarm"} : run'[f] = run[f]
    BY <2>1 DEF IInv, MemoryOK, RunFields
  <2>3. /\ run'.external = run.external /\ run'.mutate = run.mutate /\ run'.plain = run.plain
        /\ run'.results = run.results /\ run'.corpus = run.corpus /\ run'.lost = run.lost
        /\ run'.binding = run.binding /\ run'.hashed = run.hashed /\ run'.helper = run.helper
    BY <2>2 DEF RunFields
  <2>4. HelperIsSettled'
    BY <1>1, <2>3 DEF IInv, RunInv, HelperIsSettled, BeforeCases, BeforeBinding
  <2>5. Audit(CaseNow, DefectNow, run.lost) = Audit(CaseNow, DefectNow, Loses(Behaviour))
    <3>1. \/ run.lost = Loses(Behaviour)
          \/ Behaviour.trouble["audit"] \in {"slow", "hang"} /\ run.alarm = "spent"
      BY <1>1 DEF IInv, RunInv, AuditsAgree
    <3>2. run.lost = Loses(Behaviour) \/ lost = Loses(Behaviour)
      BY <1>1, <3>1 DEF AuditEnds, TroubleHere, PointOf, Loses
    <3> QED
      BY <2>1, <3>2
  <2>6. AuditsAgree'
    <3>1. Behaviour' = Behaviour /\ CaseNow' = CaseNow /\ DefectNow' = DefectNow
      BY <2>3 DEF Behaviour, CaseNow, DefectNow, ModeNow
    <3> QED
      BY <2>2, <2>3, <2>5, <3>1 DEF AuditsAgree
  <2> QED
    BY <1>1, <2>1, <2>2, <2>3, <2>4, <2>6, CaseStep DEF InCase
<1> QED
  BY <1>2, <1>3

\* The binding catches the alarm: only the alarm moves.
LEMMA SwallowStep == ASSUME IInv, Swallows PROVE IInv'
<1>1. /\ Calling /\ ~NeedsHelper /\ run.alarm = "armed"
      /\ TroubleHere \in {"slow", "hang"}
      /\ run' = [run EXCEPT !.alarm = "spent"]
      /\ UNCHANGED <<work, head, exit, report>>
  BY DEF Swallows
<1>2. /\ DOMAIN run' = RunFields /\ run'.alarm = "spent"
      /\ \A f \in RunFields \ {"alarm"} : run'[f] = run[f]
  BY <1>1 DEF IInv, MemoryOK, RunFields
<1>3. /\ run'.pc = run.pc /\ run'.external = run.external /\ run'.lost = run.lost
      /\ run'.mutate = run.mutate /\ run'.plain = run.plain
      /\ run'.results = run.results /\ run'.corpus = run.corpus
      /\ run'.binding = run.binding /\ run'.hashed = run.hashed /\ run'.helper = run.helper
  BY <1>2 DEF RunFields
<1>4. CASE run.pc \in {"import", "construct", "name"}
  <2>1. run.external \in BOOLEAN /\ (run.external => run.hashed = run.binding)
    BY <1>4 DEF IInv, MemoryOK, RunInv, HashedIsExecuted, BeforeBinding
  <2> QED
    BY <1>1, <1>2, <1>3, <1>4, <2>1, EarlyStep DEF BeforeCases, BeforeBinding
<1>5. CASE run.pc \in InCase
  <2>1. HelperIsSettled'
    BY <1>3 DEF IInv, RunInv, HelperIsSettled
  <2>2. Behaviour' = Behaviour /\ CaseNow' = CaseNow /\ DefectNow' = DefectNow
    BY <1>3 DEF Behaviour, CaseNow, DefectNow, ModeNow
  <2>3. AuditsAgree'
    BY <1>2, <1>3, <2>2, <1>1 DEF IInv, RunInv, AuditsAgree
  <2> QED
    BY <1>1, <1>2, <1>3, <1>5, <2>1, <2>3, CaseStep
<1> QED
  BY <1>1, <1>4, <1>5 DEF Calling, InCase

\* A run ends in the middle of a case, of a preparation or of the controls.
LEMMA FailureStep ==
    ASSUME IInv, Fails \/ \E code \in 0..2 : Leaves(code)
    PROVE  IInv'
<1>1. CASE Fails
  BY <1>1, RefuseStep DEF Fails
<1>2. ASSUME NEW code \in 0..2, Leaves(code) PROVE IInv'
  <2>1. run.pc # "done" /\ (Refuse \/ (End(code) /\ UNCHANGED report))
    BY <1>2 DEF Leaves, Calling
  <2> QED
    BY <2>1, RefuseStep, EndStep
<1> QED
  BY <1>1, <1>2

\* A plain run hands its outcome on, a mutated one adds the result of its case.
LEMMA RepairStep == ASSUME IInv, Repair PROVE IInv'
<1> DEFINE observed == Answer(run.corpus, Behaviour, CaseNow, ModeNow, run.lost)
           result   == CaseResult(run.corpus, Behaviour, CaseNow, run.plain, observed)
           results  == Append(run.results, result)
           plain    == [run EXCEPT !.mutate = TRUE, !.plain = observed, !.lost = "nothing"]
           done     == [run EXCEPT !.mutate = FALSE, !.plain = None,
                                   !.lost = "nothing", !.results = results]
<1>1. /\ run.pc = "repair" /\ exit = None /\ report = None /\ DOMAIN run = RunFields
      /\ run.results \in Seq(Result)
      /\ Len(run.results) < Len(CaseOrder) /\ Len(run.results) <= Len(CaseOrder)
      /\ run.external \in BOOLEAN /\ run.mutate \in BOOLEAN
  BY DEF Repair, IInv, TypeOK, MemoryOK, InCase
<1>2. /\ UNCHANGED <<work, head, exit, report>>
      /\ run' = IF ~run.mutate THEN Enter("gate", plain)
                ELSE Enter(IF AllRun(results) THEN "controls" ELSE "gate", done)
  BY DEF Repair
<1>3. observed = Says(run.corpus, Behaviour, CaseNow, ModeNow)
  <2>1. DefectNow = Defect(Behaviour, CaseNow, ModeNow)
    BY DEF DefectNow
  <2>2. Audit(CaseNow, DefectNow, run.lost) = Audit(CaseNow, DefectNow, Loses(Behaviour))
    BY <1>1 DEF IInv, RunInv, AuditsAgree
  <2> QED
    BY <2>1, <2>2, SameAuditSameAnswer DEF Says
<1>4. /\ run.external => run.hashed = run.binding
      /\ ~(run.external /\ run.helper = None /\ ImportsHelper[run.binding] = "in a case")
  BY <1>1 DEF IInv, RunInv, HashedIsExecuted, HelperIsSettled, BeforeCases, BeforeBinding
<1>5. /\ DOMAIN plain = RunFields /\ plain.mutate = TRUE /\ plain.plain = observed
      /\ \A f \in RunFields \ {"mutate", "plain", "lost"} : plain[f] = run[f]
  <2> HIDE DEF observed
  <2> QED
    BY <1>1 DEF RunFields
<1>6. /\ DOMAIN done = RunFields /\ done.mutate = FALSE /\ done.results = results
      /\ \A f \in RunFields \ {"mutate", "plain", "lost", "results"} : done[f] = run[f]
  <2> HIDE DEF results
  <2> QED
    BY <1>1 DEF RunFields
<1>7. CASE ~run.mutate
  <2> HIDE DEF observed, result, results, plain, done
  <2>1. /\ DOMAIN run' = RunFields /\ run'.pc = "gate" /\ run'.alarm \in {"off", "armed"}
        /\ \A f \in RunFields \ {"pc", "alarm"} : run'[f] = plain[f]
    BY <1>2, <1>5, <1>7, EnterFields
  <2>2. /\ run'.external = run.external /\ run'.mutate = TRUE /\ run'.plain = observed
        /\ run'.results = run.results /\ run'.corpus = run.corpus
        /\ run'.binding = run.binding /\ run'.hashed = run.hashed /\ run'.helper = run.helper
    BY <1>5, <2>1 DEF RunFields
  <2>3. TypeOK' /\ FilesOK'
    BY <1>1, <1>2, <2>1, <2>2 DEF IInv, TypeOK, FilesOK
  <2>4. MemoryOK'
    BY <1>1, <1>2, <2>1, <2>2 DEF MemoryOK, BeforeCases, BeforeBinding, InCase, AfterCases
  <2>5. HashedIsExecuted' /\ HelperIsSettled'
    BY <1>4, <2>2 DEF HashedIsExecuted, HelperIsSettled
  <2>6. Behaviour' = Behaviour /\ CaseNow' = CaseNow
    BY <2>2 DEF Behaviour, CaseNow
  <2>7. observed = Says(run.corpus, Behaviour, CaseNow, "plain")
    BY <1>3, <1>7 DEF ModeNow
  <2>8. ResultsFollow'
    BY <2>2, <2>6, <2>7 DEF IInv, RunInv, ResultsFollow
  <2>9. AuditsAgree' /\ ReportFollowsFromItsEvidence'
    BY <1>1, <1>2, <2>1 DEF AuditsAgree, ReportFollowsFromItsEvidence
  <2> QED
    BY <2>3, <2>4, <2>5, <2>8, <2>9 DEF IInv, RunInv
<1>8. CASE run.mutate
  <2>1. observed = Says(run.corpus, Behaviour, CaseNow, "mutated")
    BY <1>3, <1>8 DEF ModeNow
  <2>2. run.plain = Says(run.corpus, Behaviour, CaseNow, "plain")
    BY <1>8 DEF IInv, RunInv, ResultsFollow
  <2>3. result = ResultFrom(run.corpus, Behaviour, Len(run.results) + 1)
    <3> HIDE DEF observed
    <3> QED
      BY <2>1, <2>2 DEF ResultFrom, CaseNow
  <2>4. result \in Result
    <3>1. CaseNow \in Case
      <4>1. Len(run.results) + 1 \in 1..5
        BY <1>1 DEF CaseOrder
      <4> QED
        BY <4>1 DEF CaseNow, CaseOrder, Case
    <3> QED
      BY <3>1 DEF CaseResult, Result, SameOutcome
  <2> HIDE DEF observed, result
  <2>5. /\ results \in Seq(Result) /\ Len(results) = Len(run.results) + 1
        /\ \A n \in 1..Len(run.results) : results[n] = run.results[n]
        /\ results[Len(run.results) + 1] = result
    BY <1>1, <2>4
  <2> HIDE DEF results, plain, done
  <2> DEFINE pc == IF AllRun(results) THEN "controls" ELSE "gate"
  <2>6. /\ DOMAIN run' = RunFields /\ run'.pc = pc /\ run'.alarm \in {"off", "armed"}
        /\ \A f \in RunFields \ {"pc", "alarm"} : run'[f] = done[f]
    BY <1>2, <1>6, <1>8, EnterFields
  <2>7. /\ run'.external = run.external /\ run'.mutate = FALSE
        /\ run'.results = results /\ run'.corpus = run.corpus
        /\ run'.binding = run.binding /\ run'.hashed = run.hashed /\ run'.helper = run.helper
    BY <1>6, <2>6 DEF RunFields
  <2>8. /\ Len(results) \in Nat /\ Len(results) <= Len(CaseOrder)
        /\ pc \in {"controls", "gate"}
        /\ pc = "gate" => Len(results) < Len(CaseOrder)
        /\ pc = "controls" => Len(results) = Len(CaseOrder)
    BY <1>1, <2>5 DEF AllRun, CaseOrder
  <2> HIDE DEF pc
  <2>9. TypeOK' /\ FilesOK'
    BY <1>1, <1>2, <2>6, <2>7, <2>8 DEF IInv, TypeOK, FilesOK
  <2>10. MemoryOK'
    BY <1>1, <1>2, <2>5, <2>6, <2>7, <2>8
      DEF MemoryOK, BeforeCases, BeforeBinding, InCase, AfterCases
  <2>11. HashedIsExecuted' /\ HelperIsSettled'
    BY <1>4, <2>7 DEF HashedIsExecuted, HelperIsSettled
  <2>12. Behaviour' = Behaviour
    BY <2>7 DEF Behaviour
  <2>13. ResultsFollow'
    <3>1. \A n \in 1..Len(run.results) : run.results[n] = ResultFrom(run.corpus, Behaviour, n)
      BY DEF IInv, RunInv, ResultsFollow
    <3>2. Len(run.results) \in Nat
      BY <1>1
    <3>3. \A n \in 1..Len(results) : results[n] = ResultFrom(run.corpus, Behaviour, n)
      BY <2>3, <2>5, <3>1, <3>2
    <3> QED
      BY <2>7, <2>12, <3>3 DEF ResultsFollow
  <2>14. AuditsAgree' /\ ReportFollowsFromItsEvidence'
    BY <1>1, <1>2, <2>6, <2>8 DEF AuditsAgree, ReportFollowsFromItsEvidence
  <2> QED
    BY <2>9, <2>10, <2>11, <2>13, <2>14 DEF IInv, RunInv
<1> QED
  BY <1>1, <1>7, <1>8

\* The fixtures are read, or the interpreter exits 1.
LEMMA ControlsStep == ASSUME IInv, Controls PROVE IInv'
<1>1. run.pc = "controls"
  BY DEF Controls
<1>2. CASE End(1) /\ UNCHANGED report
  BY <1>1, <1>2, EndStep
<1>3. CASE ~(End(1) /\ UNCHANGED report)
  <2> DEFINE passed == ControlsPass(work["runtime"]["fixtures"])
  <2>1. /\ run' = [run EXCEPT !.pc = "report", !.controls = passed]
        /\ UNCHANGED <<work, head, exit, report>>
    BY <1>3 DEF Controls
  <2> HIDE DEF passed
  <2>2. /\ DOMAIN run' = RunFields /\ run'.pc = "report"
        /\ \A f \in RunFields \ {"pc", "controls"} : run'[f] = run[f]
    BY <2>1 DEF IInv, MemoryOK, RunFields
  <2>3. /\ run'.external = run.external /\ run'.mutate = run.mutate /\ run'.plain = run.plain
        /\ run'.results = run.results /\ run'.corpus = run.corpus /\ run'.alarm = run.alarm
        /\ run'.binding = run.binding /\ run'.hashed = run.hashed /\ run'.helper = run.helper
    BY <2>2 DEF RunFields
  <2>4. exit = None /\ report = None
    BY <1>1 DEF IInv, TypeOK, MemoryOK
  <2>5. TypeOK' /\ FilesOK'
    BY <2>1, <2>2, <2>3, <2>4 DEF IInv, TypeOK, FilesOK
  <2>6. MemoryOK'
    BY <1>1, <2>1, <2>2, <2>3, <2>4
      DEF IInv, MemoryOK, BeforeCases, BeforeBinding, InCase, AfterCases
  <2>7. HashedIsExecuted' /\ HelperIsSettled'
    BY <1>1, <2>2, <2>3
      DEF IInv, RunInv, HashedIsExecuted, HelperIsSettled, BeforeCases, BeforeBinding
  <2>8. Behaviour' = Behaviour /\ CaseNow' = CaseNow
    BY <2>3 DEF Behaviour, CaseNow
  <2>9. ResultsFollow'
    BY <2>3, <2>8 DEF IInv, RunInv, ResultsFollow
  <2>10. AuditsAgree' /\ ReportFollowsFromItsEvidence'
    BY <2>1, <2>2, <2>4 DEF AuditsAgree, ReportFollowsFromItsEvidence
  <2> QED
    BY <2>5, <2>6, <2>7, <2>9, <2>10 DEF IInv, RunInv
<1> QED
  BY <1>2, <1>3

\* A report is printed from the memory of a run that went through every case.
LEMMA ReportStep == ASSUME IInv, Report PROVE IInv'
<1>1. run.pc = "report" /\ DOMAIN run = RunFields
  BY DEF Report, IInv, MemoryOK
<1>2. CASE Refuse
  BY <1>1, <1>2, RefuseStep
<1>3. CASE ~Refuse
  <2> DEFINE code == IF Passed(ReportOf(run)) THEN 0 ELSE 1
  <2>1. report' = ReportOf(run) /\ End(code)
    BY <1>3 DEF Report
  <2>2. code \in {0, 1} /\ code # None
    <3>1. None \notin 0..2
      BY ConformanceAssumption
    <3>2. code \in {0, 1}
      OBVIOUS
    <3> HIDE DEF code
    <3> QED
      BY <3>1, <3>2
  <2>3. Passed(report') => code = 0
    BY <2>1
  <2>4. ~Passed(report') => code = 1
    BY <2>1
  <2> HIDE DEF code
  <2>5. /\ work' = work /\ head' = head /\ exit' = code
        /\ run' = [run EXCEPT !.pc = "done"]
    BY <2>1 DEF End
  <2>6. /\ DOMAIN run' = RunFields /\ run'.pc = "done"
        /\ \A f \in RunFields \ {"pc"} : run'[f] = run[f]
    BY <1>1, <2>5 DEF RunFields
  <2>7. /\ run'.external = run.external /\ run'.mutate = run.mutate /\ run'.plain = run.plain
        /\ run'.results = run.results /\ run'.corpus = run.corpus /\ run'.alarm = run.alarm
        /\ run'.binding = run.binding /\ run'.hashed = run.hashed /\ run'.helper = run.helper
    BY <2>6 DEF RunFields
  <2>8. /\ report'.external = run.external /\ report'.corpus = run.corpus
        /\ report'.binding = run.hashed /\ report'.helper = run.helper
        /\ report'.cases = run.results
    BY <2>1 DEF ReportOf
  <2>9. /\ run.results \in Seq(Result) /\ DOMAIN run.results = 1..5
        /\ \A n \in 1..5 : run.results[n] = ResultFrom(run.corpus, Behaviour, n)
    BY <1>1 DEF IInv, MemoryOK, AfterCases, RunInv, ResultsFollow, CaseOrder
  <2>10. \A n \in 1..5 : run.results[n].case = CaseOrder[n]
    BY <2>9 DEF ResultFrom, CaseResult
  <2>11. {run.results[n].case : n \in 1..5} = Case
    <3>1. {run.results[n].case : n \in 1..5} = {CaseOrder[n] : n \in 1..5}
      BY <2>10
    <3>2. {CaseOrder[n] : n \in 1..5} = Case
      BY DEF CaseOrder, Case
    <3> QED
      BY <3>1, <3>2
  <2>12. TypeOK'
    <3>1. {report'.cases[n].case : n \in DOMAIN report'.cases} = Case
      BY <2>8, <2>9, <2>11
    <3>2. exit' = IF Passed(report') THEN 0 ELSE 1
      BY <2>3, <2>4, <2>5
    <3>3. exit' \in {None, 0, 1, 2} /\ (exit' # None <=> run'.pc = "done")
      BY <2>2, <2>5, <2>6
    <3>4. run'.alarm \in {"off", "armed", "spent"} /\ Len(run'.results) <= Len(CaseOrder)
      BY <2>7 DEF IInv, TypeOK
    <3>5. \A r \in Repository : \A f \in Files(r) :
             work'[r][f] \in Versions(f) /\ head'[r].tree[f] \in Versions(f)
      BY <2>5 DEF IInv, TypeOK
    <3> QED
      BY <3>1, <3>2, <3>3, <3>4, <3>5 DEF TypeOK
  <2>13. FilesOK' /\ MemoryOK'
    BY <2>5, <2>6, <2>7
      DEF IInv, FilesOK, MemoryOK, BeforeCases, BeforeBinding, InCase, AfterCases
  <2>14. HashedIsExecuted' /\ HelperIsSettled' /\ AuditsAgree'
    BY <2>6 DEF HashedIsExecuted, HelperIsSettled, AuditsAgree
  <2>15. ResultsFollow'
    <3>1. Behaviour' = Behaviour /\ CaseNow' = CaseNow
      BY <2>7 DEF Behaviour, CaseNow
    <3> QED
      BY <2>7, <3>1 DEF IInv, RunInv, ResultsFollow
  <2>16. ReportFollowsFromItsEvidence'
    <3>1. SUFFICES ASSUME run.external PROVE ReportFollowsFromItsEvidence'
      BY <2>8 DEF ReportFollowsFromItsEvidence
    <3>2. run.hashed = run.binding
      BY <1>1, <3>1 DEF IInv, RunInv, HashedIsExecuted, BeforeBinding
    <3>3. Conduct[report'.binding, report'.helper] = Behaviour
      BY <2>8, <3>2 DEF Behaviour
    <3>4. \A n \in DOMAIN report'.cases :
             report'.cases[n] =
                ResultFrom(report'.corpus, Conduct[report'.binding, report'.helper], n)
      BY <2>8, <2>9, <3>3
    <3> QED
      BY <3>4 DEF ReportFollowsFromItsEvidence, ResultFrom, Says
  <2> QED
    BY <2>12, <2>13, <2>14, <2>15, <2>16 DEF IInv, RunInv
<1> QED
  BY <1>2, <1>3

-----------------------------------------------------------------------------
\* The checkouts move under a run.

\* A commit, a restoration or an edit keeps versions in their files.
LEMMA CheckoutStep ==
    ASSUME IInv,
           \/ \E r \in Repository : Commit(r) \/ Restore(r)
           \/ \E r \in Repository : \E f \in Files(r) : \E v \in Versions(f) : Edit(r, f, v)
    PROVE  IInv'
<1>1. /\ DOMAIN work = Repository /\ DOMAIN head = Repository
      /\ \A r \in Repository :
            /\ DOMAIN work[r] = Files(r) /\ DOMAIN head[r].tree = Files(r)
            /\ DOMAIN head[r] = {"commit", "tree"}
            /\ \A f \in Files(r) : /\ work[r][f] \in Versions(f)
                                   /\ head[r].tree[f] \in Versions(f)
  BY DEF IInv, TypeOK, FilesOK
<1>2. ASSUME NEW r \in Repository, Commit(r) PROVE IInv'
  <2>1. /\ head' = [head EXCEPT ![r] = [commit |-> head[r].commit + 1, tree |-> work[r]]]
        /\ UNCHANGED <<work, run, exit, report>>
    BY <1>2 DEF Commit
  <2>2. /\ DOMAIN head' = Repository
        /\ head'[r] = [commit |-> head[r].commit + 1, tree |-> work[r]]
        /\ \A s \in Repository \ {r} : head'[s] = head[s]
    BY <1>1, <2>1
  <2>3. FilesOK' /\ \A s \in Repository : \A f \in Files(s) :
           work'[s][f] \in Versions(f) /\ head'[s].tree[f] \in Versions(f)
    BY <1>1, <2>1, <2>2 DEF FilesOK
  <2> QED
    BY <2>1, <2>3, OutsideStep
<1>3. ASSUME NEW r \in Repository, Restore(r) PROVE IInv'
  <2>1. /\ work' = [work EXCEPT ![r] = head[r].tree]
        /\ UNCHANGED <<head, run, exit, report>>
    BY <1>3 DEF Restore
  <2>2. FilesOK' /\ \A s \in Repository : \A f \in Files(s) :
           work'[s][f] \in Versions(f) /\ head'[s].tree[f] \in Versions(f)
    BY <1>1, <2>1 DEF FilesOK
  <2> QED
    BY <2>1, <2>2, OutsideStep
<1>4. ASSUME NEW r \in Repository, NEW f \in Files(r), NEW v \in Versions(f), Edit(r, f, v)
      PROVE  IInv'
  <2>1. /\ work' = [work EXCEPT ![r][f] = v]
        /\ UNCHANGED <<head, run, exit, report>>
    BY <1>4 DEF Edit
  <2>2. FilesOK' /\ \A s \in Repository : \A g \in Files(s) :
           work'[s][g] \in Versions(g) /\ head'[s].tree[g] \in Versions(g)
    BY <1>1, <2>1 DEF FilesOK
  <2> QED
    BY <2>1, <2>2, OutsideStep
<1> QED
  BY <1>2, <1>3, <1>4

\* Nothing moves.
LEMMA StutterStep == ASSUME IInv, UNCHANGED vars PROVE IInv'
<1>1. UNCHANGED <<work, head, run, exit, report>>
  BY DEF vars
<1>2. FilesOK' /\ \A r \in Repository : \A f \in Files(r) :
         work'[r][f] \in Versions(f) /\ head'[r].tree[f] \in Versions(f)
  BY <1>1 DEF IInv, TypeOK, FilesOK
<1> QED
  BY <1>1, <1>2, OutsideStep

\* The first state.
LEMMA InitIInv == Init => IInv
<1> SUFFICES ASSUME Init PROVE IInv
  OBVIOUS
<1>1. /\ work = [r \in Repository |-> [f \in Files(r) |-> FirstTree[f]]]
      /\ head = [r \in Repository |-> [commit |-> 1, tree |-> work[r]]]
  BY DEF Init
<1>2. /\ DOMAIN run = RunFields /\ run.pc = "idle" /\ run.external = TRUE
      /\ run.alarm = "off" /\ run.mutate = FALSE /\ run.results = <<>>
      /\ exit = None /\ report = None
  BY DEF Init, RunFields
<1>3. FilesOK /\ \A r \in Repository : \A f \in Files(r) :
         work[r][f] \in Versions(f) /\ head[r].tree[f] \in Versions(f)
  BY <1>1, ConformanceAssumption DEF FilesOK
<1>4. TypeOK
  BY <1>2, <1>3 DEF TypeOK, CaseOrder
<1>5. MemoryOK
  <2>1. run.results \in Seq(Result) /\ Len(run.results) = 0 /\ Len(CaseOrder) = 5
    BY <1>2 DEF CaseOrder
  <2>2. Len(run.results) <= Len(CaseOrder)
    <3> HIDE DEF CaseOrder
    <3> QED
      BY <2>1
  <2>3. run.pc \in BeforeCases /\ run.pc \notin InCase \cup AfterCases
    BY <1>2 DEF BeforeCases, BeforeBinding, InCase, AfterCases
  <2> QED
    BY <1>2, <2>1, <2>2, <2>3 DEF MemoryOK
<1>6. RunInv /\ ReportFollowsFromItsEvidence
  BY <1>2 DEF RunInv, HashedIsExecuted, BeforeBinding, BeforeCases, HelperIsSettled,
              ResultsFollow, AuditsAgree, ReportFollowsFromItsEvidence
<1> QED
  BY <1>3, <1>4, <1>5, <1>6 DEF IInv

\* Every step, action by action.
LEMMA NextIInv == IInv /\ [Next]_vars => IInv'
<1> SUFFICES ASSUME IInv, [Next]_vars PROVE IInv'
  OBVIOUS
<1>1. CASE UNCHANGED vars
  BY <1>1, StutterStep
<1>2. CASE \/ \E r \in Repository : Commit(r) \/ Restore(r)
           \/ \E r \in Repository : \E f \in Files(r) : \E v \in Versions(f) : Edit(r, f, v)
  BY <1>2, CheckoutStep
<1>3. CASE Validator
  <2>1. CASE \E external \in BOOLEAN : Start(external)
    BY <2>1, StartStep
  <2>2. CASE \/ ListTracked \/ Identify \/ ReadBinding
             \/ RuntimeIdentity \/ LoadCorpus \/ CallReturns
    BY <2>2, PreparationStep
  <2>3. CASE LoadHelper
    BY <2>3, LoadHelperStep
  <2>4. CASE \E lost \in {"nothing", "lineage", "coverage"}, alarm \in {"armed", "spent"} :
               Gate(lost, alarm) \/ Recheck(lost, alarm)
    BY <2>4, GateStep, RecheckStep
  <2>5. CASE Swallows \/ Repair
    BY <2>5, SwallowStep, RepairStep
  <2>6. CASE Fails \/ \E code \in 0..2 : Leaves(code)
    BY <2>6, FailureStep
  <2>7. CASE Controls
    BY <2>7, ControlsStep
  <2>8. CASE Report
    BY <2>8, ReportStep
  <2> QED
    BY <1>3, <2>1, <2>2, <2>3, <2>4, <2>5, <2>6, <2>7, <2>8 DEF Validator
<1> QED
  BY <1>1, <1>2, <1>3 DEF Next

-----------------------------------------------------------------------------
\* The theorems.

\* The inductive invariant holds of every run of the validator.
THEOREM RunInvariant == Spec => []IInv
  BY InitIInv, NextIInv, PTL DEF Spec

\* The type invariant.
THEOREM ConformanceTypes == Spec => []TypeOK
<1>1. IInv => TypeOK
  BY DEF IInv
<1> QED
  BY <1>1, RunInvariant, PTL

\* An external report follows from the bytes it names, whoever edits meanwhile.
THEOREM ReportsFollow == Spec => []ReportFollowsFromItsEvidence
<1>1. IInv => ReportFollowsFromItsEvidence
  BY DEF IInv
<1> QED
  BY <1>1, RunInvariant, PTL

\* What passes under the exact corpus answers as it expects in every case.
LEMMA PassedIsNotBlind == IInv => BlindBindingsAreRefused
<1> DEFINE conduct == Conduct[report.binding, report.helper]
           lost    == Loses(conduct)
           Said(c, mode) == Answer(report.corpus, conduct, c, mode, lost)
           Seen(c, defect) == Outcome(c, defect, lost)
<1> SUFFICES ASSUME IInv, report # None, report.external, report.corpus.exact, Passed(report),
                    NEW c \in Case
             PROVE  /\ c \notin conduct.skips
                    /\ Said(c, "plain") = Expected(c) /\ Said(c, "mutated") # Said(c, "plain")
                    /\ (\A mode \in Mode : conduct.answers[mode][c] = "seen") =>
                          /\ Seen(c, conduct.plain[c]) = Outcome(c, "none", "nothing")
                          /\ Seen(c, conduct.mutated[c]) # Seen(c, conduct.plain[c])
  BY DEF BlindBindingsAreRefused
<1>1. PICK n \in DOMAIN report.cases : report.cases[n].case = c
  BY DEF IInv, TypeOK
<1>2. report.cases[n] = ResultFrom(report.corpus, conduct, n)
  BY DEF IInv, ReportFollowsFromItsEvidence, ResultFrom, Says
<1> HIDE DEF conduct
<1>3. CaseOrder[n] = c
  BY <1>1, <1>2 DEF ResultFrom, CaseResult
<1>4. /\ report.cases[n].expectation_met = (Expected(c) = Said(c, "plain"))
      /\ report.cases[n].positive_control_passed = (c \notin conduct.skips)
      /\ report.cases[n].mutation_control_passed
            = (CounterResult(report.corpus, c) = Said(c, "mutated"))
  BY <1>2, <1>3 DEF ResultFrom, CaseResult, SameOutcome, Says
<1>5. CasePassed(report.cases[n])
  BY DEF Passed
<1>6. CounterResult(report.corpus, c) = ExactCounterResult(c)
  BY DEF CounterResult
<1>7. /\ c \notin conduct.skips
      /\ Said(c, "plain") = Expected(c) /\ Said(c, "mutated") # Said(c, "plain")
  BY <1>4, <1>5, <1>6, CounterResultsDiffer DEF CasePassed
<1>8. ASSUME \A mode \in Mode : conduct.answers[mode][c] = "seen"
      PROVE  /\ Said(c, "plain") = Seen(c, conduct.plain[c])
             /\ Said(c, "mutated") = Seen(c, conduct.mutated[c])
  BY <1>8 DEF Answer, Defect, Mode
<1> HIDE DEF Said, Seen
<1> QED
  BY <1>7, <1>8, ReferenceMeetsExpectation

\* No external binding passes that answers alike with and without a defect it was
\* told to have, nor one that is blind to it and answers with what it sees.
THEOREM BlindBindingsRefused == Spec => []BlindBindingsAreRefused
  BY RunInvariant, PassedIsNotBlind, PTL
===============================================================================
