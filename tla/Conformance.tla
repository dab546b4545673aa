----------------------------- MODULE Conformance -----------------------------
(***************************************************************************)
(* One run of the adapter conformance validator (prototype/conformance.py  *)
(* and cmd_adapter_conformance) over two Git checkouts that people go on   *)
(* editing meanwhile: "runtime", this repository, with the corpus, the     *)
(* semantic fixtures and the reference binding, and "candidate", with an   *)
(* external binding and a module it imports.                               *)
(*                                                                         *)
(* What a version of a file says is a model value; what a binding does is  *)
(* a function of the versions that were executed.  The binding is not      *)
(* trusted: a call of it may raise, hang, be slow enough to race the       *)
(* alarm, catch the alarm, or leave the interpreter, and what it answers   *)
(* is its own word: it is handed the case with the expected outcome and    *)
(* the counter-result in it.  The module table that the loader empties and *)
(* restores belongs to a process that ends with the run.                   *)
(***************************************************************************)
EXTENDS ReferenceBinding, Sequences

CONSTANTS
    None,
    Binding,        \* versions of a binding's module
    Helper,         \* versions of the module it imports
    ImportsHelper,  \* [Binding -> {"at import", "in a case", "never"}]
    Conduct,        \* what a binding does, by <<binding, helper>>
    Corpus,         \* versions of spec/adapter-conformance.json
    Fixtures,       \* versions of spec/semantic
    FirstTree,      \* what both repositories hold at the start
    PublishedTarget,\* review_target of publication/active-surfaces.json
    MaxEdits        \* bound: edits and commits

\* A conduct says for each case which defect the store has in the plain and in
\* the mutated run, in which cases `calls` lacks a required one, whether `observe`
\* answers with what is seen of the store or recites from the case, what is wrong
\* with a call at each point, and at which points the binding has an `except
\* Exception` of its own around what takes long.
Point   == {"import", "construct", "name", "audit", "repair"}
Trouble == {"nothing", "slow", "hang", "raise", "leave"}
Source  == {"seen", "expected", "counter"}
Mode    == {"plain", "mutated"}

Repository == {"runtime", "candidate"}
Files(r) == IF r = "runtime" THEN {"corpus", "fixtures", "binding"} ELSE {"binding", "helper"}
Versions(f) ==
    CASE f = "corpus" -> Corpus [] f = "fixtures" -> Fixtures
      [] f = "binding" -> Binding [] f = "helper" -> Helper \cup {None}

\* A corpus version: its target, whether the checks on its cases, quotations,
\* provenance and controls pass, and whether its counter-results are exact.
\* A fixtures version: the coverages its three cases lead to, None if unreadable.
ASSUME ConformanceAssumption ==
    /\ ImportsHelper \in [Binding -> {"at import", "in a case", "never"}]
    /\ \A b \in Binding, h \in Helper \cup {None} :
          /\ \A c \in Case : /\ Conduct[b, h].plain[c] \in Mutation \cup {"none"}
                             /\ Conduct[b, h].mutated[c] \in Mutation \cup {"none"}
          /\ Conduct[b, h].skips \subseteq Case
          /\ Conduct[b, h].answers \in [Mode -> [Case -> Source]]
          /\ Conduct[b, h].trouble \in [Point -> Trouble]
          /\ Conduct[b, h].catches \subseteq Point
    /\ \A c \in Corpus : c.complete \in BOOLEAN /\ c.exact \in BOOLEAN
    /\ None \notin Binding \cup Helper /\ None \notin 0..2
    /\ \A r \in Repository : \A f \in Files(r) : FirstTree[f] \in Versions(f)
    /\ MaxEdits \in Nat

VARIABLES
    work,       \* the files of each checkout, None where one is missing
    head,       \* HEAD of each repository: a commit and its tree
    edits,      \* edits and commits so far
    run,        \* the memory of the validator
    exit,       \* its exit code, None while it runs
    report      \* the report it prints, None if there is none

vars == <<work, head, edits, run, exit, report>>

CaseOrder == <<"constant-lineage-complete", "constant-unknown-coverage",
               "duplicate-preserved-inputs", "empty-receipt", "retire-entire-store">>

Clean(r) == work[r] = head[r].tree

-----------------------------------------------------------------------------
\* What a corpus and an executed binding make of the cases.

\* load_corpus
Loads(c) == c.complete /\ c.target = PublishedTarget

CounterResult(c, case) == IF c.exact THEN ExactCounterResult(case) ELSE Expected(case)

\* What the store is told to have, and what `observe` then returns.
Defect(conduct, case, mode) ==
    IF mode = "mutated" THEN conduct.mutated[case] ELSE conduct.plain[case]
Answer(c, conduct, case, mode, lost) ==
    CASE conduct.answers[mode][case] = "seen" ->
            Outcome(case, Defect(conduct, case, mode), lost)
      [] conduct.answers[mode][case] = "expected" -> Expected(case)
      [] conduct.answers[mode][case] = "counter"  -> CounterResult(c, case)

\* compare_complete_outcome finds no difference.
SameOutcome(want, got) == want = got

\* A variant that forgets the mutation control.
CasePassedUnmutated(r) == r.expectation_met /\ r.positive_control_passed

CasePassed(r) ==
    r.expectation_met /\ r.positive_control_passed /\ r.mutation_control_passed

CaseResult(c, conduct, case, plain, mutated) ==
    [case |-> case,
     expectation_met         |-> SameOutcome(Expected(case), plain),
     positive_control_passed |-> case \notin conduct.skips,
     mutation_control_passed |-> SameOutcome(CounterResult(c, case), mutated)]

\* The anti-vacuity controls: an empty receipt and a feed that starts at 2 are
\* refused by this very code, and the fixtures reach all three coverages.
Feed == INSTANCE ErrataFeed WITH
            KeySchedule <- <<[from |-> 1, key |-> "owner"]>>,
            Root <- {"diet"}, Prop <- {"diet", "meat", "quiet"}
GapEvent ==
    [id |-> "anti-vacuity-gap", seq |-> 2, root |-> "diet", op |-> "supersede",
     replacement |-> "meat", negative |-> "diet", positive |-> "meat",
     preserve |-> {"quiet"}, key |-> "owner", signer |-> "owner"]
ControlsPass(fixtures) ==
    /\ Feed!Verdict(GapEvent, 0, {}, {"diet"}) = "gap"
    /\ fixtures = {"verified", "failed", "unknown"}

-----------------------------------------------------------------------------
\* The checkouts.

Init ==
    /\ work = [r \in Repository |-> [f \in Files(r) |-> FirstTree[f]]]
    /\ head = [r \in Repository |-> [commit |-> 1, tree |-> work[r]]]
    /\ edits = 0
    /\ run = [pc |-> "idle", external |-> TRUE, tracked |-> {}, commit |-> None,
              corpus |-> None, binding |-> None, hashed |-> None, helper |-> None,
              alarm |-> "off", mutate |-> FALSE, lost |-> "nothing", plain |-> None,
              results |-> <<>>, controls |-> FALSE]
    /\ exit = None /\ report = None

Edit(r, f, v) ==
    /\ exit = None /\ edits < MaxEdits
    /\ v # work[r][f]
    /\ work' = [work EXCEPT ![r][f] = v]
    /\ edits' = edits + 1
    /\ UNCHANGED <<head, run, exit, report>>

Commit(r) ==
    /\ exit = None /\ edits < MaxEdits
    /\ ~Clean(r)
    /\ head' = [head EXCEPT ![r] = [commit |-> @.commit + 1, tree |-> work[r]]]
    /\ edits' = edits + 1
    /\ UNCHANGED <<work, run, exit, report>>

Restore(r) ==
    /\ exit = None
    /\ ~Clean(r)
    /\ work' = [work EXCEPT ![r] = head[r].tree]
    /\ UNCHANGED <<head, edits, run, exit, report>>

-----------------------------------------------------------------------------
\* The validator.

\* An external run admits the binding before the validation proper; the
\* reference run hashes its own file in the middle of it.
After(pc) ==
    CASE pc = "list"      -> "identify"
      [] pc = "identify"  -> IF run.external THEN "read" ELSE "construct"
      [] pc = "read"      -> IF run.external THEN "import" ELSE "identify"
      [] pc = "import"    -> "runtime"
      [] pc = "runtime"   -> "corpus"
      [] pc = "corpus"    -> IF run.external THEN "construct" ELSE "read"
      [] pc = "construct" -> "name"
      [] pc = "name"      -> "gate"

\* A variant that reads `binding.name` without a timeout.
TimedOnceConstructed == {"import", "construct", "gate"}

\* What _run_with_timeout wraps; "gate" opens a whole _run_case.
Timed == {"import", "construct", "name", "gate"}

Enter(pc, memory) ==
    [memory EXCEPT !.pc = pc, !.alarm = IF pc \in Timed THEN "armed" ELSE "off"]

Proceed(memory) ==
    /\ run' = Enter(After(run.pc), memory)
    /\ UNCHANGED <<work, head, edits, exit, report>>

End(code) ==
    /\ exit' = code
    /\ run' = [run EXCEPT !.pc = "done"]
    /\ UNCHANGED <<work, head, edits>>

\* ConformanceInputError: EXIT_INCONCLUSIVE and no report
Refuse == End(2) /\ UNCHANGED report

BindingRepository == IF run.external THEN "candidate" ELSE "runtime"

\* The reference binding is the code this very process started with.
Start(external) ==
    /\ run.pc = "idle"
    /\ run' = [run EXCEPT !.pc = IF external THEN "list" ELSE "runtime",
                          !.external = external,
                          !.binding = IF external THEN None ELSE work["runtime"]["binding"]]
    /\ UNCHANGED <<work, head, edits, exit, report>>

ListTracked ==
    /\ run.pc = "list"
    /\ Proceed([run EXCEPT !.tracked =
                  {f \in Files("candidate") : head["candidate"].tree[f] # None}])

\* _runtime_identity of the binding's repository
Identify ==
    /\ run.pc = "identify"
    /\ IF Clean(BindingRepository)
       THEN Proceed([run EXCEPT !.commit = head[BindingRepository].commit])
       ELSE Refuse

\* The bytes are read once; an external run executes what it has read.
ReadBinding ==
    LET payload == work[BindingRepository]["binding"]
    IN  /\ run.pc = "read"
        /\ Proceed([run EXCEPT !.hashed = payload,
                               !.binding = IF run.external THEN payload ELSE @])

\* AdmittedFinder, the first time the helper is imported
NeedsHelper ==
    /\ run.external /\ run.helper = None
    /\ \/ run.pc = "import" /\ ImportsHelper[run.binding] = "at import"
       \/ run.pc = "gate" /\ ImportsHelper[run.binding] = "in a case"

LoadHelper ==
    /\ NeedsHelper
    /\ IF "helper" \in run.tracked /\ work["candidate"]["helper"] # None
       THEN /\ run' = [run EXCEPT !.helper = work["candidate"]["helper"]]
            /\ UNCHANGED <<work, head, edits, exit, report>>
       ELSE Refuse

RuntimeIdentity ==
    /\ run.pc = "runtime"
    /\ IF Clean("runtime") THEN Proceed(run) ELSE Refuse

LoadCorpus ==
    LET corpus == work["runtime"]["corpus"]
    IN  /\ run.pc = "corpus"
        /\ IF Loads(corpus) THEN Proceed([run EXCEPT !.corpus = corpus]) ELSE Refuse

-----------------------------------------------------------------------------
\* Calls of the binding.

Behaviour == Conduct[run.binding, run.helper]
PointOf(pc) == IF pc \in {"gate", "recheck"} THEN "audit" ELSE pc
Calling == run.pc \in {"import", "construct", "name", "gate", "recheck", "repair"}
TroubleHere == Behaviour.trouble[PointOf(run.pc)]
CaseNow == CaseOrder[Len(run.results) + 1]
ModeNow == IF run.mutate THEN "mutated" ELSE "plain"
DefectNow == Defect(Behaviour, CaseNow, ModeNow)

CallReturns ==
    /\ run.pc \in {"import", "construct", "name"} /\ ~NeedsHelper
    /\ TroubleHere \in {"nothing", "slow"}
    /\ Proceed(run)

\* How one audit of the lineage can end: it answers, it raises, or the alarm
\* goes off in it, once; `except Exception` takes both for no answer.
AuditEnds(lost, alarm) ==
    \/ TroubleHere \in {"nothing", "slow"} /\ lost = "nothing" /\ alarm = run.alarm
    \/ TroubleHere = "raise" /\ lost = "lineage" /\ alarm = run.alarm
    \/ /\ TroubleHere \in {"slow", "hang"} /\ run.alarm = "armed"
       /\ lost \in {"lineage", "coverage"} /\ alarm = "spent"

\* Importer.quarantine
Gate(lost, alarm) ==
    /\ run.pc = "gate" /\ ~NeedsHelper
    /\ AuditEnds(lost, alarm)
    /\ run' = [run EXCEPT !.pc = "recheck", !.lost = lost, !.alarm = alarm]
    /\ UNCHANGED <<work, head, edits, exit, report>>

\* A variant that compares nothing.
AnyAudit(checkpoint, current) == TRUE

SameAudit(checkpoint, current) == checkpoint = current

\* Importer._validate_checkpoint audits again and compares.
Recheck(lost, alarm) ==
    /\ run.pc = "recheck"
    /\ AuditEnds(lost, alarm)
    /\ IF SameAudit(Audit(CaseNow, DefectNow, run.lost), Audit(CaseNow, DefectNow, lost))
       THEN /\ run' = [run EXCEPT !.pc = "repair", !.alarm = alarm]
            /\ UNCHANGED <<work, head, edits, exit, report>>
       ELSE Refuse

\* A variant that leaves the last case out.
AllButOneRun(results) == Len(results) = Len(CaseOrder) - 1

AllRun(results) == Len(results) = Len(CaseOrder)

\* The rest of _run_case: a plain run is followed by the mutated one.
Repair ==
    LET observed == Answer(run.corpus, Behaviour, CaseNow, ModeNow, run.lost)
        results  == Append(run.results,
                       CaseResult(run.corpus, Behaviour, CaseNow, run.plain, observed))
    IN  /\ run.pc = "repair" /\ TroubleHere \in {"nothing", "slow"}
        /\ run' = IF ~run.mutate
                  THEN Enter("gate", [run EXCEPT !.mutate = TRUE, !.plain = observed,
                                                 !.lost = "nothing"])
                  ELSE Enter(IF AllRun(results) THEN "controls" ELSE "gate",
                             [run EXCEPT !.mutate = FALSE, !.plain = None,
                                         !.lost = "nothing", !.results = results])
        /\ UNCHANGED <<work, head, edits, exit, report>>

\* The binding itself catches the alarm, which is not set again: what is slow
\* returns in the end, what hangs does not.
Swallows ==
    /\ Calling /\ ~NeedsHelper
    /\ PointOf(run.pc) \in Behaviour.catches
    /\ TroubleHere \in {"slow", "hang"} /\ run.alarm = "armed"
    /\ run' = [run EXCEPT !.alarm = "spent"]
    /\ UNCHANGED <<work, head, edits, exit, report>>

\* An exception outside of the audits, or the alarm if nothing catches it, ends
\* the run.
Fails ==
    /\ run.pc \in {"import", "construct", "name", "repair"} /\ ~NeedsHelper
    /\ \/ TroubleHere = "raise"
       \/ TroubleHere \in {"slow", "hang"} /\ run.alarm = "armed"
    /\ Refuse

\* SystemExit: only the import catches it.
Leaves(code) ==
    /\ Calling /\ ~NeedsHelper
    /\ TroubleHere = "leave"
    /\ IF run.pc = "import" THEN Refuse ELSE End(code) /\ UNCHANGED report

-----------------------------------------------------------------------------
\* The fixtures are read from the checkout; if they cannot be, nothing catches
\* the exception and the interpreter exits 1.
Controls ==
    LET fixtures == work["runtime"]["fixtures"]
    IN  /\ run.pc = "controls"
        /\ IF fixtures = None THEN End(1) /\ UNCHANGED report
           ELSE /\ run' = [run EXCEPT !.pc = "report", !.controls = ControlsPass(fixtures)]
                /\ UNCHANGED <<work, head, edits, exit, report>>

Passed(r) == r.controls /\ \A n \in DOMAIN r.cases : CasePassed(r.cases[n])

ReportOf(memory) ==
    [external |-> memory.external, commit |-> memory.commit, corpus |-> memory.corpus,
     binding |-> memory.hashed, helper |-> memory.helper, cases |-> memory.results,
     controls |-> memory.controls]

\* An external run checks the binding's repository once more.
Report ==
    /\ run.pc = "report"
    /\ IF run.external /\ ~(Clean("candidate") /\ head["candidate"].commit = run.commit)
       THEN Refuse
       ELSE /\ report' = ReportOf(run)
            /\ End(IF Passed(ReportOf(run)) THEN 0 ELSE 1)

Validator ==
    \/ \E external \in BOOLEAN : Start(external)
    \/ ListTracked \/ Identify \/ ReadBinding \/ LoadHelper
    \/ RuntimeIdentity \/ LoadCorpus
    \/ CallReturns \/ Swallows \/ Repair \/ Fails
    \/ \E lost \in {"nothing", "lineage", "coverage"}, alarm \in {"armed", "spent"} :
          Gate(lost, alarm) \/ Recheck(lost, alarm)
    \/ \E code \in 0..2 : Leaves(code)
    \/ Controls \/ Report

Next ==
    \/ \E r \in Repository : Commit(r) \/ Restore(r)
    \/ \E r \in Repository : \E f \in Files(r) : \E v \in Versions(f) : Edit(r, f, v)
    \/ Validator

\* The validator is scheduled, and an armed alarm goes off in a call that hangs;
\* whether it is caught there is the binding's doing, and no fairness forbids it.
Spec == Init /\ [][Next]_vars /\ WF_vars(Validator)

-----------------------------------------------------------------------------
\* The files hold versions of theirs, and a run ends with an exit code; a report
\* speaks of all five cases, and exits 0 or 1 by what it says.
TypeOK ==
    /\ \A r \in Repository : \A f \in Files(r) :
          work[r][f] \in Versions(f) /\ head[r].tree[f] \in Versions(f)
    /\ exit \in {None, 0, 1, 2} /\ (exit # None <=> run.pc = "done")
    /\ run.alarm \in {"off", "armed", "spent"} /\ Len(run.results) <= Len(CaseOrder)
    /\ report # None =>
          /\ {report.cases[n].case : n \in DOMAIN report.cases} = Case
          /\ exit = IF Passed(report) THEN 0 ELSE 1

\* What an audit loses that no alarm disturbs.
Loses(conduct) == IF conduct.trouble["audit"] = "raise" THEN "lineage" ELSE "nothing"

\* THREAT_MODEL.md, "a lying conformance binding": the flattering behaviour that a
\* case names is rejected, and no more.  Under the canonical corpus no external
\* binding passes that answers alike with and without a defect it was told to
\* have, answers wrongly without one, or reports no call that is required; so none
\* whose answers are what is seen of its store is blind.  One that recites passes.
BlindBindingsAreRefused ==
    report # None /\ report.external /\ report.corpus.exact /\ Passed(report) =>
        LET conduct == Conduct[report.binding, report.helper]
            Said(c, mode) == Answer(report.corpus, conduct, c, mode, Loses(conduct))
            Seen(c, defect) == Outcome(c, defect, Loses(conduct))
        IN  \A c \in Case :
                /\ c \notin conduct.skips
                /\ Said(c, "plain") = Expected(c) /\ Said(c, "mutated") # Said(c, "plain")
                /\ (\A mode \in Mode : conduct.answers[mode][c] = "seen") =>
                      /\ Seen(c, conduct.plain[c]) = Outcome(c, "none", "nothing")
                      /\ Seen(c, conduct.mutated[c]) # Seen(c, conduct.plain[c])

\* What an external report says of the cases follows from the bytes it names,
\* the corpus, the module and the imported helper, whatever was edited, committed
\* or restored while it ran and wherever an alarm went off.
ReportFollowsFromItsEvidence ==
    report # None /\ report.external =>
        LET conduct == Conduct[report.binding, report.helper]
            Said(c, mode) == Answer(report.corpus, conduct, c, mode, Loses(conduct))
        IN  \A n \in DOMAIN report.cases :
                report.cases[n] =
                    CaseResult(report.corpus, conduct, CaseOrder[n],
                               Said(CaseOrder[n], "plain"), Said(CaseOrder[n], "mutated"))

\* tests/test_conformance.py, "hard timeout": a run of a binding that hangs ends,
\* unless its one alarm was caught, by the binding or around an audit by the
\* importer, and a call hangs after that.
HangsForGood == Calling /\ TroubleHere = "hang" /\ run.alarm = "spent"
RunsEnd == run.pc \notin {"idle", "done"} ~> (run.pc = "done" \/ HangsForGood)
===============================================================================
