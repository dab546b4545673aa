--------------------------- MODULE ReferenceBinding ---------------------------
(***************************************************************************)
(* The synthetic store of the adapter conformance corpus and what one      *)
(* importer makes of it (prototype/conformance.py, the reference adapter   *)
(* and binding), next to the corpus itself (spec/adapter-conformance.json).*)
(*                                                                         *)
(* A case is named by the flattering mutation that belongs to it.  A       *)
(* mutation is a defect the store is told to have; "none" is the store as  *)
(* it is.  An outcome is what `observe` returns.  Everything here is a     *)
(* pure operator.                                                          *)
(***************************************************************************)
EXTENDS Coverage, FiniteSets

Case == {"constant-lineage-complete", "constant-unknown-coverage",
         "duplicate-preserved-inputs", "empty-receipt", "retire-entire-store"}
Mutation == Case

Operation(case)   == IF case = "empty-receipt" THEN "erase" ELSE "supersede"
Undeclared(case)  == case = "constant-lineage-complete"

\* The adapter's records: four facts and a summary that mixes three of them,
\* each with its text as a set of propositions; the importer looks at "diet".
Preserved == {"quiet", "budget"}
Unrelated == "pet"
Records(case) ==
    {[id |-> f, text |-> {f}] : f \in {"diet", "quiet", "budget", "pet"}}
    \cup {[id |-> "summary", text |-> {"diet", "quiet", "budget"}]}
    \cup (IF Undeclared(case) THEN {[id |-> "orphan", text |-> {}]} ELSE {})
Affected == {"diet", "summary"}

Replacement(case) == IF Operation(case) = "erase" THEN {} ELSE {"meat"}

\* RebuildStrategy over the adapter: `diet` is retired, the summary rebuilt from
\* its other inputs.  A store that retires everything rebuilds nothing; one that
\* duplicates adds a record for each input it keeps.
Active(case, mutation) ==
    IF mutation = "retire-entire-store" THEN {}
    ELSE {r \in Records(case) : r.id \notin Affected}
         \cup {[id |-> "summary", text |-> Replacement(case) \cup Preserved]}
         \cup (IF mutation = "duplicate-preserved-inputs"
               THEN {[id |-> "duplicate:quiet", text |-> {"quiet"}],
                     [id |-> "duplicate:budget", text |-> {"budget"}]} ELSE {})
Retired(case, mutation) ==
    IF mutation = "retire-entire-store" THEN {r.id : r \in Records(case)} ELSE {"diet"}
Rebuilt(mutation) == IF mutation = "retire-entire-store" THEN {} ELSE {"summary"}

\* Nothing that is still behind its gate is active.
Recalls(case, mutation, p) == \E r \in Active(case, mutation) : p \in r.text

LineageComplete(case, mutation) ==
    mutation = "constant-lineage-complete" \/ ~Undeclared(case)
HidesCoverage(case, mutation) ==
    mutation = "constant-unknown-coverage" \/ ~LineageComplete(case, mutation)

\* What the importer records of the gate.  `lost` names the audit that raised
\* instead of answering, lineage_complete or quarantine_coverage; both are
\* wrapped in `except Exception`.
Audit(case, mutation, lost) ==
    LET complete == lost # "lineage" /\ LineageComplete(case, mutation)
        reported == IF lost = "coverage" \/ HidesCoverage(case, mutation)
                    THEN "unknown" ELSE QuarantineCoverage(TRUE, Affected, Affected)
    IN  [coverage   |-> CheckpointCoverage(reported, ~complete),
         limitation |-> IF ~complete THEN "lineage"
                        ELSE IF reported = "unknown" THEN "coverage" ELSE "none"]

FinalCoverage(case, mutation) ==
    IF HidesCoverage(case, mutation) THEN "unknown"
    ELSE DispositionCoverage(Affected, Retired(case, mutation) \cup Rebuilt(mutation))

\* compare_proposition_multiplicity over identities that are there before and
\* after, as this store's are (a missing or repeated one makes it "unknown").
Multiplicity(before, after) ==
    IF \E p \in DOMAIN before : after[p] > before[p] THEN "increased" ELSE "known"

Counts(records) ==
    [p \in Preserved \cup {Unrelated} |-> Cardinality({r \in records : p \in r.text})]

\* Importer._run_triad
Triad(case, mutation) ==
    [leg \in {"negative", "preserve"} \cup
             (IF Operation(case) = "erase" THEN {} ELSE {"positive"}) |->
        CASE leg = "negative" -> ~Recalls(case, mutation, "diet")
          [] leg = "positive" -> Recalls(case, mutation, "meat")
          [] leg = "preserve" ->
                \A p \in Preserved \cup {Unrelated} : Recalls(case, mutation, p)]

\* A question that is asked of an erasure only.
OfErasure(case, answer) ==
    IF Operation(case) # "erase" THEN "null" ELSE IF answer THEN "yes" ELSE "no"

\* ReferenceConformanceBinding.observe, after quarantine and repair
Outcome(case, mutation, lost) ==
    LET checkpoint   == Audit(case, mutation, lost).coverage
        stores       == [s \in {"store"} |->
                            ConservativeCoverage(checkpoint, FinalCoverage(case, mutation))]
        multiplicity == Multiplicity(Counts(Records(case)), Counts(Active(case, mutation)))
        triad        == [Triad(case, mutation) EXCEPT
                            !["preserve"] = @ /\ multiplicity # "increased"]
        hollow       == mutation = "empty-receipt"
    IN  [checkpoint |-> checkpoint,
         aggregate  |-> IF hollow \/ FALSE \in Range(triad) THEN "failed"
                        ELSE AggregateCoverage(stores, Triad(case, mutation)),
         triad      |-> triad,
         multiplicity      |-> multiplicity,
         erased_absent     |-> OfErasure(case, ~Recalls(case, mutation, "diet")),
         preserved_present |-> \A p \in Preserved : Recalls(case, mutation, p),
         unrelated_present |-> Recalls(case, mutation, Unrelated),
         names_store       |-> ~hollow,
         non_trivial       |-> ~hollow,
         forbidden_absent  |-> OfErasure(case, TRUE)]

-----------------------------------------------------------------------------
\* The corpus: what each case expects of a plain run and of a mutated one.
Legs(case, failing) ==
    [leg \in {"negative", "preserve"} \cup
             (IF Operation(case) = "erase" THEN {} ELSE {"positive"}) |-> leg \notin failing]

Expected(case) ==
    LET coverage == IF case = "constant-lineage-complete" THEN "unknown" ELSE "verified"
    IN  [checkpoint |-> coverage, aggregate |-> coverage, triad |-> Legs(case, {}),
         multiplicity |-> "known", erased_absent |-> OfErasure(case, TRUE),
         preserved_present |-> TRUE, unrelated_present |-> TRUE, names_store |-> TRUE,
         non_trivial |-> TRUE, forbidden_absent |-> OfErasure(case, TRUE)]

ExactCounterResult(case) ==
    CASE case = "constant-lineage-complete" ->
            [Expected(case) EXCEPT !.checkpoint = "verified", !.aggregate = "verified"]
      [] case = "constant-unknown-coverage" ->
            [Expected(case) EXCEPT !.checkpoint = "unknown", !.aggregate = "unknown"]
      [] case = "duplicate-preserved-inputs" ->
            [Expected(case) EXCEPT !.aggregate = "failed", !.multiplicity = "increased",
                                   !.triad = Legs(case, {"preserve"})]
      [] case = "empty-receipt" ->
            [Expected(case) EXCEPT !.aggregate = "failed", !.names_store = FALSE,
                                   !.non_trivial = FALSE]
      [] case = "retire-entire-store" ->
            [Expected(case) EXCEPT !.aggregate = "failed",
                                   !.triad = Legs(case, {"positive", "preserve"}),
                                   !.preserved_present = FALSE, !.unrelated_present = FALSE]
===============================================================================
