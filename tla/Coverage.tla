------------------------------ MODULE Coverage ------------------------------
(***************************************************************************)
(* The four coverage results of a repair and the rules that combine them:  *)
(* what a store reports at the quarantine checkpoint, what it reports      *)
(* after the rebuild, how the two become one, and how the stores of a      *)
(* receipt become one aggregate (prototype/adapters.py, controller.py and  *)
(* receipts.py).  Everything here is a pure operator.                      *)
(***************************************************************************)
EXTENDS Naturals, Functions

CoverageResult == {"verified", "partial", "unknown", "failed"}

Rank(c) == CASE c = "verified" -> 0
             [] c = "partial"  -> 1
             [] c = "unknown"  -> 2
             [] c = "failed"   -> 3

\* Importer._conservative_coverage: `failed` dominates, then the larger rank.
ConservativeCoverage(checkpoint, final) ==
    IF Rank(checkpoint) >= Rank(final) THEN checkpoint ELSE final

\* quarantine_coverage of an inspectable store: is every descendant gated?
QuarantineCoverage(lineageComplete, descendants, gated) ==
    IF ~lineageComplete THEN "unknown"
    ELSE IF descendants \subseteq gated THEN "verified"
    ELSE IF descendants \cap gated # {} THEN "partial"
    ELSE "failed"

\* Importer._checkpoint_coverage: a limitation forbids `verified`.
CheckpointCoverage(reported, limited) ==
    IF limited /\ reported = "verified" THEN "unknown" ELSE reported

\* coverage of an inspectable store: is every descendant retired or rebuilt?
DispositionCoverage(descendants, disposed) ==
    IF descendants \subseteq disposed THEN "verified"
    ELSE IF descendants \cap disposed # {} THEN "partial"
    ELSE "failed"

\* aggregate_coverage.  `triad` maps each executed probe to whether it passed.
AggregateCoverage(stores, triad) ==
    LET results == Range(stores)
    IN  IF FALSE \in Range(triad)         THEN "failed"
        ELSE IF results = {}              THEN "unknown"
        ELSE IF "failed" \in results      THEN "failed"
        ELSE IF results = {"verified"}    THEN "verified"
        ELSE IF results \subseteq {"unknown"} THEN "unknown"
        ELSE "partial"
=============================================================================
