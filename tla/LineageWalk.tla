----------------------------- MODULE LineageWalk -----------------------------
(***************************************************************************)
(* The loop of LineageLedger.descendants: start from the direct imports,   *)
(* walk over every artifact, add one that has an input in the closure,     *)
(* and walk again until a whole lap adds nothing.  The dictionary fixes    *)
(* the order of a lap; the model allows every order.                       *)
(***************************************************************************)
EXTENDS Lineage

VARIABLES
    ledger,    \* the ledger walked, never written
    root,      \* the root asked for
    closure,   \* artifacts found so far
    changed,   \* did this lap add one?
    todo       \* artifacts this lap has not visited yet

walkVars == <<ledger, root, closure, changed, todo>>

WalkTypeOK ==
    /\ ledger \in Ledger
    /\ root \in Root
    /\ closure \subseteq Known(ledger)
    /\ changed \in BOOLEAN
    /\ todo \subseteq Known(ledger)

WalkInit ==
    /\ ledger \in Ledger
    /\ root \in Root
    /\ closure = DirectlyFrom(ledger, root)
    /\ changed = TRUE
    /\ todo = {}

NextLap ==
    /\ todo = {}
    /\ changed
    /\ changed' = FALSE
    /\ todo' = Known(ledger)
    /\ UNCHANGED <<ledger, root, closure>>

\* Variants of the test for an artifact to add: by no input, by all inputs,
\* and again although it was added before.
AddedByNone(a)  == a \notin closure
AddedByAll(a)   == a \notin closure /\ ledger[a].inputs # {} /\ ledger[a].inputs \subseteq closure
AddedAgain(a)   == ledger[a].inputs \cap closure # {}

IsAdded(a) == a \notin closure /\ ledger[a].inputs \cap closure # {}

Visit(a) ==
    /\ a \in todo
    /\ todo' = todo \ {a}
    /\ IF IsAdded(a)
       THEN closure' = closure \cup {a} /\ changed' = TRUE
       ELSE UNCHANGED <<closure, changed>>
    /\ UNCHANGED <<ledger, root>>

WalkNext == NextLap \/ \E a \in ArtifactId : Visit(a)

WalkSpec == WalkInit /\ [][WalkNext]_walkVars /\ WF_walkVars(WalkNext)

-----------------------------------------------------------------------------
Returned == todo = {} /\ ~changed

\* LineageLedger.descendants returns exactly the artifacts reachable from the
\* root through recorded derivation: what it returns is the least closed set,
\* so the gate an importer raises over it misses no registered descendant.
WalkIsExact == Returned => closure = Descendants(ledger, root)

\* Until it returns the loop never holds an artifact of another root only.
WalkIsSound == closure \subseteq Descendants(ledger, root)

\* The loop ends on every ledger, cyclic ones included.
WalkReturns == <>Returned
=============================================================================
