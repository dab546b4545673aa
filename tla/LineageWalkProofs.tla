--------------------------- MODULE LineageWalkProofs ---------------------------
(***************************************************************************)
(* The loop of LineageLedger.descendants is right on every ledger: it      *)
(* never holds an artifact that is not reachable from the root, and when   *)
(* it returns it holds all that are.  Both are proved from one inductive   *)
(* invariant, whose part about the running lap says that as long as the    *)
(* lap has added nothing, no artifact it visited still wants to be added.  *)
(***************************************************************************)
EXTENDS LineageWalk, TLAPS

\* What a lap that has added nothing so far has already established.
LapIsSettled ==
    ~changed => \A a \in Known(ledger) \ todo :
                    ledger[a].inputs \cap closure # {} => a \in closure

WalkInv ==
    /\ WalkTypeOK
    /\ DirectlyFrom(ledger, root) \subseteq closure
    /\ WalkIsSound
    /\ LapIsSettled

-----------------------------------------------------------------------------
\* The least closed set is itself closed: an artifact derived from a descendant
\* is a descendant.
LEMMA DescendantsAreClosed ==
    ASSUME NEW l, NEW r, NEW a \in Known(l),
           l[a].inputs \cap Descendants(l, r) # {}
    PROVE  a \in Descendants(l, r)
<1> DEFINE direct == DirectlyFrom(l, r)
           closed == {set \in {direct \cup more : more \in SUBSET Derived(l)} :
                         ClosedUnderDerivation(l, set)}
<1>1. a \in Derived(l)
  BY DEF Derived
<1>2. PICK b : b \in l[a].inputs /\ b \in Descendants(l, r)
  OBVIOUS
<1>3. ASSUME NEW set \in closed
      PROVE  a \in set
  <2>1. b \in set
    BY <1>2, <1>3 DEF Descendants
  <2>2. ClosedUnderDerivation(l, set)
    BY <1>3
  <2> QED
    BY <1>1, <1>2, <2>1, <2>2 DEF ClosedUnderDerivation
<1> QED
  BY <1>1, <1>3 DEF Descendants

\* A closed set that holds the direct imports, and otherwise derived artifacts
\* only, holds every descendant.
LEMMA DescendantsAreLeast ==
    ASSUME NEW l, NEW r, NEW set,
           DirectlyFrom(l, r) \subseteq set,
           set \subseteq DirectlyFrom(l, r) \cup Derived(l),
           ClosedUnderDerivation(l, set)
    PROVE  Descendants(l, r) \subseteq set
<1>1. set = DirectlyFrom(l, r) \cup (set \cap Derived(l))
  OBVIOUS
<1>2. set \in {DirectlyFrom(l, r) \cup more : more \in SUBSET Derived(l)}
  BY <1>1
<1> QED
  BY <1>2 DEF Descendants

\* The direct imports are descendants, and a descendant is registered.
LEMMA DescendantsBounds ==
    ASSUME NEW l, NEW r
    PROVE  /\ DirectlyFrom(l, r) \subseteq Descendants(l, r)
           /\ Descendants(l, r) \subseteq DirectlyFrom(l, r) \cup Derived(l)
  BY DEF Descendants

\* The loop starts from the direct imports.
LEMMA WalkInvInit == WalkInit => WalkInv
<1> SUFFICES ASSUME WalkInit PROVE WalkInv
  OBVIOUS
<1>1. WalkTypeOK
  BY DEF WalkInit, WalkTypeOK, DirectlyFrom, Known
<1>2. closure \subseteq Descendants(ledger, root)
  BY DescendantsBounds DEF WalkInit
<1> QED
  BY <1>1, <1>2 DEF WalkInit, WalkInv, WalkIsSound, LapIsSettled

\* A visit adds only what has an input in the closure, which is a descendant;
\* a lap that added nothing has no candidate left among the visited.
LEMMA WalkInvStep == WalkInv /\ [WalkNext]_walkVars => WalkInv'
<1> SUFFICES ASSUME WalkInv, [WalkNext]_walkVars PROVE WalkInv'
  OBVIOUS
<1> USE DEF WalkInv
<1>1. CASE NextLap
  BY <1>1 DEF NextLap, WalkTypeOK, WalkIsSound, LapIsSettled
<1>2. ASSUME NEW a \in ArtifactId, Visit(a)
      PROVE  WalkInv'
  <2>1. a \in Known(ledger)
    BY <1>2 DEF Visit, WalkTypeOK
  <2>2. CASE a \notin closure /\ ledger[a].inputs \cap closure # {}
    <3>1. closure' = closure \cup {a} /\ changed' = TRUE
      BY <1>2, <2>2 DEF Visit, IsAdded
    <3>2. a \in Descendants(ledger, root)
      <4>1. ledger[a].inputs \cap Descendants(ledger, root) # {}
        BY <2>2 DEF WalkIsSound
      <4> QED
        BY <2>1, <4>1, DescendantsAreClosed
    <3> QED
      BY <1>2, <2>1, <3>1, <3>2 DEF Visit, WalkTypeOK, WalkIsSound, LapIsSettled
  <2>3. CASE ~(a \notin closure /\ ledger[a].inputs \cap closure # {})
    <3>1. UNCHANGED <<closure, changed>>
      BY <1>2, <2>3 DEF Visit, IsAdded
    <3>2. LapIsSettled'
      BY <1>2, <2>3, <3>1 DEF Visit, LapIsSettled
    <3> QED
      BY <1>2, <3>1, <3>2 DEF Visit, WalkTypeOK, WalkIsSound
  <2> QED
    BY <2>2, <2>3
<1>3. CASE UNCHANGED walkVars
  BY <1>3 DEF walkVars, WalkTypeOK, WalkIsSound, LapIsSettled
<1> QED
  BY <1>1, <1>2, <1>3 DEF WalkNext

\* At the return the closure is closed, so it holds every descendant.
LEMMA WalkInvIsExact == WalkInv => WalkIsExact
<1> SUFFICES ASSUME WalkInv, Returned PROVE closure = Descendants(ledger, root)
  BY DEF WalkIsExact
<1>1. ClosedUnderDerivation(ledger, closure)
  BY DEF WalkInv, LapIsSettled, Returned, ClosedUnderDerivation, Derived
<1>2. closure \subseteq DirectlyFrom(ledger, root) \cup Derived(ledger)
  BY DescendantsBounds DEF WalkInv, WalkIsSound
<1> QED
  BY <1>1, <1>2, DescendantsAreLeast DEF WalkInv, WalkIsSound

-----------------------------------------------------------------------------
\* The inductive invariant of the loop.
THEOREM WalkInvariant == WalkSpec => []WalkInv
  BY WalkInvInit, WalkInvStep, PTL DEF WalkSpec

\* The loop never gates an artifact that does not descend from the root.
THEOREM WalkSoundness == WalkSpec => []WalkIsSound
<1>1. WalkInv => WalkIsSound
  BY DEF WalkInv
<1> QED
  BY WalkInvariant, <1>1, PTL

\* The loop returns exactly the descendants, on every ledger.
THEOREM WalkExactness == WalkSpec => []WalkIsExact
  BY WalkInvariant, WalkInvIsExact, PTL

\* The loop only ever holds registered artifacts.
THEOREM WalkTypes == WalkSpec => []WalkTypeOK
<1>1. WalkInv => WalkTypeOK
  BY DEF WalkInv
<1> QED
  BY WalkInvariant, <1>1, PTL
================================================================================
