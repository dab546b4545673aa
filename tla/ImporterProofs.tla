---------------------------- MODULE ImporterProofs ----------------------------
(***************************************************************************)
(* What holds of an importer for every ledger, feed, index and schedule    *)
(* of interruptions, in three parts.                                       *)
(*                                                                         *)
(* 1. Everything rests on TypeOK /\ RepairInv, which is inductive.  The    *)
(* calls a host makes between repairs move the ledger only while no repair *)
(* runs; a repair writes contents and flags, which no walk over the        *)
(* lineage reads; so the set of descendants a checkpoint listed is the set *)
(* the repair still has in front of it at its end.                         *)
(*                                                                         *)
(* 2. An importer implements the lifecycle of an erratum.  Quarantine of   *)
(* an event the host holds no checkpoint of is Gate, the start of a repair *)
(* Begin, its interruption Fail, its receipt Attest; all else stutters.    *)
(* Beside the importer's own invariants this needs that a checkpoint is    *)
(* only ever held for the event observed at its sequence, at most one past *)
(* the last applied; the lifecycle's promise follows from the same facts.  *)
(*                                                                         *)
(* 3. What is served between repairs is clean in the circumstances under   *)
(* which the code keeps it so, which are hypotheses of these theorems.     *)
(***************************************************************************)
EXTENDS Importer, TLAPS

IInv == TypeOK /\ RepairInv

-----------------------------------------------------------------------------
\* Facts about the lineage operators.

\* A registered artifact has a record.
LEMMA KnownHasRecord ==
    ASSUME NEW l \in Ledger, NEW a \in Known(l)
    PROVE  a \in ArtifactId /\ l[a] \in ArtifactRecord
  BY DEF Known, Ledger

\* Rebuilding writes a content and leaves the lineage alone.
LEMMA SetContentKeepsLineage ==
    ASSUME NEW l \in Ledger, NEW a \in Known(l), NEW c \in Text
    PROVE  LET m == SetContent(l, a, c)
           IN  /\ m \in Ledger
               /\ Known(m) = Known(l)
               /\ \A b \in Known(l) : m[b].inputs = l[b].inputs /\ m[b].root = l[b].root
               /\ \A r : Descendants(m, r) = Descendants(l, r)
<1> DEFINE m == SetContent(l, a, c)
<1>1. l[a] \in ArtifactRecord /\ a \in ArtifactId
  BY KnownHasRecord
<1>2. [l[a] EXCEPT !.content = c] \in ArtifactRecord
  BY <1>1 DEF ArtifactRecord
<1>3. m = [l EXCEPT ![a] = [l[a] EXCEPT !.content = c]]
  BY DEF SetContent
<1>4. m \in Ledger
  BY <1>2, <1>3 DEF Ledger
<1>5. /\ m[a].inputs = l[a].inputs /\ m[a].root = l[a].root /\ m[a] # None
      /\ \A b \in ArtifactId \ {a} : m[b] = l[b]
  BY <1>1, <1>2, <1>3, LineageAssumption DEF Ledger, ArtifactRecord
<1>6. Known(m) = Known(l)
  BY <1>1, <1>5 DEF Known
<1>7. \A b \in Known(l) : m[b].inputs = l[b].inputs /\ m[b].root = l[b].root
  BY <1>5 DEF Known
<1>8. ASSUME NEW r PROVE Descendants(m, r) = Descendants(l, r)
  <2>1. DirectlyFrom(m, r) = DirectlyFrom(l, r)
    BY <1>6, <1>7 DEF DirectlyFrom
  <2>2. Derived(m) = Derived(l)
    BY <1>6, <1>7 DEF Derived
  <2>3. \A set : ClosedUnderDerivation(m, set) <=> ClosedUnderDerivation(l, set)
    BY <1>7, <2>2 DEF ClosedUnderDerivation, Derived
  <2> QED
    BY <2>1, <2>2, <2>3 DEF Descendants
<1> QED
  BY <1>4, <1>6, <1>7, <1>8

\* A rebuilt text is a text.
LEMMA JoinedTextType ==
    ASSUME NEW l \in Ledger, NEW inputs \in SUBSET Known(l),
           NEW replacement \in Prop \cup {None}
    PROVE  JoinedText(l, inputs, replacement) \in Text
<1>1. \A a \in inputs : l[a].content \subseteq Prop
  BY KnownHasRecord DEF ArtifactRecord, Text
<1> QED
  BY <1>1 DEF JoinedText, Text

\* Registering an import or a derivation keeps the ledger rooted and forgets
\* no artifact.
LEMMA RegisterKeepsRooted ==
    ASSUME NEW l \in Ledger, IsRooted(l), NEW a \in ArtifactId,
           NEW record \in ArtifactRecord,
           record.inputs \subseteq Known(l), record.root # None => record.inputs = {}
    PROVE  LET m == [l EXCEPT ![a] = record]
           IN  /\ m \in Ledger /\ IsRooted(m)
               /\ Known(l) \subseteq Known(m)
<1> DEFINE m == [l EXCEPT ![a] = record]
<1>1. m \in Ledger
  BY DEF Ledger
<1>2. m[a] = record /\ record # None /\ \A b \in ArtifactId \ {a} : m[b] = l[b]
  BY LineageAssumption DEF Ledger
<1>3. Known(l) \subseteq Known(m)
  BY <1>2 DEF Known
<1>4. ASSUME NEW b \in Known(m)
      PROVE  /\ m[b].inputs \subseteq Known(m)
             /\ m[b].root # None => m[b].inputs = {}
  <2>1. CASE b = a
    BY <1>2, <1>3, <2>1
  <2>2. CASE b # a
    <3>1. b \in Known(l) /\ m[b] = l[b]
      BY <1>2, <2>2 DEF Known
    <3> QED
      BY <1>3, <3>1 DEF IsRooted
  <2> QED
    BY <2>1, <2>2
<1> QED
  BY <1>1, <1>3, <1>4 DEF IsRooted

\* A descendant is registered.
LEMMA DescendantsAreKnown ==
    ASSUME NEW l, NEW r
    PROVE  Descendants(l, r) \subseteq Known(l)
  BY DEF Descendants, DirectlyFrom, Derived

-----------------------------------------------------------------------------
\* Facts about the stores.

\* What a store enumerates are items whose source is registered.
LEMMA EnumerateType ==
    ASSUME TypeOK, RepairInv, NEW r
    PROVE  /\ Enumerate(r) \subseteq Item
           /\ \A i \in Enumerate(r) : Source(i) \in Known(ledger)
           /\ \A i \in Enumerate(r) : i \notin Entry => i \in Known(ledger)
<1>1. Descendants(ledger, r) \subseteq Known(ledger)
  BY DescendantsAreKnown
<1>2. Known(ledger) \subseteq ArtifactId
  BY DEF Known
<1>3. \A a \in ArtifactId : a \notin Entry
  BY ImporterAssumption DEF Item
<1> QED
  BY <1>1, <1>2, <1>3 DEF Enumerate, Source, Item, TypeOK, RepairInv

\* An accepted verdict is an authentic event at the next sequence.
LEMMA AcceptedIsNext ==
    ASSUME NEW e, Observable(e)
    PROVE  /\ KeyIsActive(e) /\ SignatureVerifies(e)
           /\ e.seq = lastSequence + 1
           /\ observed[e.seq] \in {None, e}
  BY DEF Observable, Verdict, LeavesGap

\* Coverage results stay coverage results.
LEMMA CoverageTypes ==
    /\ \A complete, ds, g : QuarantineCoverage(complete, ds, g) \in CoverageResult
    /\ \A c \in CoverageResult : \A limited : CheckpointCoverage(c, limited) \in CoverageResult
    /\ \A stores, triad : AggregateCoverage(stores, triad) \in CoverageResult
  BY DEF QuarantineCoverage, CheckpointCoverage, AggregateCoverage, CoverageResult

\* An aggregate is `verified` only if every store and every probe is.
LEMMA AggregateVerified ==
    ASSUME NEW stores, NEW triad, AggregateCoverage(stores, triad) = "verified"
    PROVE  /\ \A s \in DOMAIN stores : stores[s] = "verified"
           /\ \A leg \in DOMAIN triad : triad[leg] # FALSE
<1>1. Range(stores) = {"verified"}
  BY DEF AggregateCoverage
<1>2. FALSE \notin Range(triad)
  BY DEF AggregateCoverage
<1> QED
  BY <1>1, <1>2 DEF Range

\* What quarantine records is a checkpoint.
LEMMA CheckpointType ==
    ASSUME TypeOK, RepairInv, NEW r, NEW g
    PROVE  [state    |-> InspectableState,
            items    |-> Enumerate(r),
            coverage |-> CoverageAtCheckpoint(r, g)] \in Checkpoint
<1>1. CoverageAtCheckpoint(r, g) \in [Inspectable -> CoverageResult]
  BY CoverageTypes DEF CoverageAtCheckpoint
<1>2. \A a \in ArtifactId : ledger[a] # None => ledger[a].content \in Text
  BY DEF TypeOK, Ledger, ArtifactRecord
<1>3. Known(ledger) \ retired \subseteq ArtifactId
  BY DEF Known
<1>4. InspectableState \in [contents : [ArtifactId -> {None} \cup Text],
                            live     : SUBSET ArtifactId,
                            entries  : [Entry -> {None} \cup Text]]
  BY <1>2, <1>3 DEF InspectableState, TypeOK
<1> QED
  BY <1>1, <1>4, EnumerateType DEF Checkpoint
-----------------------------------------------------------------------------
\* Type correctness.

\* The types hold of a fresh importer.
LEMMA TypeInit == Init => TypeOK
<1> SUFFICES ASSUME Init PROVE TypeOK
  OBVIOUS
<1>1. text \in [Entry -> {None} \cup Text]
  <2>1. \A v \in SeedIndex : SeedLedger[SourceOf[v]].content \in Text
    BY ImporterAssumption, KnownHasRecord DEF ArtifactRecord
  <2> QED
    BY <2>1 DEF Init
<1>2. job \in [phase : Phase, event : {None} \cup Event,
               todo : SUBSET Item, dropped : SUBSET ArtifactId]
  BY DEF Init, Idle, Phase
<1> QED
  BY <1>1, <1>2, ImporterAssumption DEF Init, TypeOK

\* Every operation keeps the types, given the invariant of a repair.
LEMMA TypeStep == TypeOK /\ RepairInv /\ [Next]_vars => TypeOK'
<1> SUFFICES ASSUME TypeOK, RepairInv, [Next]_vars PROVE TypeOK'
  OBVIOUS
<1>1. ASSUME NEW e \in Event, Quarantine(e) PROVE TypeOK'
  <2>1. observed' \in [Sequence -> {None} \cup Event]
    BY <1>1 DEF Quarantine, Observe, TypeOK
  <2>2. checkpoint' \in [Event -> {None} \cup Checkpoint]
    <3>1. checkpoint' = [checkpoint EXCEPT ![e] =
                [state    |-> InspectableState,
                 items    |-> Enumerate(e.root),
                 coverage |-> CoverageAtCheckpoint(e.root, gated \cup Enumerate(e.root))]]
      BY <1>1 DEF Quarantine
    <3> QED
      BY <3>1, CheckpointType DEF TypeOK
  <2>3. gated' \subseteq Item
    BY <1>1, EnumerateType DEF Quarantine, TypeOK
  <2> QED
    BY <1>1, <2>1, <2>2, <2>3 DEF Quarantine, TypeOK
<1>2. ASSUME NEW e \in Event, BeginRepair(e) PROVE TypeOK'
  <2>1. observed' \in [Sequence -> {None} \cup Event]
    BY <1>2 DEF BeginRepair, Observe, TypeOK
  <2>2. checkpoint[e].items \subseteq Item
    BY <1>2, EnumerateType DEF BeginRepair, CheckpointIsValid, AreAllGated
  <2>3. job' \in [phase : Phase, event : {None} \cup Event,
                  todo : SUBSET Item, dropped : SUBSET ArtifactId]
    BY <1>2, <2>2 DEF BeginRepair, Phase
  <2> QED
    BY <1>2, <2>1, <2>3 DEF BeginRepair, storeVars, TypeOK
<1>3. ASSUME NEW i \in Item, RetireItem(i) PROVE TypeOK'
  <2>1. Source(i) \in Known(ledger) /\ (i \notin Entry => i \in Known(ledger))
    BY <1>3, EnumerateType
      DEF RetireItem, IsNext, RepairInv, RepairIsGrounded
  <2>2. job' \in [phase : Phase, event : {None} \cup Event,
                  todo : SUBSET Item, dropped : SUBSET ArtifactId]
    BY <1>3, <2>1 DEF RetireItem, TypeOK, Known
  <2>3. history' \subseteq [item : ArtifactId, content : Text]
    <3>1. i \notin Entry => i \in ArtifactId /\ ledger[i].content \in Text
      BY <2>1, KnownHasRecord DEF ArtifactRecord, TypeOK
    <3> QED
      BY <1>3, <3>1 DEF RetireItem, TypeOK
  <2>4. text' \in [Entry -> {None} \cup Text]
    BY <1>3 DEF RetireItem, TypeOK
  <2> QED
    BY <1>3, <2>2, <2>3, <2>4 DEF RetireItem, feedVars, TypeOK
<1>4. CASE EndPassOne
  <2>1. job.phase = "retire" /\ job.event \in Event
    BY <1>4 DEF EndPassOne, RepairInv, RepairIsGrounded
  <2>2. checkpoint[job.event].items \subseteq Item
    BY <2>1, EnumerateType DEF RepairInv, RepairIsGrounded
  <2>3. job' \in [phase : Phase, event : {None} \cup Event,
                  todo : SUBSET Item, dropped : SUBSET ArtifactId]
    BY <1>4, <2>2 DEF EndPassOne, TypeOK, Phase
  <2> QED
    BY <1>4, <2>3 DEF EndPassOne, storeVars, feedVars, TypeOK
<1>5. ASSUME NEW i \in Item, RebuildItem(i) PROVE TypeOK'
  <2> DEFINE joined == JoinedText(ledger, SurvivingInputs(i), job.event.replacement)
  <2>1. /\ Source(i) \in Known(ledger) /\ (i \notin Entry => i \in Known(ledger))
        /\ job.event \in Event
    BY <1>5, EnumerateType
      DEF RebuildItem, IsNext, RepairInv, RepairIsGrounded
  <2>2. SurvivingInputs(i) \in SUBSET Known(ledger)
    BY <2>1 DEF SurvivingInputs, RepairInputs, RepairInv, IsRooted
  <2>3. joined \in Text
    BY <2>1, <2>2, JoinedTextType, ImporterAssumption DEF IsErratum, TypeOK
  <2>4. ledger' \in Ledger
    BY <1>5, <2>1, <2>3, SetContentKeepsLineage DEF RebuildItem, TypeOK
  <2>5. text' \in [Entry -> {None} \cup Text]
    BY <1>5, <2>3 DEF RebuildItem, TypeOK
  <2>6. job' \in [phase : Phase, event : {None} \cup Event,
                  todo : SUBSET Item, dropped : SUBSET ArtifactId]
    BY <1>5 DEF RebuildItem, TypeOK
  <2> QED
    BY <1>5, <2>4, <2>5, <2>6 DEF RebuildItem, LiftGate, feedVars, TypeOK
<1>6. CASE Attest
  <2>1. job.event \in Event
    BY <1>6 DEF Attest, RepairInv, RepairIsGrounded
  <2>2. job.event.seq \in Nat /\ (job.event.seq = lastSequence + 1)
    BY <1>6, <2>1 DEF Attest, RepairInv, RepairIsGrounded, TypeOK
  <2>3. \A rc \in receipts' : rc.event \in Event /\ rc.aggregate \in CoverageResult
    BY <1>6, <2>1, CoverageTypes DEF Attest, TypeOK
  <2>4. job' \in [phase : Phase, event : {None} \cup Event,
                  todo : SUBSET Item, dropped : SUBSET ArtifactId]
    BY <1>6 DEF Attest, Idle, Phase
  <2>5. applied' \in [Root -> Nat]
    BY <1>6, <2>2 DEF Attest, TypeOK
  <2> QED
    BY <1>6, <2>2, <2>3, <2>4, <2>5 DEF Attest, storeVars, TypeOK
<1>7. CASE Interrupt
  <2>1. job' \in [phase : Phase, event : {None} \cup Event,
                  todo : SUBSET Item, dropped : SUBSET ArtifactId]
    BY <1>7 DEF Interrupt, Idle, Phase
  <2>2. interrupts' \in 0..MaxInterrupts
    BY <1>7, ImporterAssumption DEF Interrupt, TypeOK
  <2> QED
    BY <1>7, <2>1, <2>2 DEF Interrupt, storeVars, feedVars, TypeOK
<1>8. ASSUME NEW r \in Root, NEW s \in Stamp, Reimport(r, s) PROVE TypeOK'
  <2>1. [root |-> r, inputs |-> {}, content |-> ExportText[r][s]] \in ArtifactRecord
    BY ImporterAssumption DEF ArtifactRecord
  <2>2. ledger' \in Ledger
    BY <1>8, <2>1 DEF Reimport, RegisterImport, Ledger, TypeOK
  <2> QED
    BY <1>8, <2>2 DEF Reimport, feedVars, TypeOK
<1>9. ASSUME NEW a \in DOMAIN Derivation, Derive(a) PROVE TypeOK'
  <2>1. JoinedText(ledger, Derivation[a], None) \in Text
    BY <1>9, JoinedTextType DEF Derive, InputsKnown, TypeOK
  <2>2. [root |-> None, inputs |-> Derivation[a],
         content |-> JoinedText(ledger, Derivation[a], None)] \in ArtifactRecord
    BY <2>1, ImporterAssumption DEF ArtifactRecord
  <2>3. ledger' \in Ledger
    BY <1>9, <2>2 DEF Derive, RegisterDerivation, Ledger, TypeOK
  <2> QED
    BY <1>9, <2>3 DEF Derive, feedVars, TypeOK
<1>10. ASSUME NEW v \in Entry, Index(v) PROVE TypeOK'
  <2> DEFINE new == IF SourceOf[v] \in Known(ledger)
                    THEN ledger[SourceOf[v]].content ELSE LooseText[v]
  <2>1. new \in Text
    <3>1. SourceOf[v] \in Known(ledger) => ledger[SourceOf[v]].content \in Text
      BY KnownHasRecord DEF ArtifactRecord, TypeOK
    <3>2. LooseText[v] \in Text
      BY ImporterAssumption
    <3> QED
      BY <3>1, <3>2
  <2>3. text' = [text EXCEPT ![v] = new]
    BY <1>10 DEF Index
  <2> HIDE DEF new
  <2>2. text' \in [Entry -> {None} \cup Text]
    BY <2>1, <2>3 DEF TypeOK
  <2> QED
    BY <1>10, <2>2 DEF Index, feedVars, TypeOK
<1>11. CASE UNCHANGED vars
  BY <1>11 DEF vars, storeVars, feedVars, TypeOK
<1> QED
  BY <1>1, <1>2, <1>3, <1>4, <1>5, <1>6, <1>7, <1>8, <1>9, <1>10, <1>11
    DEF Next, RepairStep
-----------------------------------------------------------------------------
\* The invariant of a repair.

\* A step that leaves the ledger and the index alone leaves every walk alone.
LEMMA SameLineageSameItems ==
    ASSUME ledger' = ledger, indexed' = indexed
    PROVE  /\ \A r : Enumerate(r)' = Enumerate(r)
           /\ \A i : RepairInputs(i)' = RepairInputs(i)
           /\ \A s, r : LineageComplete(s, r)' <=> LineageComplete(s, r)
  BY DEF Enumerate, RepairInputs, Source, LineageComplete

\* A checkpoint vouches for no store of incomplete lineage.
LEMMA VerifiedIsComplete ==
    ASSUME NEW r, NEW g, NEW s \in Inspectable,
           CoverageAtCheckpoint(r, g)[s] = "verified"
    PROVE  LineageComplete(s, r)
  BY DEF CoverageAtCheckpoint, CheckpointCoverage, QuarantineCoverage

\* No repair is in progress in a fresh importer.
LEMMA RepairInit == Init => RepairInv
  BY ImporterAssumption DEF Init, RepairInv, Idle

\* A step between repairs preserves the invariant when it keeps the ledger
\* rooted and what was observed.
LEMMA IdleStep ==
    ASSUME RepairInv, job' = Idle, IsRooted(ledger'), observed' = observed
    PROVE  RepairInv'
  BY DEF RepairInv, Idle

\* Every operation preserves the invariant of a repair: the checks of
\* BeginRepair establish it, both passes keep it, the rest is done idle.
LEMMA RepairStepInv == TypeOK /\ RepairInv /\ [Next]_vars => RepairInv'
<1> SUFFICES ASSUME TypeOK, RepairInv, [Next]_vars PROVE RepairInv'
  OBVIOUS
<1>1. ASSUME NEW e \in Event, Quarantine(e) PROVE RepairInv'
  <2>1. \A s \in Sequence : observed'[s] # None => observed'[s].seq = s
    BY <1>1 DEF Quarantine, Observe, TypeOK, RepairInv
  <2>2. job' = Idle /\ ledger' = ledger /\ indexed' = indexed
    BY <1>1 DEF Quarantine
  <2> QED
    BY <2>1, <2>2 DEF RepairInv, Idle
<1>2. ASSUME NEW e \in Event, BeginRepair(e) PROVE RepairInv'
  <2>1. \A s \in Sequence : observed'[s] # None => observed'[s].seq = s
    BY <1>2 DEF BeginRepair, Observe, TypeOK, RepairInv
  <2>2. /\ job'.phase = "retire" /\ job'.event = e /\ job'.dropped = {}
        /\ job'.todo = {i \in checkpoint[e].items : RepairInputs(i) = {}}
        /\ ledger' = ledger /\ indexed' = indexed
        /\ gated' = gated /\ retired' = retired
    BY <1>2 DEF BeginRepair, storeVars, IsDirect
  <2>3. checkpoint[e] # None /\ checkpoint[e].items = Enumerate(e.root)
        /\ checkpoint[e].items \subseteq gated
    BY <1>2 DEF BeginRepair, CheckpointIsValid, AreAllGated
  <2>7. \A s \in Inspectable :
            checkpoint[e].coverage[s] = "verified" => LineageComplete(s, e.root)
    BY <1>2, VerifiedIsComplete DEF BeginRepair, CheckpointIsValid
  <2>4. observed'[e.seq] = e
    BY <1>2 DEF BeginRepair, Observe, TypeOK, Sequence
  <2>5. RepairIsGrounded'
    BY <1>2, <2>2, <2>3, <2>4, <2>7, AcceptedIsNext, SameLineageSameItems
      DEF BeginRepair, RepairIsGrounded
  <2>6. PassOneInv'
    BY <2>2, <2>3, SameLineageSameItems DEF PassOneInv
  <2> QED
    BY <2>1, <2>2, <2>5, <2>6 DEF RepairInv
<1>3. ASSUME NEW i \in Item, RetireItem(i) PROVE RepairInv'
  <2>1. /\ job.phase = "retire" /\ i \in job.todo
        /\ job'.phase = "retire" /\ job'.event = job.event
        /\ job'.todo = job.todo \ {i} /\ job'.dropped = job.dropped \cup {Source(i)}
        /\ ledger' = ledger /\ indexed' = indexed /\ gated' = gated
        /\ retired' = retired \cup {i}
        /\ observed' = observed /\ lastSequence' = lastSequence
        /\ checkpoint' = checkpoint
    BY <1>3 DEF RetireItem, IsNext, feedVars, TypeOK
  <2>2. i \in Enumerate(job.event.root) /\ RepairInputs(i) = {}
    BY <2>1 DEF RepairInv, RepairIsGrounded, PassOneInv
  <2>3. RepairIsGrounded'
    BY <2>1, <2>2, SameLineageSameItems
      DEF RepairInv, RepairIsGrounded, RepairInputs
  <2>4. PassOneInv'
    <3> SUFFICES ASSUME NEW j \in Enumerate(job.event.root)
                 PROVE  /\ j \in gated
                        /\ RepairInputs(j) = {} <=>
                              (j \in job.todo \ {i} \/ Source(j) \in job.dropped \cup {Source(i)})
                        /\ RepairInputs(j) = {} => j \in (job.todo \ {i}) \cup (retired \cup {i})
      BY <2>1, SameLineageSameItems DEF PassOneInv, Source
    <3>1. Source(j) = Source(i) => RepairInputs(j) = {}
      BY <2>2 DEF RepairInputs
    <3>2. /\ j \in gated
          /\ RepairInputs(j) = {} <=> (j \in job.todo \/ Source(j) \in job.dropped)
          /\ RepairInputs(j) = {} => j \in job.todo \cup retired
      BY <2>1 DEF RepairInv, PassOneInv
    <3> QED
      BY <3>1, <3>2
  <2> QED
    BY <2>1, <2>3, <2>4 DEF RepairInv
<1>4. CASE EndPassOne
  <2>1. /\ job.phase = "retire" /\ job.todo = {}
        /\ job'.phase = "rebuild" /\ job'.event = job.event
        /\ job'.dropped = job.dropped
        /\ job'.todo = {i \in checkpoint[job.event].items : Source(i) \notin job.dropped}
        /\ ledger' = ledger /\ indexed' = indexed /\ gated' = gated
        /\ retired' = retired /\ observed' = observed
        /\ lastSequence' = lastSequence /\ checkpoint' = checkpoint
    BY <1>4 DEF EndPassOne, storeVars, feedVars, TypeOK
  <2>2. checkpoint[job.event].items = Enumerate(job.event.root)
    BY <2>1 DEF RepairInv, RepairIsGrounded
  <2>3. RepairIsGrounded'
    BY <2>1, <2>2, SameLineageSameItems DEF RepairInv, RepairIsGrounded
  <2>4. PassTwoInv'
    <3> SUFFICES ASSUME NEW j \in Enumerate(job.event.root)
                 PROVE  /\ RepairInputs(j) = {} <=> Source(j) \in job.dropped
                        /\ RepairInputs(j) = {} => j \in retired \cap gated
                        /\ j \in job'.todo => j \in gated /\ RepairInputs(j) # {}
                        /\ j \in gated => j \in job'.todo \/ RepairInputs(j) = {}
      BY <2>1, SameLineageSameItems DEF PassTwoInv, Source
    <3>1. /\ j \in gated
          /\ RepairInputs(j) = {} <=> Source(j) \in job.dropped
          /\ RepairInputs(j) = {} => j \in retired
      BY <2>1 DEF RepairInv, PassOneInv
    <3> QED
      BY <2>1, <2>2, <3>1
  <2> QED
    BY <2>1, <2>3, <2>4 DEF RepairInv
<1>5. ASSUME NEW i \in Item, RebuildItem(i) PROVE RepairInv'
  <2> DEFINE joined == JoinedText(ledger, SurvivingInputs(i), job.event.replacement)
  <2>1. /\ job.phase = "rebuild" /\ i \in job.todo
        /\ job'.phase = "rebuild" /\ job'.event = job.event
        /\ job'.todo = job.todo \ {i} /\ job'.dropped = job.dropped
        /\ indexed' = indexed /\ gated' = gated \ {i} /\ retired' = retired
        /\ observed' = observed /\ lastSequence' = lastSequence
        /\ checkpoint' = checkpoint
    BY <1>5 DEF RebuildItem, IsNext, LiftGate, feedVars, TypeOK
  <2>2. /\ job.event \in Event /\ i \in Enumerate(job.event.root)
        /\ RepairInputs(i) # {}
    BY <2>1 DEF RepairInv, RepairIsGrounded, PassTwoInv
  <2>3. Source(i) \in Known(ledger) /\ (i \notin Entry => i \in Known(ledger))
    BY <2>2, EnumerateType
  <2>4. joined \in Text
    BY <2>2, <2>3, JoinedTextType, ImporterAssumption
      DEF IsErratum, SurvivingInputs, RepairInputs, RepairInv, IsRooted, TypeOK
  <2>5. /\ Known(ledger') = Known(ledger)
        /\ \A b \in Known(ledger) : /\ ledger'[b].inputs = ledger[b].inputs
                                    /\ ledger'[b].root = ledger[b].root
        /\ \A r : Descendants(ledger', r) = Descendants(ledger, r)
    <3>1. CASE i \in Entry
      BY <1>5, <3>1 DEF RebuildItem
    <3>2. CASE i \notin Entry
      <4>1. ledger' = SetContent(ledger, i, joined)
        BY <1>5, <3>2 DEF RebuildItem
      <4>2. ledger \in Ledger /\ i \in Known(ledger)
        BY <2>3, <3>2 DEF TypeOK
      <4> HIDE DEF joined
      <4> QED
        BY <2>4, <4>1, <4>2, SetContentKeepsLineage
    <3> QED
      BY <3>1, <3>2
  <2>6. /\ \A r : Enumerate(r)' = Enumerate(r)
        /\ \A j \in Enumerate(job.event.root) : RepairInputs(j)' = RepairInputs(j)
    <3>1. \A j \in Enumerate(job.event.root) : Source(j) \in Known(ledger)
      BY EnumerateType
    <3> QED
      BY <2>1, <2>5, <3>1 DEF Enumerate, RepairInputs, Source
  <2>7. IsRooted(ledger)'
    BY <2>5 DEF RepairInv, IsRooted
  <2>10. \A s, r : LineageComplete(s, r) => LineageComplete(s, r)'
    BY <2>1, <2>5 DEF LineageComplete, RootsSeen
  <2>8. RepairIsGrounded'
    <3>1. \A a \in job.dropped : ledger[a].inputs = {} => ledger'[a].inputs = {}
      <4>1. CASE i \in Entry
        BY <1>5, <4>1 DEF RebuildItem
      <4>2. CASE i \notin Entry
        BY <1>5, <2>3, <4>2 DEF RebuildItem, SetContent, TypeOK, Ledger, ArtifactRecord, Known
      <4> QED
        BY <4>1, <4>2
    <3> QED
      BY <2>1, <2>6, <2>10, <3>1 DEF RepairInv, RepairIsGrounded
  <2>9. PassTwoInv'
    BY <2>1, <2>2, <2>6 DEF RepairInv, PassTwoInv, Source
  <2> QED
    BY <2>1, <2>5, <2>7, <2>8, <2>9 DEF RepairInv
<1>6. CASE Attest
  BY <1>6, IdleStep DEF Attest, storeVars, RepairInv
<1>7. CASE Interrupt
  BY <1>7, IdleStep DEF Interrupt, storeVars, feedVars, RepairInv
<1>8. ASSUME NEW r \in Root, NEW s \in Stamp, Reimport(r, s) PROVE RepairInv'
  <2> DEFINE record == [root |-> r, inputs |-> {}, content |-> ExportText[r][s]]
  <2>1. record \in ArtifactRecord /\ ReimportId[s] \in ArtifactId
    BY ImporterAssumption DEF ArtifactRecord
  <2>2. IsRooted(ledger') /\ Known(ledger) \subseteq Known(ledger')
    BY <1>8, <2>1, RegisterKeepsRooted DEF Reimport, RegisterImport, RepairInv, TypeOK
  <2> QED
    BY <1>8, <2>2, IdleStep DEF Reimport, feedVars, RepairInv
<1>9. ASSUME NEW a \in DOMAIN Derivation, Derive(a) PROVE RepairInv'
  <2> DEFINE record == [root |-> None, inputs |-> Derivation[a],
                        content |-> JoinedText(ledger, Derivation[a], None)]
  <2>1. record \in ArtifactRecord /\ a \in ArtifactId
    BY <1>9, JoinedTextType, ImporterAssumption DEF Derive, InputsKnown, ArtifactRecord, TypeOK
  <2>2. record.inputs \subseteq Known(ledger) /\ ~(record.root # None)
    BY <1>9 DEF Derive, InputsKnown
  <2>3. IsRooted(ledger') /\ Known(ledger) \subseteq Known(ledger')
    BY <1>9, <2>1, <2>2, RegisterKeepsRooted DEF Derive, RegisterDerivation, RepairInv, TypeOK
  <2> QED
    BY <1>9, <2>3, IdleStep DEF Derive, feedVars, RepairInv
<1>10. ASSUME NEW v \in Entry, Index(v) PROVE RepairInv'
  BY <1>10, IdleStep DEF Index, feedVars, RepairInv
<1>11. CASE UNCHANGED vars
  BY <1>11, SameLineageSameItems
    DEF vars, storeVars, feedVars, RepairInv, RepairIsGrounded, PassOneInv, PassTwoInv, Source
<1> QED
  BY <1>1, <1>2, <1>3, <1>4, <1>5, <1>6, <1>7, <1>8, <1>9, <1>10, <1>11
    DEF Next, RepairStep

\* The inductive invariant: the types and what a repair in progress relies on.
THEOREM ImporterInvariant == Spec => []IInv
<1>1. Init => IInv
  BY TypeInit, RepairInit DEF IInv
<1>2. IInv /\ [Next]_vars => IInv'
  BY TypeStep, RepairStepInv DEF IInv
<1> QED
  BY <1>1, <1>2, PTL DEF Spec

\* What a repair in progress relies on holds in every state.
THEOREM RepairsAreGrounded == Spec => []RepairInv
<1>1. IInv => RepairInv
  BY DEF IInv
<1> QED
  BY ImporterInvariant, <1>1, PTL

\* Every variable of an importer keeps its type.
THEOREM ImporterTypes == Spec => []TypeOK
<1>1. IInv => TypeOK
  BY DEF IInv
<1> QED
  BY ImporterInvariant, <1>1, PTL

\* A rebuild works on gated state only, whatever a host derives, indexes,
\* re-exports or observes between the quarantine and the repair.
THEOREM RebuildsAreGated == Spec => []RebuildsOnlyGatedState
<1>1. IInv => RebuildsOnlyGatedState
  <2> SUFFICES ASSUME IInv, job # Idle, NEW i \in Enumerate(job.event.root)
               PROVE  \/ i \in gated
                      \/ job.phase = "rebuild" /\ i \notin job.todo /\ Source(i) \notin job.dropped
    BY DEF RebuildsOnlyGatedState
  <2>1. job.phase = "retire" \/ job.phase = "rebuild"
    BY DEF IInv, TypeOK, RepairInv, Phase
  <2> QED
    BY <2>1 DEF IInv, RepairInv, PassOneInv, PassTwoInv
<1> QED
  BY ImporterInvariant, <1>1, PTL

-----------------------------------------------------------------------------
\* The sequence discipline.

\* Adding one to an interval of sequences.
LEMMA NextInterval == \A n \in Nat : 1..(n + 1) = (1..n) \cup {n + 1}
  OBVIOUS

\* A receipt is added only by Attest, for the event observed at the next
\* sequence, and Attest advances the sequence to it.
LEMMA ReceiptsStep == IInv /\ ReceiptsFollowTheFeed /\ [Next]_vars => ReceiptsFollowTheFeed'
<1> SUFFICES ASSUME IInv, ReceiptsFollowTheFeed, [Next]_vars
             PROVE  ReceiptsFollowTheFeed'
  OBVIOUS
<1> USE DEF IInv
<1>1. CASE Attest
  <2> DEFINE e  == job.event
             new == [event     |-> e,
                     stores    |-> ReceiptStores(e),
                     triad     |-> Triad(e),
                     aggregate |-> AggregateCoverage(ReceiptStores(e), Triad(e))]
  <2>1. /\ receipts' = receipts \cup {new} /\ new.event = e
        /\ lastSequence' = e.seq /\ observed' = observed
    BY <1>1 DEF Attest
  <2>2. /\ e.seq = lastSequence + 1 /\ lastSequence \in Nat
        /\ observed[e.seq] = e /\ KeyIsActive(e) /\ SignatureVerifies(e)
    BY <1>1 DEF Attest, RepairInv, RepairIsGrounded, TypeOK
  <2> HIDE DEF new, e
  <2>3. {rc.event.seq : rc \in receipts'} = 1..lastSequence'
    BY <2>1, <2>2, NextInterval DEF ReceiptsFollowTheFeed
  <2>4. \A rc \in receipts : rc.event.seq # e.seq
    BY <2>2 DEF ReceiptsFollowTheFeed
  <2> QED
    BY <2>1, <2>2, <2>3, <2>4 DEF ReceiptsFollowTheFeed
<1>2. ASSUME NEW e \in Event, Observable(e), Observe(e),
             UNCHANGED <<receipts, lastSequence>>
      PROVE  ReceiptsFollowTheFeed'
  <2>1. \A rc \in receipts : rc.event.seq <= lastSequence
    BY DEF ReceiptsFollowTheFeed, TypeOK
  <2>2. e.seq = lastSequence + 1
    BY <1>2, AcceptedIsNext
  <2>3. \A rc \in receipts : rc.event.seq # e.seq
    BY <2>1, <2>2 DEF ReceiptsFollowTheFeed, TypeOK
  <2>4. \A s : s # e.seq => observed'[s] = observed[s]
    BY <1>2 DEF Observe, TypeOK
  <2> QED
    BY <1>2, <2>3, <2>4 DEF ReceiptsFollowTheFeed
<1>3. ASSUME UNCHANGED <<receipts, lastSequence, observed>>
      PROVE  ReceiptsFollowTheFeed'
  BY <1>3 DEF ReceiptsFollowTheFeed
<1> QED
  BY <1>1, <1>2, <1>3
    DEF Next, RepairStep, Quarantine, BeginRepair, RetireItem, EndPassOne, RebuildItem,
        Interrupt, Reimport, Derive, Index, vars, storeVars, feedVars

\* An importer's receipts are one per sequence without a gap, each for the one
\* authentic event it observed there.
THEOREM ReceiptsAreSequenced == Spec => []ReceiptsFollowTheFeed
<1>1. Init => ReceiptsFollowTheFeed
  BY DEF Init, ReceiptsFollowTheFeed
<1> QED
  BY <1>1, ImporterInvariant, ReceiptsStep, PTL DEF Spec

\* The event bound to a sequence never changes and the sequence never jumps.
THEOREM ObservationsAreFinal == Spec => ObservedIsFinal
<1> DEFINE Final ==
      /\ \A s \in Sequence : observed[s] # None => observed'[s] = observed[s]
      /\ lastSequence' \in {lastSequence, lastSequence + 1}
<1>1. IInv /\ [Next]_vars => Final
  <2> SUFFICES ASSUME IInv, [Next]_vars PROVE Final
    OBVIOUS
  <2>1. ASSUME NEW e \in Event, Observable(e), Observe(e), UNCHANGED lastSequence
        PROVE  Final
    BY <2>1, AcceptedIsNext DEF Observe, IInv, TypeOK
  <2>2. CASE Attest
    BY <2>2 DEF Attest, IInv, RepairInv, RepairIsGrounded
  <2>3. ASSUME UNCHANGED <<lastSequence, observed>>
        PROVE  Final
    BY <2>3
  <2> QED
    BY <2>1, <2>2, <2>3
      DEF Next, RepairStep, Quarantine, BeginRepair, RetireItem, EndPassOne, RebuildItem,
          Interrupt, Reimport, Derive, Index, vars, storeVars, feedVars
<1>2. IInv /\ [Next]_vars => [Final]_vars
  BY <1>1
<1> QED
  BY <1>2, ImporterInvariant, PTL DEF Spec, ObservedIsFinal

\* A receipt is signed `verified` only for a repair that disposed of every
\* present descendant over an index of complete lineage, and never beside a
\* required opaque store.
THEOREM VerificationIsEarned == Spec => VerifiedIsEarned
<1> DEFINE Earned ==
      \A rc \in receipts' \ receipts :
          rc.aggregate = "verified" =>
              /\ OpaqueStore # "required"
              /\ \A v \in indexed : SourceOf[v] \in Known(ledger)
              /\ \A i \in Enumerate(rc.event.root) : i \in retired \/ i \notin gated
<1>1. IInv /\ [Next]_vars => Earned
  <2> SUFFICES ASSUME IInv, [Next]_vars PROVE Earned
    OBVIOUS
  <2>1. CASE Attest
    <3> DEFINE e  == job.event
               new == [event     |-> e,
                       stores    |-> ReceiptStores(e),
                       triad     |-> Triad(e),
                       aggregate |-> AggregateCoverage(ReceiptStores(e), Triad(e))]
    <3>1. receipts' = receipts \cup {new}
      BY <2>1 DEF Attest
    <3>2. \A i \in Enumerate(e.root) : i \in retired \/ i \notin gated
      BY <2>1 DEF Attest, IInv, RepairInv, PassTwoInv
    <3>3. ASSUME OpaqueStore = "required" PROVE new.aggregate # "verified"
      <4>1. /\ "opaque" \in DOMAIN ReceiptStores(e)
            /\ ReceiptStores(e)["opaque"] = "unknown"
        BY <3>3 DEF ReceiptStores, RequiredStores
      <4> QED
        BY <4>1, AggregateVerified
    <3>4. new.event = e
      OBVIOUS
    <3>5. ASSUME new.aggregate = "verified"
          PROVE  \A v \in indexed : SourceOf[v] \in Known(ledger)
      <4>1. "vector" \in DOMAIN ReceiptStores(e)
        BY DEF ReceiptStores, RequiredStores, Inspectable
      <4>2. ReceiptStores(e)["vector"] = "verified"
        BY <3>5, <4>1, AggregateVerified
      <4>3. checkpoint[e].coverage["vector"] = "verified"
        <5>1. PICK c \in CoverageResult :
                "verified" = ConservativeCoverage(checkpoint[e].coverage["vector"], c)
          BY <4>1, <4>2 DEF ReceiptStores, DispositionCoverage, CoverageResult
        <5>2. checkpoint[e].coverage["vector"] \in CoverageResult
          BY <2>1 DEF Attest, IInv, TypeOK, RepairInv, RepairIsGrounded, Checkpoint, Inspectable
        <5> QED
          BY <5>1, <5>2 DEF ConservativeCoverage, Rank, CoverageResult
      <4> QED
        BY <2>1, <4>3 DEF Attest, IInv, RepairInv, RepairIsGrounded, LineageComplete, Inspectable
    <3> HIDE DEF new, e
    <3> QED
      BY <3>1, <3>2, <3>3, <3>4, <3>5
  <2>2. ASSUME UNCHANGED receipts PROVE Earned
    BY <2>2
  <2> QED
    BY <2>1, <2>2
      DEF Next, RepairStep, Quarantine, BeginRepair, RetireItem, EndPassOne, RebuildItem,
          Interrupt, Reimport, Derive, Index, vars
<1>2. IInv /\ [Next]_vars => [Earned]_vars
  BY <1>1
<1> QED
  BY <1>2, ImporterInvariant, PTL DEF Spec, VerifiedIsEarned
-----------------------------------------------------------------------------
\* Stale exports.

\* At the receipt every direct import of the target is retired.
LEMMA DirectImportsAreRetired ==
    ASSUME IInv, job.phase = "rebuild",
           NEW a \in Known(ledger), ledger[a].root = job.event.root,
           ledger[a].root # None
    PROVE  a \in retired
<1>1. a \in DirectlyFrom(ledger, job.event.root)
  BY DEF DirectlyFrom
<1>2. a \in Enumerate(job.event.root)
  BY <1>1 DEF Enumerate, Descendants
<1>3. Source(a) = a
  BY ImporterAssumption DEF Source, Item, Known
<1>4. RepairInputs(a) = {}
  BY <1>3 DEF RepairInputs, IInv, RepairInv, IsRooted
<1> QED
  BY <1>2, <1>4 DEF IInv, RepairInv, PassTwoInv

\* A stale export is retired: one offered late is refused, and one registered
\* earlier is a direct import that pass one of the repair retires.
LEMMA StaleStep == IInv /\ StaleExportRetired /\ [Next]_vars => StaleExportRetired'
<1> SUFFICES ASSUME IInv, StaleExportRetired, [Next]_vars,
                    NEW s \in Stamp,
                    ledger'[ReimportId[s]] # None, ledger'[ReimportId[s]].root # None,
                    applied'[ledger'[ReimportId[s]].root] # 0,
                    s <= applied'[ledger'[ReimportId[s]].root]
             PROVE  ReimportId[s] \in retired'
  BY DEF StaleExportRetired
<1> DEFINE id == ReimportId[s]
<1>1. id \in ArtifactId
  BY ImporterAssumption
<1>2. ASSUME ledger'[id] = ledger[id], applied' = applied, retired \subseteq retired'
      PROVE  id \in retired'
  BY <1>2 DEF StaleExportRetired
<1>3. CASE Attest
  <2>1. ledger' = ledger /\ retired' = retired
    BY <1>3 DEF Attest, storeVars
  <2>2. id \in Known(ledger) /\ ledger[id].root \in Root
    BY <1>1, <2>1, KnownHasRecord DEF Known, ArtifactRecord, IInv, TypeOK
  <2>3. CASE ledger[id].root = job.event.root
    BY <1>3, <2>1, <2>2, <2>3, DirectImportsAreRetired DEF Attest
  <2>4. CASE ledger[id].root # job.event.root
    <3>1. applied'[ledger[id].root] = applied[ledger[id].root]
      BY <1>3, <2>2, <2>4 DEF Attest, IInv, TypeOK
    <3> QED
      BY <2>1, <3>1 DEF StaleExportRetired
  <2> QED
    BY <2>3, <2>4
<1>4. ASSUME NEW r \in Root, NEW t \in Stamp, Reimport(r, t) PROVE id \in retired'
  <2>1. applied' = applied /\ retired' = retired
    BY <1>4 DEF Reimport, feedVars
  <2>2. CASE t = s
    <3>1. ledger'[id].root = r
      BY <1>1, <1>4, <2>2 DEF Reimport, RegisterImport, IInv, TypeOK, Ledger
    <3> QED
      BY <1>4, <2>1, <2>2, <3>1 DEF Reimport, IsStale
  <2>3. CASE t # s
    <3>1. ledger'[id] = ledger[id]
      BY <1>1, <1>4, <2>3, ImporterAssumption
        DEF Reimport, RegisterImport, IInv, TypeOK, Ledger
    <3> QED
      BY <1>2, <2>1, <3>1
  <2> QED
    BY <2>2, <2>3
<1>5. ASSUME NEW a \in DOMAIN Derivation, Derive(a) PROVE id \in retired'
  <2>1. applied' = applied /\ retired' = retired
    BY <1>5 DEF Derive, feedVars
  <2>2. CASE a = id
    <3>1. ledger'[id].root = None
      BY <1>1, <1>5, <2>2 DEF Derive, RegisterDerivation, IInv, TypeOK, Ledger
    <3> QED
      BY <3>1
  <2>3. CASE a # id
    <3>1. ledger'[id] = ledger[id]
      BY <1>1, <1>5, <2>3 DEF Derive, RegisterDerivation, IInv, TypeOK, Ledger
    <3> QED
      BY <1>2, <2>1, <3>1
  <2> QED
    BY <2>2, <2>3
<1>6. ASSUME NEW i \in Item, RebuildItem(i) PROVE id \in retired'
  <2>1. applied' = applied /\ retired' = retired
    BY <1>6 DEF RebuildItem, feedVars
  <2>2. CASE i \in Entry \/ i # id
    <3>1. ledger'[id] = ledger[id]
      BY <1>1, <1>6, <2>2, ImporterAssumption
        DEF RebuildItem, SetContent, IInv, TypeOK, Ledger, Item
    <3> QED
      BY <1>2, <2>1, <3>1
  <2>3. CASE i \notin Entry /\ i = id
    <3>1. i \in Enumerate(job.event.root) /\ job.phase = "rebuild"
      BY <1>6 DEF RebuildItem, IsNext, IInv, RepairInv, RepairIsGrounded
    <3>2. i \in Known(ledger)
      BY <2>3, <3>1, EnumerateType DEF IInv
    <3>3. ledger'[id].root = ledger[id].root
      BY <1>6, <2>3, <3>2, KnownHasRecord
        DEF RebuildItem, SetContent, IInv, TypeOK, Ledger, ArtifactRecord
    <3> QED
      BY <2>1, <2>3, <3>2, <3>3 DEF StaleExportRetired, Known
  <2> QED
    BY <2>2, <2>3
<1>7. ASSUME UNCHANGED <<ledger, applied>>, retired \subseteq retired'
      PROVE  id \in retired'
  BY <1>2, <1>7
<1> QED
  BY <1>3, <1>4, <1>5, <1>6, <1>7
    DEF Next, RepairStep, Quarantine, BeginRepair, RetireItem, EndPassOne,
        Interrupt, Index, vars, storeVars, feedVars

\* Whenever a re-export stamped no later than the applied erratum got into the
\* ledger, it is retired by the time the erratum's receipt exists.
THEOREM StaleExportsAreRetired == Spec => []StaleExportRetired
<1>1. Init => StaleExportRetired
  BY ImporterAssumption, KnownHasRecord
    DEF Init, StaleExportRetired, Known, ArtifactRecord, Ledger
<1> QED
  BY <1>1, ImporterInvariant, StaleStep, PTL DEF Spec

-----------------------------------------------------------------------------
\* The refinement of the lifecycle.

SeenIsObserved ==
    \A e \in Event :
        checkpoint[e] # None => observed[e.seq] = e /\ e.seq <= lastSequence + 1

RInv == IInv /\ ReceiptsFollowTheFeed /\ SeenIsObserved

LEMMA SeenStep == IInv /\ SeenIsObserved /\ [Next]_vars => SeenIsObserved'
<1> SUFFICES ASSUME IInv, SeenIsObserved, [Next]_vars,
                    NEW f \in Event, checkpoint'[f] # None
             PROVE  observed'[f.seq] = f /\ f.seq <= lastSequence' + 1
  BY DEF SeenIsObserved
<1>1. f.seq \in Sequence /\ f # None
  BY ImporterAssumption DEF Sequence
<1>2. f.seq \in Nat /\ lastSequence \in Nat
  BY ImporterAssumption DEF Sequence, IInv, TypeOK
<1>3. ASSUME NEW e \in Event, Observable(e), Observe(e), UNCHANGED lastSequence,
             f # e => checkpoint'[f] = checkpoint[f]
      PROVE  observed'[f.seq] = f /\ f.seq <= lastSequence' + 1
  <2>1. observed[e.seq] \in {None, e} /\ e.seq = lastSequence + 1
    BY <1>3, AcceptedIsNext
  <2>2. observed' = [observed EXCEPT ![e.seq] = e] /\ e.seq \in Sequence
    BY <1>3 DEF Observe, Sequence
  <2>3. f # e => observed[f.seq] = f /\ f.seq <= lastSequence + 1
    BY <1>3 DEF SeenIsObserved
  <2>4. f # e => f.seq # e.seq
    BY <1>1, <2>1, <2>3
  <2>5. observed'[f.seq] = f
    BY <1>1, <2>2, <2>3, <2>4 DEF IInv, TypeOK
  <2>6. f.seq <= lastSequence + 1
    BY <1>2, <2>1, <2>3
  <2> QED
    BY <1>3, <2>5, <2>6
<1>4. ASSUME UNCHANGED <<checkpoint, observed>>, lastSequence' \in {lastSequence, lastSequence + 1}
      PROVE  observed'[f.seq] = f /\ f.seq <= lastSequence' + 1
  <2>1. observed[f.seq] = f /\ f.seq <= lastSequence + 1
    BY <1>4 DEF SeenIsObserved
  <2> QED
    BY <1>2, <1>4, <2>1
<1>5. ASSUME NEW e \in Event, Quarantine(e)
      PROVE  observed'[f.seq] = f /\ f.seq <= lastSequence' + 1
  <2>1. f # e => checkpoint'[f] = checkpoint[f]
    BY <1>5 DEF Quarantine, IInv, TypeOK
  <2> QED
    BY <1>3, <1>5, <2>1 DEF Quarantine
<1>6. ASSUME NEW e \in Event, BeginRepair(e)
      PROVE  observed'[f.seq] = f /\ f.seq <= lastSequence' + 1
  BY <1>3, <1>6 DEF BeginRepair
<1>7. CASE Attest
  <2>1. job.event.seq = lastSequence + 1
    BY <1>7 DEF Attest, IInv, RepairInv, RepairIsGrounded
  <2> QED
    BY <1>4, <1>7, <2>1 DEF Attest
<1> QED
  BY <1>4, <1>5, <1>6, <1>7
    DEF Next, RepairStep, RetireItem, EndPassOne, RebuildItem,
        Interrupt, Reimport, Derive, Index, vars, storeVars, feedVars

LEMMA RefinementInvariant == Spec => []RInv
<1>1. Init => SeenIsObserved
  BY DEF Init, SeenIsObserved
<1> QED
  BY <1>1, ImporterInvariant, ReceiptsAreSequenced, SeenStep, PTL DEF Spec, RInv

-----------------------------------------------------------------------------
\* An erratum at the next sequence has no receipt yet.
LEMMA NextIsOpen ==
    ASSUME RInv, NEW e \in Event, e.seq = lastSequence + 1
    PROVE  \A rc \in receipts : rc.event.seq # e.seq
<1>1. lastSequence \in Nat
  BY DEF RInv, IInv, TypeOK
<1> QED
  BY <1>1 DEF RInv, ReceiptsFollowTheFeed

\* A repair in progress is for an erratum at the next sequence, gated before.
LEMMA JobIsOpen ==
    ASSUME RInv, job # Idle
    PROVE  /\ job.event \in Event /\ job.event.seq = lastSequence + 1
           /\ checkpoint[job.event] # None
           /\ StageOf(job.event) = "rebuilding"
<1>1. job.phase # "idle"
  BY DEF RInv, IInv, RepairInv
<1>2. RepairIsGrounded
  BY <1>1 DEF RInv, IInv, RepairInv
<1>3. job.event \in Event /\ job.event.seq = lastSequence + 1 /\ checkpoint[job.event] # None
  BY <1>2 DEF RepairIsGrounded
<1> QED
  BY <1>3, NextIsOpen DEF StageOf

\* When an event may be observed between repairs, its turn has come.
LEMMA ObservableIsInTurn ==
    ASSUME RInv, job = Idle, NEW e \in Event, Observable(e)
    PROVE  Lifecycle!InTurn(e)
<1> DEFINE stage == [f \in Event |-> StageOf(f)]
<1>1. e.seq = lastSequence + 1 /\ lastSequence \in Nat /\ observed[e.seq] \in {None, e}
  BY AcceptedIsNext DEF RInv, IInv, TypeOK
<1>2. ASSUME NEW s \in 1..(e.seq - 1)
      PROVE  \E f \in Event : f.seq = s /\ stage[f] = "attested"
  <2>1. s \in 1..lastSequence
    BY <1>1
  <2>2. PICK rc \in receipts : rc.event.seq = s
    BY <2>1 DEF RInv, ReceiptsFollowTheFeed
  <2>3. rc.event \in Event
    BY DEF RInv, IInv, TypeOK
  <2>4. StageOf(rc.event) = "attested"
    BY DEF StageOf
  <2> QED
    BY <2>2, <2>3, <2>4
<1>3. ASSUME NEW f \in Event, f.seq = e.seq, f # e
      PROVE  stage[f] = "unseen"
  <2>1. checkpoint[f] = None
    BY <1>1, <1>3, ImporterAssumption DEF RInv, SeenIsObserved
  <2>2. \A rc \in receipts : rc.event # f
    BY <1>1, <1>3, NextIsOpen
  <2> QED
    BY <2>1, <2>2 DEF StageOf
<1> QED
  BY <1>2, <1>3 DEF Lifecycle!InTurn

\* A step that moves the stage of e only.
LEMMA OneMoves ==
    ASSUME NEW e \in Event, NEW to, StageOf(e)' = to,
           \A f \in Event : f # e => StageOf(f)' = StageOf(f)
    PROVE  [f \in Event |-> StageOf(f)]' = [[f \in Event |-> StageOf(f)] EXCEPT ![e] = to]
  OBVIOUS

LEMMA NoneMoves ==
    ASSUME \A f \in Event : StageOf(f)' = StageOf(f)
    PROVE  UNCHANGED [f \in Event |-> StageOf(f)]
  OBVIOUS

-----------------------------------------------------------------------------
LEMMA LifecycleInit == Init => Lifecycle!Init
<1> SUFFICES ASSUME Init PROVE Lifecycle!Init
  OBVIOUS
<1>1. \A e \in Event : StageOf(e) = "unseen"
  BY DEF Init, StageOf
<1> QED
  BY <1>1 DEF Lifecycle!Init

LEMMA LifecycleStep ==
    RInv /\ [Next]_vars => [Lifecycle!Next]_([e \in Event |-> StageOf(e)])
<1> DEFINE stage == [e \in Event |-> StageOf(e)]
<1> SUFFICES ASSUME RInv, [Next]_vars PROVE [Lifecycle!Next]_stage
  OBVIOUS
<1>1. ASSUME NEW e \in Event, Quarantine(e) PROVE [Lifecycle!Next]_stage
  <2>1. /\ job = Idle /\ job' = Idle /\ receipts' = receipts /\ Observable(e)
        /\ e.seq = lastSequence + 1
    BY <1>1, AcceptedIsNext DEF Quarantine
  <2>2. \A f \in Event : f # e => checkpoint'[f] = checkpoint[f]
    BY <1>1 DEF Quarantine, RInv, IInv, TypeOK
  <2>3. checkpoint'[e] # None
    BY <1>1, CheckpointType, ImporterAssumption DEF Quarantine, RInv, IInv, TypeOK
  <2>4. \A rc \in receipts : rc.event # e
    BY <2>1, NextIsOpen
  <2>5. \A f \in Event : f # e => StageOf(f)' = StageOf(f)
    BY <2>1, <2>2 DEF StageOf
  <2>6. StageOf(e)' = "gated"
    BY <2>1, <2>3, <2>4 DEF StageOf
  <2>7. CASE checkpoint[e] = None
    <3>1. StageOf(e) = "unseen"
      BY <2>1, <2>4, <2>7 DEF StageOf
    <3>2. Lifecycle!InTurn(e)
      BY <2>1, ObservableIsInTurn
    <3> QED
      BY <2>5, <2>6, <3>1, <3>2, OneMoves DEF Lifecycle!Next, Lifecycle!Gate
  <2>8. CASE checkpoint[e] # None
    <3>1. StageOf(e) = "gated"
      BY <2>1, <2>4, <2>8 DEF StageOf
    <3> QED
      BY <2>5, <2>6, <3>1
  <2> QED
    BY <2>7, <2>8
<1>2. ASSUME NEW e \in Event, BeginRepair(e) PROVE [Lifecycle!Next]_stage
  <2>1. /\ job = Idle /\ job'.event = e /\ job' # Idle
        /\ receipts' = receipts /\ checkpoint' = checkpoint
        /\ e.seq = lastSequence + 1 /\ checkpoint[e] # None
    BY <1>2, AcceptedIsNext DEF BeginRepair, Idle, CheckpointIsValid
  <2>2. \A rc \in receipts : rc.event # e
    BY <2>1, NextIsOpen
  <2>3. \A f \in Event : f # e => StageOf(f)' = StageOf(f)
    BY <2>1 DEF StageOf
  <2>4. StageOf(e) = "gated" /\ StageOf(e)' = "rebuilding"
    BY <2>1, <2>2 DEF StageOf
  <2>5. \A f \in Event : StageOf(f) # "rebuilding"
    BY <2>1 DEF StageOf
  <2> QED
    BY <2>3, <2>4, <2>5, OneMoves DEF Lifecycle!Next, Lifecycle!Begin
<1>3. CASE Attest
  <2>1. job # Idle /\ job' = Idle /\ checkpoint' = checkpoint
    BY <1>3 DEF Attest, Idle
  <2>2. PICK e \in Event : e = job.event /\ StageOf(e) = "rebuilding"
    BY <2>1, JobIsOpen
  <2>3. \E new : receipts' = receipts \cup {new} /\ new.event = e
    <3> DEFINE new == [event     |-> e,
                       stores    |-> ReceiptStores(e),
                       triad     |-> Triad(e),
                       aggregate |-> AggregateCoverage(ReceiptStores(e), Triad(e))]
    <3>1. receipts' = receipts \cup {new}
      BY <1>3, <2>2 DEF Attest
    <3>2. new.event = e
      OBVIOUS
    <3> HIDE DEF new
    <3> QED
      BY <3>1, <3>2
  <2>4. PICK new : receipts' = receipts \cup {new} /\ new.event = e
    BY <2>3
  <2>5. StageOf(e)' = "attested"
    BY <2>4 DEF StageOf
  <2>6. \A f \in Event : f # e => StageOf(f)' = StageOf(f)
    BY <2>1, <2>2, <2>4 DEF StageOf
  <2> QED
    BY <2>2, <2>5, <2>6, OneMoves DEF Lifecycle!Next, Lifecycle!Attest
<1>4. CASE Interrupt
  <2>1. job # Idle /\ job' = Idle /\ checkpoint' = checkpoint /\ receipts' = receipts
    BY <1>4 DEF Interrupt
  <2>2. PICK e \in Event :
          /\ e = job.event /\ StageOf(e) = "rebuilding"
          /\ e.seq = lastSequence + 1 /\ checkpoint[e] # None
    BY <2>1, JobIsOpen
  <2>3. \A rc \in receipts : rc.event # e
    BY <2>2, NextIsOpen
  <2>4. StageOf(e)' = "gated"
    BY <2>1, <2>2, <2>3 DEF StageOf
  <2>5. \A f \in Event : f # e => StageOf(f)' = StageOf(f)
    BY <2>1, <2>2 DEF StageOf
  <2> QED
    BY <2>2, <2>4, <2>5, OneMoves DEF Lifecycle!Next, Lifecycle!Fail
<1>5. ASSUME job # Idle, job' # Idle, job'.event = job.event, UNCHANGED <<checkpoint, receipts>>
      PROVE  [Lifecycle!Next]_stage
  BY <1>5, NoneMoves DEF StageOf
<1>6. ASSUME UNCHANGED <<job, checkpoint, receipts>> PROVE [Lifecycle!Next]_stage
  BY <1>6, NoneMoves DEF StageOf
<1>7. ASSUME NEW i \in Item, RetireItem(i) \/ RebuildItem(i) PROVE [Lifecycle!Next]_stage
  <2>1. job.phase # "idle" /\ job'.phase = job.phase /\ job'.event = job.event
    BY <1>7 DEF RetireItem, RebuildItem, RInv, IInv, TypeOK
  <2>2. UNCHANGED <<checkpoint, receipts>>
    BY <1>7 DEF RetireItem, RebuildItem
  <2> QED
    BY <1>5, <2>1, <2>2 DEF Idle
<1>8. CASE EndPassOne
  <2>1. job.phase # "idle" /\ job'.phase # "idle" /\ job'.event = job.event
    BY <1>8 DEF EndPassOne, RInv, IInv, TypeOK
  <2>2. UNCHANGED <<checkpoint, receipts>>
    BY <1>8 DEF EndPassOne
  <2> QED
    BY <1>5, <2>1, <2>2 DEF Idle
<1> QED
  BY <1>1, <1>2, <1>3, <1>4, <1>6, <1>7, <1>8
    DEF Next, RepairStep, Reimport, Derive, Index, vars

\* Every behaviour of an importer is a behaviour of the abstract lifecycle.
THEOREM ImporterFollowsLifecycle == Spec => FollowsLifecycle
<1>1. Init => Lifecycle!Init
  BY LifecycleInit
<1>2. RInv /\ [Next]_vars => [Lifecycle!Next]_([e \in Event |-> StageOf(e)])
  BY LifecycleStep
<1> QED
  BY <1>1, <1>2, RefinementInvariant, PTL DEF Spec, FollowsLifecycle, Lifecycle!Spec

LEMMA SeenIsInTurn ==
    ASSUME RInv, NEW e \in Event, StageOf(e) # "unseen"
    PROVE  Lifecycle!InTurn(e)
<1> DEFINE stage == [f \in Event |-> StageOf(f)]
<1>1. lastSequence \in Nat /\ e.seq \in Nat
  BY ImporterAssumption DEF Sequence, RInv, IInv, TypeOK
<1>2. ASSUME NEW f \in Event, StageOf(f) # "unseen"
      PROVE  observed[f.seq] = f /\ f.seq <= lastSequence + 1
  <2>1. CASE \E rc \in receipts : rc.event = f
    <3>1. observed[f.seq] = f /\ f.seq \in 1..lastSequence
      BY <2>1 DEF RInv, ReceiptsFollowTheFeed
    <3> QED
      BY <1>1, <3>1
  <2>2. CASE checkpoint[f] # None
    BY <2>2 DEF RInv, SeenIsObserved
  <2>3. CASE job # Idle /\ job.event = f
    BY <2>2, <2>3, JobIsOpen
  <2> QED
    BY <1>2, <2>1, <2>2, <2>3 DEF StageOf
<1>3. ASSUME NEW s \in 1..(e.seq - 1)
      PROVE  \E f \in Event : f.seq = s /\ stage[f] = "attested"
  <2>1. s \in 1..lastSequence
    BY <1>1, <1>2
  <2>2. PICK rc \in receipts : rc.event.seq = s
    BY <2>1 DEF RInv, ReceiptsFollowTheFeed
  <2>3. rc.event \in Event
    BY DEF RInv, IInv, TypeOK
  <2>4. StageOf(rc.event) = "attested"
    BY DEF StageOf
  <2> QED
    BY <2>2, <2>3, <2>4
<1>4. ASSUME NEW f \in Event, f.seq = e.seq, f # e
      PROVE  stage[f] = "unseen"
  BY <1>2, <1>4
<1> QED
  BY <1>3, <1>4 DEF Lifecycle!InTurn

\* An importer takes its errata in feed order without a gap, at most one per
\* sequence is ever gated, rebuilt or attested, and one at a time is rebuilt.
THEOREM ErrataAreInFeedOrder == Spec => []Lifecycle!InFeedOrder
<1>1. RInv => Lifecycle!InFeedOrder
  <2> SUFFICES ASSUME RInv PROVE Lifecycle!InFeedOrder
    OBVIOUS
  <2>1. \A e \in Event : StageOf(e) # "unseen" => Lifecycle!InTurn(e)
    BY SeenIsInTurn
  <2>2. \A e \in Event : StageOf(e) = "rebuilding" => job.event = e
    BY DEF StageOf
  <2> QED
    BY <2>1, <2>2 DEF Lifecycle!InFeedOrder
<1> QED
  BY <1>1, RefinementInvariant, PTL

-----------------------------------------------------------------------------
\* Descendants over a ledger that grows.

\* The descendants of a root are its imports and what derives from them.
LEMMA DescendantsAreClosed ==
    ASSUME NEW l, NEW r
    PROVE  /\ DirectlyFrom(l, r) \subseteq Descendants(l, r)
           /\ Descendants(l, r) \subseteq DirectlyFrom(l, r) \cup Derived(l)
           /\ ClosedUnderDerivation(l, Descendants(l, r))
<1> DEFINE closed == {set \in {DirectlyFrom(l, r) \cup more : more \in SUBSET Derived(l)} :
                         ClosedUnderDerivation(l, set)}
<1>1. ASSUME NEW a \in Derived(l), NEW b \in l[a].inputs \cap Descendants(l, r)
      PROVE  a \in Descendants(l, r)
  <2>1. ASSUME NEW set \in closed PROVE a \in set
    <3>1. b \in set
      BY <1>1, <2>1 DEF Descendants
    <3> QED
      BY <1>1, <2>1, <3>1 DEF ClosedUnderDerivation
  <2> QED
    BY <1>1, <2>1 DEF Descendants
<1> QED
  BY <1>1 DEF ClosedUnderDerivation, Descendants

\* They are in every set of registered artifacts that is closed.
LEMMA DescendantsAreLeast ==
    ASSUME NEW l, NEW r, NEW set,
           DirectlyFrom(l, r) \subseteq set,
           set \subseteq DirectlyFrom(l, r) \cup Derived(l),
           ClosedUnderDerivation(l, set)
    PROVE  Descendants(l, r) \subseteq set
<1>1. set = DirectlyFrom(l, r) \cup (set \cap Derived(l))
  OBVIOUS
<1>2. set \in {DirectlyFrom(l, r) \cup more : more \in SUBSET Derived(l)}
  BY <1>1
<1> QED
  BY <1>2 DEF Descendants

\* A ledger that grows without changing a root or an input keeps, among the
\* artifacts it knew, exactly the descendants it had.
LEMMA GrowingKeepsDescendants ==
    ASSUME NEW l, NEW m, NEW r, IsRooted(l), Known(l) \subseteq Known(m),
           \A a \in Known(l) : m[a].root = l[a].root /\ m[a].inputs = l[a].inputs
    PROVE  Descendants(m, r) \cap Known(l) = Descendants(l, r)
<1>0. /\ DirectlyFrom(l, r) = DirectlyFrom(m, r) \cap Known(l)
      /\ Derived(l) = Derived(m) \cap Known(l)
  BY DEF DirectlyFrom, Derived
<1>1. Descendants(l, r) \subseteq Descendants(m, r) \cap Known(l)
  <2> DEFINE set == Descendants(m, r) \cap Known(l)
  <2>1. DirectlyFrom(l, r) \subseteq set
    BY <1>0, DescendantsAreClosed
  <2>2. set \subseteq DirectlyFrom(l, r) \cup Derived(l)
    BY <1>0, DescendantsAreClosed
  <2>3. ClosedUnderDerivation(l, set)
    <3> SUFFICES ASSUME NEW a \in Derived(l), l[a].inputs \cap set # {}
                 PROVE  a \in set
      BY DEF ClosedUnderDerivation
    <3>1. a \in Derived(m) /\ a \in Known(l) /\ m[a].inputs = l[a].inputs
      BY <1>0 DEF Derived
    <3> QED
      BY <3>1, DescendantsAreClosed DEF ClosedUnderDerivation
  <2> HIDE DEF set
  <2> QED
    BY <2>1, <2>2, <2>3, DescendantsAreLeast DEF set
<1>2. Descendants(m, r) \cap Known(l) \subseteq Descendants(l, r)
  <2> DEFINE set == Descendants(l, r)
                       \cup ((DirectlyFrom(m, r) \cup Derived(m)) \ Known(l))
  <2>1. DirectlyFrom(m, r) \subseteq set
    BY <1>0, DescendantsAreClosed
  <2>2. set \subseteq DirectlyFrom(m, r) \cup Derived(m)
    BY <1>0, DescendantsAreClosed
  <2>3. ClosedUnderDerivation(m, set)
    <3> SUFFICES ASSUME NEW a \in Derived(m), NEW b \in m[a].inputs, b \in set
                 PROVE  a \in set
      BY DEF ClosedUnderDerivation
    <3>1. CASE a \notin Known(l)
      BY <3>1
    <3>2. CASE a \in Known(l)
      <4>1. l[a].inputs = m[a].inputs /\ b \in Known(l) /\ a \in Derived(l)
        BY <1>0, <3>2 DEF IsRooted
      <4>2. b \in Descendants(l, r)
        BY <4>1
      <4> QED
        BY <4>1, <4>2, DescendantsAreClosed DEF ClosedUnderDerivation
    <3> QED
      BY <3>1, <3>2
  <2>4. Descendants(m, r) \subseteq set
    <3> HIDE DEF set
    <3> QED
      BY <2>1, <2>2, <2>3, DescendantsAreLeast
  <2> QED
    BY <2>4
<1> QED
  BY <1>1, <1>2

-----------------------------------------------------------------------------
\* Steps of an importer that keep the lineage.

\* What a rebuild touches: one derived descendant of the target, and its text.
LEMMA RebuildFacts ==
    ASSUME IInv, NEW i \in Item, RebuildItem(i)
    PROVE  /\ job.event \in Event /\ job.event.seq = lastSequence + 1
           /\ i \in Enumerate(job.event.root) /\ RepairInputs(i) # {}
           /\ KeepsLineage /\ Known(ledger') = Known(ledger) /\ indexed' = indexed
           /\ \A r : Enumerate(r)' = Enumerate(r)
           /\ \A j \in Item : Source(j) \in Known(ledger) => RepairInputs(j)' = RepairInputs(j)
           /\ TextOf(i)' = JoinedText(ledger, SurvivingInputs(i), job.event.replacement)
           /\ \A j \in Item : j # i => TextOf(j)' = TextOf(j)
<1> DEFINE joined == JoinedText(ledger, SurvivingInputs(i), job.event.replacement)
<1>0. indexed' = indexed
  BY DEF RebuildItem
<1>1. /\ job.event \in Event /\ job.event.seq = lastSequence + 1
      /\ i \in Enumerate(job.event.root) /\ RepairInputs(i) # {}
  BY DEF RebuildItem, IsNext, IInv, RepairInv, RepairIsGrounded, PassTwoInv
<1>2. Source(i) \in Known(ledger) /\ (i \notin Entry => i \in Known(ledger))
  BY <1>1, EnumerateType DEF IInv
<1>3. CASE i \in Entry
  <2>1. text' = [text EXCEPT ![i] = joined] /\ ledger' = ledger
    BY <1>3 DEF RebuildItem
  <2> HIDE DEF joined
  <2>2. TextOf(i)' = joined /\ \A j \in Item : j # i => TextOf(j)' = TextOf(j)
    BY <1>3, <2>1 DEF TextOf, IInv, TypeOK
  <2> QED
    BY <1>0, <1>1, <2>1, <2>2, SameLineageSameItems DEF joined, KeepsLineage
<1>4. CASE i \notin Entry
  <2>1. ledger' = SetContent(ledger, i, joined) /\ text' = text
    BY <1>4 DEF RebuildItem
  <2>2. joined \in Text
    BY <1>1, <1>2, JoinedTextType, ImporterAssumption
      DEF IsErratum, SurvivingInputs, RepairInputs, IInv, RepairInv, IsRooted, TypeOK
  <2> HIDE DEF joined
  <2>3. /\ Known(ledger') = Known(ledger)
        /\ KeepsLineage
        /\ \A r : Descendants(ledger', r) = Descendants(ledger, r)
    BY <1>2, <1>4, <2>1, <2>2, SetContentKeepsLineage DEF IInv, TypeOK, KeepsLineage
  <2>4. TextOf(i)' = joined /\ \A j \in Item : j # i => TextOf(j)' = TextOf(j)
    BY <1>2, <1>4, <2>1, KnownHasRecord
      DEF TextOf, SetContent, IInv, TypeOK, Ledger, ArtifactRecord, Item
  <2>5. /\ \A r : Enumerate(r)' = Enumerate(r)
        /\ \A j \in Item : Source(j) \in Known(ledger) => RepairInputs(j)' = RepairInputs(j)
    BY <1>0, <2>3 DEF Enumerate, RepairInputs, Source, KeepsLineage
  <2> QED
    BY <1>0, <1>1, <2>3, <2>4, <2>5 DEF joined
<1> QED
  BY <1>3, <1>4

\* What a re-export that keeps the lineage touches: one direct import of its
\* root, new or stated anew.
LEMMA ReimportFacts ==
    ASSUME IInv, KeepsLineage, NEW r \in Root, NEW s \in Stamp, Reimport(r, s)
    PROVE  /\ ReimportId[s] \in ArtifactId \ Entry
           /\ ledger'[ReimportId[s]] = [root |-> r, inputs |-> {}, content |-> ExportText[r][s]]
           /\ ReimportId[s] \in Known(ledger) =>
                 ledger[ReimportId[s]].root = r /\ ledger[ReimportId[s]].inputs = {}
           /\ Known(ledger') = Known(ledger) \cup {ReimportId[s]}
           /\ \A a \in ArtifactId : a # ReimportId[s] => ledger'[a] = ledger[a]
<1> DEFINE id == ReimportId[s]
           record == [root |-> r, inputs |-> {}, content |-> ExportText[r][s]]
<1>1. id \in ArtifactId /\ id \notin Entry
  BY ImporterAssumption DEF Item
<1>2. record \in ArtifactRecord /\ record.root = r /\ record.inputs = {}
  BY ImporterAssumption DEF ArtifactRecord
<1>3. ledger' = [ledger EXCEPT ![id] = record] /\ text' = text
  BY DEF Reimport, RegisterImport
<1> HIDE DEF id, record
<1>4. ledger'[id] = record /\ \A a \in ArtifactId : a # id => ledger'[a] = ledger[a]
  BY <1>1, <1>3 DEF IInv, TypeOK, Ledger
<1>5. Known(ledger') = Known(ledger) \cup {id}
  BY <1>1, <1>2, <1>4, LineageAssumption DEF Known
<1>6. id \in Known(ledger) => ledger[id].root = r /\ ledger[id].inputs = {}
  BY <1>2, <1>4 DEF KeepsLineage
<1> QED
  BY <1>1, <1>4, <1>5, <1>6 DEF id, record

\* No other item states anything else after it.
LEMMA ReimportTexts ==
    ASSUME IInv, NEW r \in Root, NEW s \in Stamp, Reimport(r, s)
    PROVE  \A j \in Item : j # ReimportId[s] => TextOf(j)' = TextOf(j)
<1>1. \A a \in ArtifactId : a # ReimportId[s] => ledger'[a] = ledger[a]
  BY ImporterAssumption DEF Reimport, RegisterImport, IInv, TypeOK, Ledger
<1>2. text' = text
  BY DEF Reimport
<1> QED
  BY <1>1, <1>2 DEF TextOf, Item

\* What a derivation touches: an artifact that was not registered.
LEMMA DeriveFacts ==
    ASSUME IInv, NEW a \in DOMAIN Derivation, Derive(a)
    PROVE  /\ a \in ArtifactId \ Entry /\ a \notin Known(ledger)
           /\ ledger'[a] = [root |-> None, inputs |-> Derivation[a],
                            content |-> JoinedText(ledger, Derivation[a], None)]
           /\ Known(ledger') = Known(ledger) \cup {a}
           /\ Derivation[a] \subseteq Known(ledger)
           /\ \A b \in ArtifactId : b # a => ledger'[b] = ledger[b]
           /\ \A j \in Item : j # a => TextOf(j)' = TextOf(j)
<1> DEFINE record == [root |-> None, inputs |-> Derivation[a],
                      content |-> JoinedText(ledger, Derivation[a], None)]
<1>1. a \in ArtifactId /\ a \notin Entry
  BY ImporterAssumption DEF Item
<1>2. record \in ArtifactRecord
  BY JoinedTextType, ImporterAssumption DEF Derive, InputsKnown, ArtifactRecord, IInv, TypeOK
<1>3. ledger' = [ledger EXCEPT ![a] = record] /\ text' = text
  BY DEF Derive, RegisterDerivation
<1>0. a \notin Known(ledger) /\ Derivation[a] \subseteq Known(ledger)
  BY DEF Derive, InputsKnown
<1> HIDE DEF record
<1>4. ledger'[a] = record /\ \A b \in ArtifactId : b # a => ledger'[b] = ledger[b]
  BY <1>1, <1>3 DEF IInv, TypeOK, Ledger
<1>5. Known(ledger') = Known(ledger) \cup {a}
  BY <1>1, <1>2, <1>4, LineageAssumption DEF Known
<1>6. \A j \in Item : j # a => TextOf(j)' = TextOf(j)
  BY <1>3, <1>4 DEF TextOf, Item
<1> QED
  BY <1>0, <1>1, <1>4, <1>5, <1>6 DEF record

\* An importer forgets no artifact and no entry.
LEMMA StoresGrow ==
    ASSUME IInv, KeepsLineage, [Next]_vars
    PROVE  Known(ledger) \subseteq Known(ledger') /\ indexed \subseteq indexed'
<1>1. ASSUME NEW i \in Item, RebuildItem(i)
      PROVE  Known(ledger') = Known(ledger) /\ indexed' = indexed
  BY <1>1, RebuildFacts DEF RebuildItem
<1>2. ASSUME NEW r \in Root, NEW s \in Stamp, Reimport(r, s)
      PROVE  Known(ledger) \subseteq Known(ledger') /\ indexed' = indexed
  BY <1>2, ReimportFacts DEF Reimport
<1>3. ASSUME NEW a \in DOMAIN Derivation, Derive(a)
      PROVE  Known(ledger) \subseteq Known(ledger') /\ indexed' = indexed
  BY <1>3, DeriveFacts DEF Derive
<1>4. ASSUME ledger' = ledger, indexed \subseteq indexed'
      PROVE  Known(ledger) \subseteq Known(ledger') /\ indexed \subseteq indexed'
  BY <1>4
<1> QED
  BY <1>1, <1>2, <1>3, <1>4
    DEF Next, RepairStep, Quarantine, BeginRepair, RetireItem, EndPassOne, Attest,
        Interrupt, Index, vars, storeVars

\* So what descended from a root still does, and nothing else that was there.
LEMMA LineageGrows ==
    ASSUME IInv, KeepsLineage, [Next]_vars
    PROVE  /\ \A i \in Item : Source(i) \in Known(ledger) => RepairInputs(i)' = RepairInputs(i)
           /\ \A r : Descendants(ledger', r) \cap Known(ledger) = Descendants(ledger, r)
           /\ \A r : Enumerate(r) \subseteq Enumerate(r)'
           /\ \A r : \A i \in Enumerate(r)' :
                 Source(i) \in Known(ledger) /\ (i \in Entry => i \in indexed)
                    => i \in Enumerate(r)
<1>1. Known(ledger) \subseteq Known(ledger') /\ indexed \subseteq indexed'
  BY StoresGrow
<1>2. \A i \in Item : Source(i) \in Known(ledger) => RepairInputs(i)' = RepairInputs(i)
  BY DEF KeepsLineage, RepairInputs, Source
<1>3. ASSUME NEW r PROVE Descendants(ledger', r) \cap Known(ledger) = Descendants(ledger, r)
  <2>1. IsRooted(ledger)
    BY DEF IInv, RepairInv
  <2> QED
    BY <1>1, <2>1, GrowingKeepsDescendants DEF KeepsLineage
<1>4. ASSUME NEW r PROVE Enumerate(r) \subseteq Enumerate(r)'
  BY <1>1, <1>3 DEF Enumerate
<1>5. ASSUME NEW r, NEW i \in Enumerate(r)', Source(i) \in Known(ledger),
             i \in Entry => i \in indexed
      PROVE  i \in Enumerate(r)
  <2>1. Descendants(ledger', r) \subseteq ArtifactId
    BY DescendantsAreKnown DEF Known
  <2>2. \A a \in ArtifactId : a \notin Entry
    BY ImporterAssumption DEF Item
  <2>3. indexed' \subseteq Entry
    BY TypeStep DEF IInv, TypeOK
  <2> QED
    BY <1>3, <1>5, <2>1, <2>2, <2>3 DEF Enumerate, Source
<1> QED
  BY <1>2, <1>3, <1>4, <1>5

-----------------------------------------------------------------------------
\* Gates.

\* The host holds the checkpoint of an erratum that has no receipt yet.
Open(e) == checkpoint[e] # None /\ lastSequence < e.seq

\* Only the next erratum is open, and what its checkpoint lists still descends
\* from its root.
OpenIsNext ==
    \A e \in Event :
        Open(e) => /\ e.seq = lastSequence + 1
                   /\ checkpoint[e].items \subseteq Enumerate(e.root)

GateInv == OpenIsNext /\ NothingStrandedBehindAGate

\* Two open errata are one.
LEMMA OneIsOpen ==
    ASSUME RInv, OpenIsNext, NEW e \in Event, Open(e)
    PROVE  /\ observed[e.seq] = e
           /\ \A f \in Event : f.seq = lastSequence + 1 /\ observed[f.seq] \in {None, f}
                                  => f = e
<1>1. observed[e.seq] = e /\ e.seq = lastSequence + 1 /\ e # None
  BY ImporterAssumption DEF RInv, SeenIsObserved, OpenIsNext, Open
<1> QED
  BY <1>1

\* The erratum a repair works for is the open one.
LEMMA JobIsTheOpenOne ==
    ASSUME RInv, OpenIsNext, job.phase # "idle"
    PROVE  /\ job.event \in Event /\ Open(job.event)
           /\ \A f \in Event : Open(f) => f = job.event
<1>1. RepairIsGrounded /\ lastSequence \in Nat
  BY DEF RInv, IInv, RepairInv, TypeOK
<1>2. job.event \in Event /\ Open(job.event)
  BY <1>1 DEF RepairIsGrounded, Open
<1> QED
  BY <1>1, <1>2, OneIsOpen DEF RepairIsGrounded

\* When a receipt is returned no erratum is open.
LEMMA NoneIsOpenAfterAttest ==
    ASSUME RInv, OpenIsNext, Attest
    PROVE  \A e \in Event : ~Open(e)'
<1>1. lastSequence' = lastSequence + 1 /\ checkpoint' = checkpoint /\ lastSequence \in Nat
  BY DEF Attest, RInv, IInv, RepairInv, RepairIsGrounded, TypeOK
<1>2. \A e \in Event : e.seq \in Nat
  BY ImporterAssumption DEF IsErratum
<1> QED
  BY <1>1, <1>2 DEF Open, OpenIsNext

\* A quarantine opens its erratum and no other.
LEMMA QuarantineOpens ==
    ASSUME RInv, OpenIsNext, NEW e \in Event, Quarantine(e)
    PROVE  /\ Open(e)' /\ e.seq = lastSequence + 1
           /\ checkpoint'[e].items = Enumerate(e.root)
           /\ \A f \in Event : Open(f) \/ Open(f)' => f = e
<1>1. e.seq = lastSequence + 1 /\ lastSequence' = lastSequence /\ lastSequence \in Nat
      /\ observed[e.seq] \in {None, e}
  BY AcceptedIsNext DEF Quarantine, RInv, IInv, TypeOK
<1>2. checkpoint'[e] # None /\ checkpoint'[e].items = Enumerate(e.root)
  BY CheckpointType, ImporterAssumption DEF Quarantine, RInv, IInv, TypeOK
<1>3. \A f \in Event : f # e => checkpoint'[f] = checkpoint[f]
  BY DEF Quarantine, RInv, IInv, TypeOK
<1>4. \A f \in Event : Open(f) => f = e
  BY <1>1, OneIsOpen
<1> QED
  BY <1>1, <1>2, <1>3, <1>4 DEF Open

\* A step that keeps the lineage.
KeptStep == [Next]_vars /\ KeepsLineage

\* Gates are closed by a quarantine and opened by a rebuild only.
LEMMA GateStep == RInv /\ GateInv /\ KeptStep => GateInv'
<1> SUFFICES ASSUME RInv, OpenIsNext, NothingStrandedBehindAGate, [Next]_vars, KeepsLineage
             PROVE  OpenIsNext' /\ NothingStrandedBehindAGate'
  BY DEF GateInv, KeptStep
<1>0. \A r : Enumerate(r) \subseteq Enumerate(r)'
  BY LineageGrows DEF RInv
<1>1. ASSUME NEW e \in Event, Quarantine(e)
      PROVE  OpenIsNext' /\ NothingStrandedBehindAGate'
  <2>1. OpenIsNext'
    BY <1>0, <1>1, QuarantineOpens DEF OpenIsNext, Quarantine
  <2>2. ASSUME NEW i \in gated \ retired PROVE i \in Enumerate(e.root)
    <3>1. PICK f \in Event : Open(f) /\ i \in checkpoint[f].items
      BY DEF NothingStrandedBehindAGate, Open
    <3> QED
      BY <1>1, <3>1, QuarantineOpens DEF OpenIsNext
  <2>3. gated' = gated \cup Enumerate(e.root) /\ retired' = retired
    BY <1>1 DEF Quarantine
  <2> QED
    BY <1>1, <2>1, <2>2, <2>3, QuarantineOpens DEF NothingStrandedBehindAGate, Open
<1>2. CASE Attest
  <2>1. OpenIsNext'
    BY <1>2, NoneIsOpenAfterAttest DEF OpenIsNext
  <2>2. ASSUME NEW i \in gated \ retired PROVE FALSE
    <3>1. PICK f \in Event : Open(f) /\ i \in checkpoint[f].items
      BY DEF NothingStrandedBehindAGate, Open
    <3>2. f = job.event /\ i \in Enumerate(job.event.root)
      BY <1>2, <3>1, JobIsTheOpenOne DEF Attest, OpenIsNext
    <3> QED
      BY <1>2, <3>2 DEF Attest, RInv, IInv, RepairInv, PassTwoInv
  <2>3. gated' = gated /\ retired' = retired
    BY <1>2 DEF Attest, storeVars
  <2> QED
    BY <2>1, <2>2, <2>3 DEF NothingStrandedBehindAGate
<1>3. ASSUME UNCHANGED <<checkpoint, lastSequence>>,
             gated' \subseteq gated, retired \subseteq retired'
      PROVE  OpenIsNext' /\ NothingStrandedBehindAGate'
  <2>1. \A e \in Event : Open(e)' <=> Open(e)
    BY <1>3 DEF Open
  <2> QED
    BY <1>0, <1>3, <2>1 DEF OpenIsNext, NothingStrandedBehindAGate
<1> QED
  BY <1>1, <1>2, <1>3
    DEF Next, RepairStep, BeginRepair, RetireItem, EndPassOne, RebuildItem, LiftGate,
        Interrupt, Reimport, Derive, Index, vars, storeVars, feedVars

\* No rebuild and no repeated quarantine strands a live item behind a gate:
\* what stays gated is retired or belongs to an erratum still to be repaired.
THEOREM GatesAreReopened ==
    Spec /\ LineageIsKept => []NothingStrandedBehindAGate
<1>1. Init => GateInv
  BY DEF Init, GateInv, OpenIsNext, Open, NothingStrandedBehindAGate
<1>2. RInv /\ GateInv /\ [Next]_vars /\ [KeepsLineage]_vars => GateInv'
  <2>1. CASE UNCHANGED vars
    <3>1. IInv /\ UNCHANGED vars => KeepsLineage
      BY DEF KeepsLineage, vars, storeVars
    <3> QED
      BY <2>1, <3>1, GateStep DEF KeptStep, RInv
  <2> QED
    BY <2>1, GateStep DEF KeptStep
<1>3. GateInv => NothingStrandedBehindAGate
  BY DEF GateInv
<1> QED
  BY <1>1, <1>2, <1>3, RefinementInvariant, PTL DEF Spec, LineageIsKept

-----------------------------------------------------------------------------
\* What an open erratum lets be recalled.

\* What was retired was imported, and an entry of it lost its text.
RetiredIsDirect ==
    \A i \in retired :
        /\ Source(i) \in Known(ledger) /\ RepairInputs(i) = {}
        /\ i \in Entry => i \in indexed /\ text[i] = None

\* What the running repair has rebuilt states the replacement, and no longer
\* what is retired.
RebuiltIsAmended ==
    job.phase = "rebuild" =>
        \A i \in Enumerate(job.event.root) :
            RepairInputs(i) # {} /\ i \notin job.todo =>
                /\ job.event.negative \notin TextOf(i)
                /\ job.event.replacement # None => job.event.replacement \in TextOf(i)

\* What an open erratum gated is gated still, or was rebuilt without it.
ServedIsRebuilt ==
    \A e \in Event : Open(e) =>
        \A i \in checkpoint[e].items \ gated :
            RepairInputs(i) # {} /\ e.negative \notin TextOf(i)

ServingInv == RetiredIsDirect /\ RebuiltIsAmended /\ ServedIsRebuilt

\* What a repair retires is a direct import of its target, or an entry of one.
LEMMA RetireFacts ==
    ASSUME IInv, NEW i \in Item, RetireItem(i)
    PROVE  /\ job.event \in Event /\ i \in Enumerate(job.event.root) /\ i \in gated
           /\ Source(i) \in Known(ledger) /\ RepairInputs(i) = {}
           /\ i \in Entry => i \in indexed /\ text'[i] = None
           /\ \A j \in Item : j # i => TextOf(j)' = TextOf(j)
           /\ ledger' = ledger /\ indexed' = indexed /\ gated' = gated
           /\ retired' = retired \cup {i}
<1>1. job.event \in Event /\ i \in Enumerate(job.event.root) /\ i \in gated /\ RepairInputs(i) = {}
  BY DEF RetireItem, IsNext, IInv, RepairInv, RepairIsGrounded, PassOneInv
<1>2. Source(i) \in Known(ledger)
  BY <1>1, EnumerateType DEF IInv
<1>3. i \in Entry => i \in indexed
  BY <1>1, DescendantsAreKnown, ImporterAssumption DEF Enumerate, Known, Item
<1>4. /\ i \in Entry => text'[i] = None
      /\ \A v \in Entry : v # i => text'[v] = text[v]
  BY DEF RetireItem, IInv, TypeOK
<1>5. ledger' = ledger /\ indexed' = indexed /\ gated' = gated /\ retired' = retired \cup {i}
  BY DEF RetireItem
<1> QED
  BY <1>1, <1>2, <1>3, <1>4, <1>5 DEF TextOf

\* What indexing touches: one entry that was not indexed.
LEMMA IndexFacts ==
    ASSUME IInv, NEW v \in Entry, Index(v)
    PROVE  /\ v \notin indexed
           /\ ledger' = ledger /\ indexed' = indexed \cup {v}
           /\ SourceOf[v] \in Known(ledger) => TextOf(v)' = TextOf(SourceOf[v])
           /\ SourceOf[v] \notin Known(ledger) => TextOf(v)' = LooseText[v]
           /\ \A j \in Item : j # v => TextOf(j)' = TextOf(j)
  BY ImporterAssumption DEF Index, TextOf, IInv, TypeOK, Known, Item

\* A source comes before its item.
LEMMA SourceComesFirst ==
    ASSUME NEW i \in Item
    PROVE  Source(i) \in ArtifactId /\ Source(i) \notin Entry
           /\ Source(Source(i)) = Source(i) /\ Source(i) <= i /\ i \in Nat /\ Source(i) \in Nat
  BY ImporterAssumption DEF Source, Item

\* A rebuild in the sorted order of derivation joins texts that are clean.
LEMMA JoinedIsClean ==
    ASSUME RInv, RebuiltIsAmended, SortedByDerivation, ClaimsStayAtHome,
           job.phase = "rebuild", NEW i \in Item, IsNext(i)
    PROVE  job.event.negative
             \notin JoinedText(ledger, SurvivingInputs(i), job.event.replacement)
<1> DEFINE e == job.event
<1>1. /\ e \in Event /\ i \in Enumerate(e.root)
      /\ \A j \in Enumerate(e.root) : RepairInputs(j) = {} <=> Source(j) \in job.dropped
      /\ \A j \in job.todo : i <= j
  BY DEF IsNext, RInv, IInv, RepairInv, RepairIsGrounded, PassTwoInv
<1>2. Source(i) \in Known(ledger)
  BY <1>1, EnumerateType DEF RInv, IInv
<1>3. e.negative # e.replacement
  BY <1>1 DEF ClaimsStayAtHome
<1>4. ASSUME NEW b \in SurvivingInputs(i) PROVE e.negative \notin ledger[b].content
  <2>1. b \in ledger[Source(i)].inputs /\ b \in Known(ledger) /\ b \notin job.dropped
    BY <1>2 DEF SurvivingInputs, RepairInputs, RInv, IInv, RepairInv, IsRooted
  <2>2. CASE b \notin Descendants(ledger, e.root)
    BY <1>1, <2>1, <2>2 DEF ClaimsStayAtHome
  <2>3. CASE b \in Descendants(ledger, e.root)
    <3>1. b \in ArtifactId /\ b \in Item /\ b \in Enumerate(e.root)
      BY <2>1, <2>3 DEF Known, Item, Enumerate
    <3>2. b \notin Entry /\ Source(b) = b
      BY <3>1, ImporterAssumption DEF Source, Item
    <3>3. RepairInputs(b) # {}
      BY <1>1, <2>1, <3>1, <3>2
    <3>4. b < i
      BY <1>2, <2>1, <3>1, SourceComesFirst DEF SortedByDerivation
    <3>5. b \notin job.todo
      BY <1>1, <3>1, <3>4, SourceComesFirst
    <3>6. e.negative \notin TextOf(b)
      BY <3>1, <3>3, <3>5 DEF RebuiltIsAmended
    <3> QED
      BY <3>2, <3>6 DEF TextOf
  <2> QED
    BY <2>2, <2>3
<1> QED
  BY <1>3, <1>4 DEF JoinedText

LEMMA RetiredIsDirectStep ==
    ASSUME RInv, RetiredIsDirect, [Next]_vars, KeepsLineage
    PROVE  RetiredIsDirect'
<1>0. /\ Known(ledger) \subseteq Known(ledger') /\ indexed \subseteq indexed'
      /\ \A i \in Item : Source(i) \in Known(ledger) => RepairInputs(i)' = RepairInputs(i)
      /\ retired \subseteq Item
  BY StoresGrow, LineageGrows DEF RInv, IInv, TypeOK
<1>1. ASSUME retired' = retired, \A v \in Entry \cap retired : text'[v] = text[v]
      PROVE  RetiredIsDirect'
  BY <1>0, <1>1 DEF RetiredIsDirect, Source
<1>2. ASSUME NEW i \in Item, RetireItem(i) PROVE RetiredIsDirect'
  <2>1. \A v \in Entry : v # i => text'[v] = text[v]
    BY <1>2 DEF RetireItem, RInv, IInv, TypeOK
  <2>2. RepairInputs(i)' = RepairInputs(i) /\ Source(i) \in Known(ledger')
    BY <1>0, <1>2, RetireFacts DEF RInv
  <2> QED
    BY <1>0, <1>2, <2>1, <2>2, RetireFacts DEF RetiredIsDirect, RInv, Source
<1>3. ASSUME NEW i \in Item, RebuildItem(i) PROVE RetiredIsDirect'
  <2>1. i \notin retired /\ retired' = retired
    BY <1>3, RebuildFacts DEF RetiredIsDirect, RebuildItem, RInv
  <2>2. \A v \in Entry : v # i => text'[v] = text[v]
    BY <1>3 DEF RebuildItem, RInv, IInv, TypeOK
  <2> QED
    BY <1>1, <2>1, <2>2
<1>4. ASSUME NEW v \in Entry, Index(v) PROVE RetiredIsDirect'
  <2>1. v \notin retired /\ retired' = retired
    BY <1>4 DEF RetiredIsDirect, Index
  <2>2. \A u \in Entry : u # v => text'[u] = text[u]
    BY <1>4 DEF Index, RInv, IInv, TypeOK
  <2> QED
    BY <1>1, <2>1, <2>2
<1>5. ASSUME retired' = retired, text' = text PROVE RetiredIsDirect'
  BY <1>1, <1>5
<1> QED
  BY <1>2, <1>3, <1>4, <1>5
    DEF Next, RepairStep, Quarantine, BeginRepair, EndPassOne, Attest,
        Interrupt, Reimport, Derive, vars, storeVars

LEMMA RebuiltIsAmendedStep ==
    ASSUME RInv, RebuiltIsAmended, SortedByDerivation, ClaimsStayAtHome, [Next]_vars
    PROVE  RebuiltIsAmended'
<1>1. ASSUME NEW i \in Item, RebuildItem(i) PROVE RebuiltIsAmended'
  <2>1. /\ job.phase = "rebuild" /\ IsNext(i)
        /\ job'.phase = "rebuild" /\ job'.event = job.event /\ job'.todo = job.todo \ {i}
    BY <1>1 DEF RebuildItem, RInv, IInv, TypeOK
  <2>2. /\ job.event.negative \notin TextOf(i)'
        /\ job.event.replacement # None => job.event.replacement \in TextOf(i)'
    <3>1. job.event.replacement # None
            => job.event.replacement
                 \in JoinedText(ledger, SurvivingInputs(i), job.event.replacement)
      BY DEF JoinedText
    <3> QED
      BY <1>1, <2>1, <3>1, JoinedIsClean, RebuildFacts DEF RInv
  <2>3. /\ \A r : Enumerate(r)' = Enumerate(r)
        /\ \A j \in Enumerate(job.event.root) : RepairInputs(j)' = RepairInputs(j)
    BY <1>1, RebuildFacts, EnumerateType DEF RInv, IInv
  <2>4. Enumerate(job.event.root) \subseteq Item
    BY EnumerateType DEF RInv, IInv
  <2>5. \A j \in Item : j # i => TextOf(j)' = TextOf(j)
    BY <1>1, RebuildFacts DEF RInv
  <2> QED
    BY <2>1, <2>2, <2>3, <2>4, <2>5 DEF RebuiltIsAmended
<1>2. CASE EndPassOne
  <2>1. /\ job.phase = "retire" /\ job'.event = job.event
        /\ job'.todo = {i \in checkpoint[job.event].items : Source(i) \notin job.dropped}
        /\ ledger' = ledger /\ indexed' = indexed
    BY <1>2 DEF EndPassOne, storeVars, RInv, IInv, TypeOK
  <2>2. /\ checkpoint[job.event].items = Enumerate(job.event.root)
        /\ \A a \in job.dropped : ledger[a].inputs = {}
    BY <2>1 DEF RInv, IInv, RepairInv, RepairIsGrounded
  <2> QED
    BY <2>1, <2>2, SameLineageSameItems DEF RebuiltIsAmended, RepairInputs
<1>3. ASSUME job'.phase # "rebuild" PROVE RebuiltIsAmended'
  BY <1>3 DEF RebuiltIsAmended
<1>4. ASSUME NEW i \in Item, RetireItem(i) PROVE job'.phase # "rebuild"
  BY <1>4 DEF RetireItem, RInv, IInv, TypeOK
<1>5. CASE UNCHANGED vars
  BY <1>5, SameLineageSameItems DEF vars, storeVars, RebuiltIsAmended, TextOf
<1>6. ASSUME NEW e \in Event, BeginRepair(e) PROVE job'.phase # "rebuild"
  BY <1>6 DEF BeginRepair
<1>7. ASSUME job' = Idle PROVE job'.phase # "rebuild"
  BY <1>7 DEF Idle
<1> QED
  BY <1>1, <1>2, <1>3, <1>4, <1>5, <1>6, <1>7
    DEF Next, RepairStep, Quarantine, Attest, Interrupt, Reimport, Derive, Index

LEMMA ServedIsRebuiltStep ==
    ASSUME RInv, OpenIsNext, RebuiltIsAmended, ServedIsRebuilt,
           SortedByDerivation, ClaimsStayAtHome, [Next]_vars, KeepsLineage
    PROVE  ServedIsRebuilt'
<1>0. /\ \A i \in Item : Source(i) \in Known(ledger) => RepairInputs(i)' = RepairInputs(i)
      /\ \A r : Enumerate(r) \subseteq Item
      /\ \A r : \A i \in Enumerate(r) : /\ Source(i) \in Known(ledger)
                                        /\ i \notin Entry => i \in Known(ledger)
                                        /\ i \in Entry => i \in indexed
  <2>1. \A r : \A i \in Enumerate(r) : i \in Entry => i \in indexed
    BY DescendantsAreKnown, ImporterAssumption DEF Enumerate, Known, Item
  <2> QED
    BY <2>1, LineageGrows, EnumerateType DEF RInv, IInv
<1>1. ASSUME UNCHANGED <<checkpoint, lastSequence>>,
             \A e \in Event : Open(e) =>
                 \A i \in checkpoint[e].items \ gated' :
                     i \notin gated /\ TextOf(i)' = TextOf(i)
      PROVE  ServedIsRebuilt'
  <2> SUFFICES ASSUME NEW e \in Event, Open(e), NEW i \in checkpoint[e].items \ gated'
               PROVE  RepairInputs(i)' # {} /\ e.negative \notin TextOf(i)'
    BY <1>1 DEF ServedIsRebuilt, Open
  <2>1. RepairInputs(i) # {} /\ e.negative \notin TextOf(i)
    BY <1>1 DEF ServedIsRebuilt
  <2>2. RepairInputs(i)' = RepairInputs(i)
    BY <1>0 DEF OpenIsNext
  <2> QED
    BY <1>1, <2>1, <2>2
<1>2. ASSUME NEW e \in Event, Quarantine(e) PROVE ServedIsRebuilt'
  <2>1. gated' = gated \cup Enumerate(e.root)
    BY <1>2 DEF Quarantine
  <2> QED
    BY <1>2, <2>1, QuarantineOpens DEF ServedIsRebuilt
<1>3. CASE Attest
  BY <1>3, NoneIsOpenAfterAttest DEF ServedIsRebuilt
<1>4. ASSUME NEW i \in Item, RebuildItem(i) PROVE ServedIsRebuilt'
  <2>1. /\ job.phase = "rebuild" /\ IsNext(i) /\ gated' = gated \ {i}
        /\ UNCHANGED <<checkpoint, lastSequence>>
    BY <1>4 DEF RebuildItem, LiftGate, feedVars
  <2> SUFFICES ASSUME NEW e \in Event, Open(e), NEW j \in checkpoint[e].items \ gated'
               PROVE  RepairInputs(j)' # {} /\ e.negative \notin TextOf(j)'
    BY <2>1 DEF ServedIsRebuilt, Open
  <2>2. e = job.event /\ j \in Enumerate(e.root)
    BY <2>1, JobIsTheOpenOne DEF OpenIsNext
  <2>3. RepairInputs(j)' = RepairInputs(j) /\ j \in Item
    BY <1>0, <2>2
  <2>4. CASE j = i
    BY <1>4, <2>1, <2>2, <2>3, <2>4, RebuildFacts, JoinedIsClean DEF RInv
  <2>5. CASE j # i
    <3>1. RepairInputs(j) # {} /\ e.negative \notin TextOf(j)
      BY <2>1, <2>5 DEF ServedIsRebuilt
    <3> QED
      BY <1>4, <2>3, <2>5, <3>1, RebuildFacts DEF RInv
  <2> QED
    BY <2>4, <2>5
<1>5. ASSUME NEW i \in Item, RetireItem(i) PROVE ServedIsRebuilt'
  BY <1>0, <1>1, <1>5, RetireFacts DEF RInv, OpenIsNext, RetireItem, feedVars
<1>6. ASSUME NEW r \in Root, NEW s \in Stamp, Reimport(r, s) PROVE ServedIsRebuilt'
  <2>1. gated' = gated /\ UNCHANGED <<checkpoint, lastSequence>>
    BY <1>6 DEF Reimport, feedVars
  <2>2. ASSUME NEW e \in Event, Open(e), NEW i \in checkpoint[e].items \ gated
        PROVE  i \in Item /\ i # ReimportId[s]
    <3>1. i \in Enumerate(e.root) /\ RepairInputs(i) # {}
      BY <2>2 DEF OpenIsNext, ServedIsRebuilt
    <3>2. /\ ReimportId[s] \notin Entry
          /\ ReimportId[s] \in Known(ledger) => ledger[ReimportId[s]].inputs = {}
      BY <1>6, ReimportFacts DEF RInv
    <3> QED
      BY <1>0, <3>1, <3>2 DEF RepairInputs, Source
  <2>3. \A j \in Item : j # ReimportId[s] => TextOf(j)' = TextOf(j)
    BY <1>6, ReimportTexts DEF RInv
  <2> QED
    BY <1>1, <2>1, <2>2, <2>3
<1>7. ASSUME NEW a \in DOMAIN Derivation, Derive(a) PROVE ServedIsRebuilt'
  <2>1. gated' = gated /\ UNCHANGED <<checkpoint, lastSequence>>
    BY <1>7 DEF Derive, feedVars
  <2>2. ASSUME NEW e \in Event, Open(e), NEW i \in checkpoint[e].items \ gated
        PROVE  i \in Item /\ i # a
    BY <1>0, <1>7, <2>2, DeriveFacts DEF RInv, OpenIsNext
  <2> QED
    BY <1>1, <1>7, <2>1, <2>2, DeriveFacts DEF RInv
<1>8. ASSUME NEW v \in Entry, Index(v) PROVE ServedIsRebuilt'
  BY <1>0, <1>1, <1>8, IndexFacts DEF RInv, OpenIsNext, Index, feedVars
<1>9. ASSUME UNCHANGED <<ledger, text, gated, checkpoint, lastSequence>> PROVE ServedIsRebuilt'
  BY <1>1, <1>9 DEF TextOf
<1> QED
  BY <1>2, <1>3, <1>4, <1>5, <1>6, <1>7, <1>8, <1>9
    DEF Next, RepairStep, BeginRepair, EndPassOne, Interrupt, vars, storeVars, feedVars

LEMMA ServingStep ==
    RInv /\ OpenIsNext /\ ServingInv /\ SortedByDerivation /\ ClaimsStayAtHome /\ KeptStep
        => ServingInv'
  BY RetiredIsDirectStep, RebuiltIsAmendedStep, ServedIsRebuiltStep DEF ServingInv, KeptStep

LEMMA ServingInit == Init => ServingInv
  BY DEF Init, Idle, ServingInv, RetiredIsDirect, RebuiltIsAmended, ServedIsRebuilt, Open

\* A step that leaves everything as it is keeps the lineage too.
LEMMA StepsAreKept == [Next]_vars /\ [KeepsLineage]_vars => KeptStep
  BY DEF KeptStep, KeepsLineage, vars, storeVars

\* From quarantine to receipt nothing that an erratum gated serves what the
\* erratum retires, in whatever order the host interrupts, retries, derives and
\* re-exports, if the ids sort inputs first and only the root's own descendants
\* state the claim.
THEOREM OpenErrataServeNothingStale ==
    Spec /\ LineageIsKept /\ []SortedByDerivation /\ []ClaimsStayAtHome
        => []OpenErratumServesNothingStale
<1>1. Init => OpenIsNext /\ ServingInv
  BY ServingInit DEF Init, OpenIsNext, Open
<1>2. RInv /\ OpenIsNext /\ NothingStrandedBehindAGate /\ KeptStep => OpenIsNext'
  BY GateStep DEF GateInv
<1>3. OpenIsNext /\ ServingInv => OpenErratumServesNothingStale
  <2> SUFFICES ASSUME OpenIsNext, ServingInv, NEW e \in Event, Open(e),
                      NEW i \in checkpoint[e].items \cap Visible
               PROVE  e.negative \notin TextOf(i)
    BY DEF OpenErratumServesNothingStale, Open
  <2> QED
    BY DEF Visible, ServingInv, ServedIsRebuilt
<1> QED
  BY <1>1, <1>2, <1>3, StepsAreKept, ServingStep, GatesAreReopened, RefinementInvariant, PTL
    DEF Spec, LineageIsKept

-----------------------------------------------------------------------------
\* What an applied erratum keeps clean.

\* A receipt moves the applied sequence of its root, which never moves back.
AppliedIsRecorded ==
    \A rc \in receipts :
        rc.event.root \in Root => applied[rc.event.root] >= rc.event.seq

\* No descendant of an amended root states the claim, gated or not, unless it
\* is itself retired.
AppliedIsClean ==
    \A rc \in receipts :
        \A i \in Enumerate(rc.event.root) \ retired :
            rc.event.negative \notin TextOf(i)

\* Attest adds one receipt, for the event of the repair that ends.
LEMMA AttestFacts ==
    ASSUME RInv, Attest
    PROVE  /\ job.phase = "rebuild" /\ job.todo = {} /\ job.event \in Event
           /\ job.event.seq = lastSequence + 1 /\ lastSequence \in Nat
           /\ \A rc \in receipts' : rc \in receipts \/ rc.event = job.event
           /\ \A rc \in receipts : rc.event \in Event /\ rc.event.seq \in 1..lastSequence
           /\ applied' = [applied EXCEPT ![job.event.root] = job.event.seq]
           /\ applied \in [Root -> Nat]
           /\ UNCHANGED <<ledger, text, indexed, retired>>
<1>1. /\ job.phase = "rebuild" /\ job.todo = {} /\ job.event \in Event
      /\ job.event.seq = lastSequence + 1 /\ lastSequence \in Nat
      /\ applied \in [Root -> Nat]
  BY DEF Attest, RInv, IInv, RepairInv, RepairIsGrounded, TypeOK
<1>2. \A rc \in receipts' : rc \in receipts \/ rc.event = job.event
  <2> DEFINE new == [event     |-> job.event,
                     stores    |-> ReceiptStores(job.event),
                     triad     |-> Triad(job.event),
                     aggregate |-> AggregateCoverage(ReceiptStores(job.event), Triad(job.event))]
  <2>1. receipts' = receipts \cup {new} /\ new.event = job.event
    BY DEF Attest
  <2> HIDE DEF new
  <2> QED
    BY <2>1
<1>3. \A rc \in receipts : rc.event \in Event /\ rc.event.seq \in 1..lastSequence
  BY DEF RInv, IInv, TypeOK, ReceiptsFollowTheFeed
<1> QED
  BY <1>1, <1>2, <1>3 DEF Attest, storeVars

LEMMA AppliedIsRecordedStep ==
    ASSUME RInv, AppliedIsRecorded, [Next]_vars
    PROVE  AppliedIsRecorded'
<1>1. CASE Attest
  <2> SUFFICES ASSUME NEW rc \in receipts', rc.event.root \in Root
               PROVE  applied'[rc.event.root] >= rc.event.seq
    BY DEF AppliedIsRecorded
  <2>1. CASE rc.event = job.event
    BY <1>1, <2>1, AttestFacts
  <2>2. CASE rc \in receipts
    BY <1>1, <2>2, AttestFacts DEF AppliedIsRecorded
  <2> QED
    BY <1>1, <2>1, <2>2, AttestFacts
<1>2. ASSUME receipts' = receipts, applied' = applied PROVE AppliedIsRecorded'
  BY <1>2 DEF AppliedIsRecorded
<1> QED
  BY <1>1, <1>2
    DEF Next, RepairStep, Quarantine, BeginRepair, RetireItem, EndPassOne, RebuildItem,
        Interrupt, Reimport, Derive, Index, vars, feedVars

\* A descendant without inputs is a direct import.
LEMMA RootsOfDescendants ==
    ASSUME NEW l, NEW r, NEW a \in Descendants(l, r), l[a].inputs = {}
    PROVE  l[a].root = r
  BY DEF Descendants, DirectlyFrom, Derived

\* A rebuild under a later erratum brings nothing back.
LEMMA RebuildStaysClean ==
    ASSUME RInv, RetiredIsDirect, AppliedIsClean,
           ClaimsStayAtHome, AmendedRootsAreApart, RetiredForGood,
           NEW i \in Item, RebuildItem(i), NEW rc \in receipts,
           i \in Enumerate(rc.event.root)
    PROVE  rc.event.negative \notin TextOf(i)'
<1> DEFINE e == job.event
           g == rc.event
<1>1. /\ e \in Event /\ e.seq = lastSequence + 1 /\ i \in Enumerate(e.root)
      /\ TextOf(i)' = JoinedText(ledger, SurvivingInputs(i), e.replacement)
      /\ \A j \in Enumerate(e.root) : RepairInputs(j) = {} => Source(j) \in job.dropped
  BY RebuildFacts DEF RebuildItem, RInv, IInv, RepairInv, PassTwoInv
<1>2. g \in Event /\ g.seq < e.seq
  <2>1. g \in Event /\ lastSequence \in Nat
    BY DEF RInv, IInv, TypeOK
  <2>2. g.seq \in 1..lastSequence
    BY DEF RInv, ReceiptsFollowTheFeed
  <2> QED
    BY <1>1, <2>1, <2>2
<1>3. e.replacement # g.negative
  BY <1>1, <1>2 DEF RetiredForGood
<1>4. Source(i) \in Known(ledger) /\ \A r : i \in Enumerate(r) => Source(i) \in Descendants(ledger, r)
  <2>1. \A r : Descendants(ledger, r) \subseteq ArtifactId
    BY DescendantsAreKnown DEF Known
  <2>2. \A a \in ArtifactId : a \notin Entry
    BY ImporterAssumption DEF Item
  <2>3. indexed \subseteq Entry
    BY DEF RInv, IInv, TypeOK
  <2> QED
    BY <1>1, <2>1, <2>2, <2>3, EnumerateType DEF Enumerate, Source, RInv, IInv
<1>5. e.root = g.root
  BY <1>1, <1>2, <1>4 DEF AmendedRootsAreApart
<1>6. ASSUME NEW b \in SurvivingInputs(i) PROVE g.negative \notin ledger[b].content
  <2>1. b \in ledger[Source(i)].inputs /\ b \in Known(ledger) /\ b \notin job.dropped
    BY <1>4 DEF SurvivingInputs, RepairInputs, RInv, IInv, RepairInv, IsRooted
  <2>2. CASE b \notin Descendants(ledger, g.root)
    BY <1>2, <2>1, <2>2 DEF ClaimsStayAtHome
  <2>3. CASE b \in Descendants(ledger, g.root)
    <3>1. b \in Item /\ b \in Enumerate(g.root)
      BY <2>1, <2>3 DEF Known, Item, Enumerate
    <3>2. b \notin Entry /\ Source(b) = b
      BY <2>1, ImporterAssumption DEF Source, Item, Known
    <3>3. RepairInputs(b) # {}
      BY <1>1, <1>5, <2>1, <3>1, <3>2
    <3>4. b \notin retired
      BY <3>3 DEF RetiredIsDirect
    <3> QED
      BY <3>1, <3>2, <3>4 DEF AppliedIsClean, TextOf
  <2> QED
    BY <2>2, <2>3
<1> QED
  BY <1>1, <1>3, <1>6 DEF JoinedText

\* An entry of an artifact elsewhere, or of none that is registered, does not
\* state what an erratum retires, although nothing refreshes it when its
\* artifact changes.
EntriesStayAtHome ==
    \A e \in Event : \A v \in indexed \ (Enumerate(e.root) \cup retired) :
        e.negative \notin text[v]

\* A rebuilt entry takes the replacement its artifact took before it, which is
\* no claim of another root, and the texts of inputs that are elsewhere too.
LEMMA RebuiltEntryStaysAtHome ==
    ASSUME RInv, RebuiltIsAmended, SortedByDerivation, ClaimsStayAtHome,
           NEW i \in Entry, RebuildItem(i), NEW e \in Event, i \notin Enumerate(e.root)
    PROVE  e.negative \notin TextOf(i)'
<1> DEFINE f == job.event
           s == SourceOf[i]
<1>1. /\ f \in Event /\ i \in Enumerate(f.root) /\ i \in indexed /\ RepairInputs(i) # {}
      /\ TextOf(i)' = JoinedText(ledger, SurvivingInputs(i), f.replacement)
      /\ job.phase = "rebuild" /\ \A j \in job.todo : i <= j
  <2>1. i \in Item
    BY DEF Item
  <2>2. /\ f \in Event /\ i \in Enumerate(f.root) /\ RepairInputs(i) # {}
        /\ TextOf(i)' = JoinedText(ledger, SurvivingInputs(i), f.replacement)
    BY <2>1, RebuildFacts DEF RInv
  <2>3. i \in indexed
    BY <2>2, DescendantsAreKnown, ImporterAssumption DEF Enumerate, Known, Item
  <2> QED
    BY <2>2, <2>3 DEF RebuildItem, IsNext
<1>2. /\ s \in ArtifactId /\ s \in Known(ledger) /\ s \notin Entry /\ s < i
      /\ s \in Descendants(ledger, f.root) /\ s \notin Descendants(ledger, e.root)
  <2>1. s \in ArtifactId /\ s \notin Entry /\ s < i
    BY ImporterAssumption DEF Item
  <2>2. s \in Known(ledger)
    BY <1>1, EnumerateType DEF Source, RInv, IInv
  <2>3. i \notin ArtifactId
    BY ImporterAssumption DEF Item
  <2> QED
    BY <1>1, <2>1, <2>2, <2>3, DescendantsAreKnown DEF Enumerate, Known
<1>3. RepairInputs(i) = ledger[s].inputs /\ RepairInputs(s) = ledger[s].inputs
  BY <1>2 DEF RepairInputs, Source
<1>4. \A b \in SurvivingInputs(i) : e.negative \notin ledger[b].content
  <2>1. s \in Derived(ledger)
    BY <1>1, <1>2, <1>3 DEF Derived
  <2>2. \A b \in ledger[s].inputs : b \in Known(ledger) /\ b \notin Descendants(ledger, e.root)
    BY <1>2, <2>1, DescendantsAreClosed DEF ClosedUnderDerivation, RInv, IInv, RepairInv, IsRooted
  <2> QED
    BY <1>3, <2>2 DEF SurvivingInputs, ClaimsStayAtHome
<1>5. f.replacement # None => f.replacement # e.negative
  <2>1. s \notin job.todo
    <3>1. s \in Nat /\ i \in Nat
      BY <1>2, ImporterAssumption DEF Item
    <3> QED
      BY <1>1, <1>2, <3>1
  <2>2. s \in Enumerate(f.root) /\ RepairInputs(s) # {}
    BY <1>1, <1>2, <1>3 DEF Enumerate
  <2>3. f.replacement # None => f.replacement \in ledger[s].content
    BY <1>1, <1>2, <2>1, <2>2 DEF RebuiltIsAmended, TextOf
  <2>4. e.negative \notin ledger[s].content
    BY <1>2 DEF ClaimsStayAtHome
  <2> QED
    BY <2>3, <2>4
<1> QED
  BY <1>1, <1>4, <1>5 DEF JoinedText

LEMMA EntriesStayAtHomeStep ==
    ASSUME RInv, RebuiltIsAmended, EntriesStayAtHome,
           SortedByDerivation, ClaimsStayAtHome, [Next]_vars, KeepsLineage
    PROVE  EntriesStayAtHome'
<1>0. \A r : Enumerate(r) \subseteq Enumerate(r)'
  BY LineageGrows DEF RInv
<1>t. text \in [Entry -> {None} \cup Text] /\ indexed \subseteq Entry
  BY DEF RInv, IInv, TypeOK
<1>1. ASSUME indexed' = indexed, text' = text, retired \subseteq retired'
      PROVE  EntriesStayAtHome'
  BY <1>0, <1>1 DEF EntriesStayAtHome
<1>2. ASSUME NEW i \in Entry, indexed' = indexed, retired \subseteq retired',
             \A v \in Entry : v # i => text'[v] = text[v],
             \A e \in Event : i \notin Enumerate(e.root) /\ i \notin retired'
                 => e.negative \notin text'[i]
      PROVE  EntriesStayAtHome'
  <2> SUFFICES ASSUME NEW e \in Event, NEW v \in indexed, v \notin Enumerate(e.root),
                      v \notin retired'
               PROVE  e.negative \notin text'[v]
    BY <1>0, <1>2 DEF EntriesStayAtHome
  <2> QED
    BY <1>t, <1>2 DEF EntriesStayAtHome
<1>3. ASSUME NEW i \in Item, RebuildItem(i) PROVE EntriesStayAtHome'
  <2>0. indexed' = indexed /\ retired' = retired
    BY <1>3 DEF RebuildItem
  <2>1. CASE i \notin Entry
    BY <1>1, <1>3, <2>0, <2>1 DEF RebuildItem
  <2>2. CASE i \in Entry
    <3>1. \A v \in Entry : v # i => text'[v] = text[v]
      BY <1>3, <1>t, <2>2 DEF RebuildItem
    <3>2. \A e \in Event : i \notin Enumerate(e.root) => e.negative \notin text'[i]
      BY <1>3, <2>2, RebuiltEntryStaysAtHome DEF TextOf
    <3> QED
      BY <1>2, <2>0, <2>2, <3>1, <3>2
  <2> QED
    BY <2>1, <2>2
<1>4. ASSUME NEW i \in Item, RetireItem(i) PROVE EntriesStayAtHome'
  <2>0. indexed' = indexed /\ retired' = retired \cup {i}
    BY <1>4 DEF RetireItem
  <2>1. CASE i \notin Entry
    BY <1>1, <1>4, <2>0, <2>1 DEF RetireItem
  <2>2. CASE i \in Entry
    <3>1. \A v \in Entry : v # i => text'[v] = text[v]
      BY <1>4, <1>t, <2>2 DEF RetireItem
    <3> QED
      BY <1>2, <2>0, <2>2, <3>1
  <2> QED
    BY <2>1, <2>2
<1>5. ASSUME NEW v \in Entry, Index(v) PROVE EntriesStayAtHome'
  <2>1. /\ indexed' = indexed \cup {v} /\ ledger' = ledger /\ retired' = retired
        /\ SourceOf[v] \in Known(ledger) => text'[v] = ledger[SourceOf[v]].content
        /\ SourceOf[v] \notin Known(ledger) => text'[v] = LooseText[v]
        /\ \A u \in Entry : u # v => text'[u] = text[u]
    BY <1>5, <1>t DEF Index
  <2>2. ASSUME NEW e \in Event, v \notin Enumerate(e.root)'
        PROVE  e.negative \notin text'[v]
    <3>1. SourceOf[v] \notin Descendants(ledger, e.root)
      BY <2>1, <2>2 DEF Enumerate
    <3> QED
      BY <2>1, <3>1 DEF ClaimsStayAtHome
  <2> SUFFICES ASSUME NEW e \in Event, NEW u \in indexed', u \notin Enumerate(e.root)',
                      u \notin retired
               PROVE  e.negative \notin text'[u]
    BY <2>1 DEF EntriesStayAtHome
  <2> QED
    BY <1>0, <1>t, <2>1, <2>2 DEF EntriesStayAtHome
<1> QED
  BY <1>1, <1>3, <1>4, <1>5
    DEF Next, RepairStep, Quarantine, BeginRepair, EndPassOne, Attest, Interrupt,
        Reimport, Derive, vars, storeVars

\* So a step that registers the source of an entry indexed before it finds it
\* clean, and any other descendant was one before.
LEMMA NewcomersAreClean ==
    ASSUME RInv, EntriesStayAtHome, [Next]_vars, KeepsLineage,
           NEW a \in ArtifactId, Known(ledger') = Known(ledger) \cup {a},
           indexed' = indexed, retired' = retired,
           NEW e \in Event, NEW i \in Enumerate(e.root)', i # a, i \notin retired
    PROVE  \/ i \in Entry /\ e.negative \notin text[i]
           \/ i \in Enumerate(e.root)
<1>1. Source(i) \in Known(ledger') /\ (i \in Entry => i \in indexed)
  BY DescendantsAreKnown, ImporterAssumption DEF Enumerate, Source, Known, Item, RInv, IInv, TypeOK
<1>2. CASE Source(i) \in Known(ledger)
  BY <1>1, <1>2, LineageGrows DEF RInv
<1>3. CASE Source(i) \notin Known(ledger)
  <2>1. i \in Entry
    BY <1>1, <1>3 DEF Source
  <2>2. i \notin Enumerate(e.root)
    BY <1>3, EnumerateType DEF RInv, IInv
  <2> QED
    BY <1>1, <2>1, <2>2 DEF EntriesStayAtHome
<1> QED
  BY <1>2, <1>3

LEMMA AppliedIsCleanStep ==
    ASSUME RInv, RetiredIsDirect, RebuiltIsAmended, AppliedIsRecorded, AppliedIsClean,
           EntriesStayAtHome, ClaimsStayAtHome, AmendedRootsAreApart, RetiredForGood,
           [Next]_vars, KeepsLineage, ReadsLive
    PROVE  AppliedIsClean'
<1>0. /\ \A r : \A i \in Enumerate(r)' :
              Source(i) \in Known(ledger) /\ (i \in Entry => i \in indexed)
                 => i \in Enumerate(r)
      /\ \A r : Enumerate(r)' \subseteq Item
      /\ \A r : \A i \in Enumerate(r)' : Source(i) \in Descendants(ledger', r)
      /\ \A r : \A i \in Enumerate(r)' : i \in Entry => i \in indexed'
  <2>1. \A r : Descendants(ledger', r) \subseteq ArtifactId
    BY DescendantsAreKnown DEF Known
  <2>2. \A a \in ArtifactId : a \notin Entry
    BY ImporterAssumption DEF Item
  <2>3. indexed' \subseteq Entry
    BY TypeStep DEF RInv, IInv, TypeOK
  <2> QED
    BY <2>1, <2>2, <2>3, LineageGrows DEF Enumerate, Source, Item, RInv
<1>a. \A rc \in receipts : rc.event \in Event
  BY DEF RInv, IInv, TypeOK
\* A step that states nothing new about what was there.
<1>1. ASSUME receipts' = receipts, retired \subseteq retired',
             \A rc \in receipts : \A i \in Enumerate(rc.event.root)' \ retired' :
                 \/ rc.event.negative \notin TextOf(i)'
                 \/ i \in Enumerate(rc.event.root) /\ TextOf(i)' = TextOf(i)
      PROVE  AppliedIsClean'
  BY <1>1 DEF AppliedIsClean
<1>2. CASE Attest
  <2> SUFFICES ASSUME NEW rc \in receipts', NEW i \in Enumerate(rc.event.root), i \notin retired
               PROVE  rc.event.negative \notin TextOf(i)
    BY <1>2, AttestFacts, SameLineageSameItems DEF AppliedIsClean, TextOf
  <2>1. CASE rc.event = job.event
    <3>1. RepairInputs(i) # {} /\ i \notin job.todo
      BY <1>2, <2>1, AttestFacts DEF RInv, IInv, RepairInv, PassTwoInv
    <3> QED
      BY <1>2, <2>1, <3>1, AttestFacts DEF RebuiltIsAmended
  <2>2. CASE rc \in receipts
    BY <2>2 DEF AppliedIsClean
  <2> QED
    BY <1>2, <2>1, <2>2, AttestFacts
<1>3. ASSUME NEW i \in Item, RebuildItem(i) PROVE AppliedIsClean'
  <2>1. receipts' = receipts /\ retired' = retired
    BY <1>3 DEF RebuildItem
  <2>2. \A r : Enumerate(r)' = Enumerate(r)
    BY <1>3, RebuildFacts DEF RInv
  <2>3. \A j \in Item : j # i => TextOf(j)' = TextOf(j)
    BY <1>3, RebuildFacts DEF RInv
  <2>4. \A rc \in receipts : i \in Enumerate(rc.event.root) => rc.event.negative \notin TextOf(i)'
    BY <1>3, RebuildStaysClean
  <2> QED
    BY <1>0, <1>1, <2>1, <2>2, <2>3, <2>4
<1>4. ASSUME NEW r \in Root, NEW s \in Stamp, Reimport(r, s) PROVE AppliedIsClean'
  <2> DEFINE id == ReimportId[s]
  <2>1. receipts' = receipts /\ retired' = retired /\ indexed' = indexed
    BY <1>4 DEF Reimport
  <2>2. id \in ArtifactId /\ id \notin Entry /\ Source(id) = id
    BY <1>4, ReimportFacts DEF RInv, Source
  <2>3. ledger'[id] = [root |-> r, inputs |-> {}, content |-> ExportText[r][s]]
        /\ Known(ledger') = Known(ledger) \cup {id}
    BY <1>4, ReimportFacts DEF RInv
  <2>4. \A j \in Item : j # id => TextOf(j)' = TextOf(j)
    BY <1>4, ReimportTexts DEF RInv
  <2>5. ASSUME NEW rc \in receipts, id \in Enumerate(rc.event.root)'
        PROVE  rc.event.negative \notin TextOf(id)'
    <3>1. rc.event.root = r
      BY <1>0, <2>2, <2>3, <2>5, RootsOfDescendants
    <3>2. applied[r] >= rc.event.seq /\ rc.event.seq >= 1 /\ applied[r] \in Nat /\ rc.event.seq \in Nat
      <4>1. rc.event.seq \in 1..lastSequence /\ lastSequence \in Nat
        BY DEF RInv, IInv, TypeOK, ReceiptsFollowTheFeed
      <4> QED
        BY <3>1, <4>1 DEF AppliedIsRecorded, RInv, IInv, TypeOK
    <3>3. s > rc.event.seq
      <4>1. ~(applied[r] # 0 /\ s <= applied[r]) /\ s \in Nat
        BY <1>4, ImporterAssumption DEF Reimport, IsStale
      <4> QED
        BY <3>2, <4>1
    <3>4. rc.event.negative \notin ExportText[r][s]
      BY <1>a, <3>1, <3>3 DEF RetiredForGood
    <3> QED
      BY <2>2, <2>3, <3>4 DEF TextOf
  <2>6. ASSUME NEW rc \in receipts, NEW i \in Enumerate(rc.event.root)' \ retired, i # id
        PROVE  \/ rc.event.negative \notin TextOf(i)'
               \/ i \in Enumerate(rc.event.root)
    <3>1. \/ i \in Entry /\ rc.event.negative \notin text[i]
          \/ i \in Enumerate(rc.event.root)
      BY <1>a, <2>1, <2>2, <2>3, <2>6, NewcomersAreClean
    <3>2. TextOf(i)' = TextOf(i)
      BY <1>0, <2>4, <2>6
    <3> QED
      BY <3>1, <3>2 DEF TextOf
  <2> HIDE DEF id
  <2> QED
    BY <1>0, <1>1, <2>1, <2>4, <2>5, <2>6
<1>5. ASSUME NEW a \in DOMAIN Derivation, Derive(a) PROVE AppliedIsClean'
  <2>1. receipts' = receipts /\ retired' = retired /\ indexed' = indexed
    BY <1>5 DEF Derive
  <2>2. a \in ArtifactId /\ a \notin Entry /\ Source(a) = a
    BY <1>5, DeriveFacts DEF RInv, Source
  <2>3. /\ ledger'[a].content = JoinedText(ledger, Derivation[a], None)
        /\ Known(ledger') = Known(ledger) \cup {a}
        /\ Derivation[a] \subseteq Known(ledger) /\ Derivation[a] \cap retired = {}
    <3>1. ledger'[a] = [root |-> None, inputs |-> Derivation[a],
                        content |-> JoinedText(ledger, Derivation[a], None)]
      BY <1>5, DeriveFacts DEF RInv
    <3>2. /\ Known(ledger') = Known(ledger) \cup {a} /\ a \notin Known(ledger)
          /\ Derivation[a] \subseteq Known(ledger)
      BY <1>5, DeriveFacts DEF RInv
    <3>3. ledger'[a].inputs = Derivation[a] /\ ledger'[a].inputs \cap retired = {}
      BY <3>1, <3>2 DEF ReadsLive
    <3> QED
      BY <3>1, <3>2, <3>3
  <2>4. \A j \in Item : j # a => TextOf(j)' = TextOf(j)
    BY <1>5, DeriveFacts DEF RInv
  <2>5. ASSUME NEW rc \in receipts PROVE rc.event.negative \notin TextOf(a)'
    <3>1. ASSUME NEW b \in Derivation[a] PROVE rc.event.negative \notin ledger[b].content
      <4>1. b \in Known(ledger) /\ b \notin retired /\ b \notin Entry
        BY <2>3, ImporterAssumption DEF Known, Item
      <4>2. CASE b \in Descendants(ledger, rc.event.root)
        BY <4>1, <4>2 DEF AppliedIsClean, Enumerate, TextOf
      <4>3. CASE b \notin Descendants(ledger, rc.event.root)
        BY <1>a, <4>1, <4>3 DEF ClaimsStayAtHome
      <4> QED
        BY <4>2, <4>3
    <3> QED
      BY <2>2, <2>3, <3>1 DEF TextOf, JoinedText
  <2>6. ASSUME NEW rc \in receipts, NEW i \in Enumerate(rc.event.root)' \ retired, i # a
        PROVE  \/ rc.event.negative \notin TextOf(i)'
               \/ i \in Enumerate(rc.event.root)
    <3>1. \/ i \in Entry /\ rc.event.negative \notin text[i]
          \/ i \in Enumerate(rc.event.root)
      BY <1>a, <2>1, <2>2, <2>3, <2>6, NewcomersAreClean
    <3>2. TextOf(i)' = TextOf(i)
      BY <1>0, <2>4, <2>6
    <3> QED
      BY <3>1, <3>2 DEF TextOf
  <2> QED
    BY <1>0, <1>1, <2>1, <2>4, <2>5, <2>6
<1>6. ASSUME NEW v \in Entry, Index(v) PROVE AppliedIsClean'
  <2>1. /\ receipts' = receipts /\ retired' = retired
        /\ ledger' = ledger /\ indexed' = indexed \cup {v}
        /\ v \notin indexed /\ SourceOf[v] \notin retired
    BY <1>6, IndexFacts DEF Index, RInv, ReadsLive
  <2>2. \A j \in Item : j # v => TextOf(j)' = TextOf(j)
    BY <1>6, IndexFacts DEF RInv
  <2>3. ASSUME NEW rc \in receipts, v \in Enumerate(rc.event.root)'
        PROVE  rc.event.negative \notin TextOf(v)'
    <3>1. SourceOf[v] \in Enumerate(rc.event.root) /\ SourceOf[v] \notin retired
      BY <1>0, <2>1, <2>3 DEF Source, Enumerate
    <3>2. SourceOf[v] \in Known(ledger)
      BY <1>0, <2>1, <2>3, DescendantsAreKnown DEF Source
    <3>3. TextOf(v)' = TextOf(SourceOf[v])
      BY <1>6, <3>2, IndexFacts DEF RInv
    <3> QED
      BY <3>1, <3>3 DEF AppliedIsClean
  <2>4. ASSUME NEW rc \in receipts, NEW i \in Enumerate(rc.event.root)', i # v
        PROVE  i \in Enumerate(rc.event.root)
    BY <1>0, <2>1, <2>4, DescendantsAreKnown
  <2> QED
    BY <1>0, <1>1, <2>1, <2>2, <2>3, <2>4
<1>7. ASSUME NEW i \in Item, RetireItem(i) PROVE AppliedIsClean'
  <2>1. receipts' = receipts /\ retired' = retired \cup {i}
    BY <1>7 DEF RetireItem
  <2>2. \A r : Enumerate(r)' = Enumerate(r)
    BY <1>7, SameLineageSameItems DEF RetireItem
  <2>3. \A j \in Item : j # i => TextOf(j)' = TextOf(j)
    BY <1>7, RetireFacts DEF RInv
  <2> QED
    BY <1>0, <1>1, <2>1, <2>2, <2>3
<1>8. ASSUME UNCHANGED <<ledger, text, indexed, retired, receipts>> PROVE AppliedIsClean'
  BY <1>1, <1>8, SameLineageSameItems DEF TextOf
<1> QED
  BY <1>2, <1>3, <1>4, <1>5, <1>6, <1>7, <1>8
    DEF Next, RepairStep, Quarantine, BeginRepair, EndPassOne, Interrupt, vars, storeVars

CleanInv ==
    OpenIsNext /\ ServingInv /\ EntriesStayAtHome /\ AppliedIsRecorded /\ AppliedIsClean

\* At the start an entry states what its artifact states.
LEMMA EntriesInit == Init /\ ClaimsStayAtHome => EntriesStayAtHome
<1> SUFFICES ASSUME Init, ClaimsStayAtHome, NEW e \in Event, NEW v \in SeedIndex,
                    v \notin Enumerate(e.root)
             PROVE  e.negative \notin text[v]
  BY DEF Init, EntriesStayAtHome
<1>1. SourceOf[v] \in Known(ledger) /\ SourceOf[v] \notin Descendants(ledger, e.root)
  BY ImporterAssumption DEF Init, Enumerate
<1>2. text[v] = ledger[SourceOf[v]].content
  BY ImporterAssumption DEF Init
<1> QED
  BY <1>1, <1>2 DEF ClaimsStayAtHome
\* A stuttering step reads nothing.
LEMMA StepsReadLive == [ReadsLive]_vars => ReadsLive
  BY DEF ReadsLive, vars, storeVars

\* An applied erratum stays applied: no later derivation, re-export, erratum or
\* interrupted repair lets a descendant of its root state the claim again, if
\* moreover amended roots have no descendant in common, no owner states anew
\* what was retired, and the host derives and indexes from live artifacts.
THEOREM AppliedErrataStayClean ==
    RetiredForGood
        => (Spec /\ LineageIsKept /\ SourcesAreLive /\ []SortedByDerivation
                 /\ []ClaimsStayAtHome /\ []AmendedRootsAreApart
            => []AppliedStaysClean)
<1> SUFFICES ASSUME RetiredForGood
             PROVE  Spec /\ LineageIsKept /\ SourcesAreLive /\ []SortedByDerivation
                         /\ []ClaimsStayAtHome /\ []AmendedRootsAreApart
                    => []AppliedStaysClean
  OBVIOUS
<1>1. Init /\ ClaimsStayAtHome => CleanInv
  BY ServingInit, EntriesInit
    DEF Init, CleanInv, OpenIsNext, Open, AppliedIsRecorded, AppliedIsClean
<1>2. RInv /\ NothingStrandedBehindAGate /\ CleanInv /\ KeptStep /\ ReadsLive
        /\ SortedByDerivation /\ ClaimsStayAtHome /\ AmendedRootsAreApart
      => CleanInv'
  <2>1. RInv /\ OpenIsNext /\ NothingStrandedBehindAGate /\ KeptStep => OpenIsNext'
    BY GateStep DEF GateInv
  <2>2. RInv /\ CleanInv /\ ClaimsStayAtHome /\ AmendedRootsAreApart /\ KeptStep /\ ReadsLive
        => AppliedIsClean'
    BY AppliedIsCleanStep DEF KeptStep, CleanInv, ServingInv
  <2>3. RInv /\ CleanInv /\ SortedByDerivation /\ ClaimsStayAtHome /\ KeptStep
        => EntriesStayAtHome'
    BY EntriesStayAtHomeStep DEF KeptStep, CleanInv, ServingInv
  <2> QED
    BY <2>1, <2>2, <2>3, ServingStep, AppliedIsRecordedStep DEF CleanInv, KeptStep
<1>3. RInv /\ CleanInv => AppliedStaysClean
  <2> SUFFICES ASSUME RInv, CleanInv, NEW rc \in receipts,
                      NEW i \in Visible \cap Enumerate(rc.event.root)
               PROVE  rc.event.negative \notin TextOf(i)
    BY DEF AppliedStaysClean
  <2>1. i \notin retired
    BY ImporterAssumption
      DEF Visible, CleanInv, ServingInv, RetiredIsDirect, RInv, IInv, TypeOK, Known, Item
  <2> QED
    BY <2>1 DEF CleanInv, AppliedIsClean
<1> QED
  BY <1>1, <1>2, <1>3, StepsAreKept, StepsReadLive, GatesAreReopened, RefinementInvariant, PTL
    DEF Spec, LineageIsKept, SourcesAreLive

-----------------------------------------------------------------------------
\* The probes of a completed repair.

\* The repair in progress is of an erratum of good shape.
JobIsWellFormed == job.phase # "idle" => WellFormed(job.event, Root)

\* The seeds keep their place in the lineage, and those aside stay served as
\* they were.
SeedsAreKept ==
    /\ \A a \in Known(SeedLedger) :
          /\ a \in Known(ledger)
          /\ ledger[a].root = SeedLedger[a].root /\ ledger[a].inputs = SeedLedger[a].inputs
    /\ \A a \in SeedsAside :
          a \notin gated \cup retired /\ ledger[a].content = SeedLedger[a].content

TriadInv ==
    /\ RetiredIsDirect /\ RebuiltIsAmended /\ JobIsWellFormed /\ EntriesStayAtHome
    /\ SeedsAreKept /\ CompletedRepairPassesTriad

LEMMA JobIsWellFormedStep ==
    ASSUME RInv, JobIsWellFormed, [Next]_vars
    PROVE  JobIsWellFormed'
<1>1. ASSUME NEW e \in Event, BeginRepair(e) PROVE JobIsWellFormed'
  <2>1. WellFormed(e, Root)
    BY <1>1 DEF BeginRepair, Observable, Verdict
  <2>2. job'.event = e
    BY <1>1 DEF BeginRepair
  <2> QED
    BY <2>1, <2>2 DEF JobIsWellFormed
<1>2. ASSUME job'.event = job.event, job.phase # "idle" PROVE JobIsWellFormed'
  BY <1>2 DEF JobIsWellFormed
<1>3. ASSUME NEW i \in Item, RetireItem(i) \/ RebuildItem(i) PROVE JobIsWellFormed'
  BY <1>2, <1>3 DEF RetireItem, RebuildItem, RInv, IInv, TypeOK
<1>4. CASE EndPassOne
  BY <1>2, <1>4 DEF EndPassOne, RInv, IInv, TypeOK
<1>5. ASSUME job' = job PROVE JobIsWellFormed'
  BY <1>5 DEF JobIsWellFormed
<1>6. ASSUME job' = Idle PROVE JobIsWellFormed'
  BY <1>6 DEF JobIsWellFormed, Idle
<1> QED
  BY <1>1, <1>3, <1>4, <1>5, <1>6
    DEF Next, RepairStep, Quarantine, Attest, Interrupt, Reimport, Derive, Index, vars

\* The seeds of a root are still its only descendants among the seeds.
LEMMA SeedsDescend ==
    ASSUME SeedsAreKept, NEW r
    PROVE  Descendants(ledger, r) \cap Known(SeedLedger) = Descendants(SeedLedger, r)
<1>1. IsRooted(SeedLedger) /\ Known(SeedLedger) \subseteq Known(ledger)
  BY ImporterAssumption DEF SeedsAreKept
<1> QED
  BY <1>1, GrowingKeepsDescendants DEF SeedsAreKept

LEMMA SeedsAreKeptStep ==
    ASSUME RInv, SeedsAreKept, [Next]_vars, KeepsLineage
    PROVE  SeedsAreKept'
<1>0. \A a \in Known(SeedLedger) :
          /\ a \in Known(ledger')
          /\ ledger'[a].root = SeedLedger[a].root /\ ledger'[a].inputs = SeedLedger[a].inputs
  BY StoresGrow DEF RInv, SeedsAreKept, KeepsLineage
\* No erratum's repair or quarantine has a seed aside in front of it.
<1>a. \A a \in SeedsAside : /\ a \in ArtifactId /\ a \in Known(ledger) /\ a \in Item /\ a \notin Entry
                            /\ \A e \in Event : a \notin Enumerate(e.root)
                            /\ \A s \in Stamp : a # ReimportId[s]
  <2> SUFFICES ASSUME NEW a \in SeedsAside
               PROVE  /\ a \in ArtifactId /\ a \in Known(ledger) /\ a \in Item /\ a \notin Entry
                      /\ \A e \in Event : a \notin Enumerate(e.root)
                      /\ \A s \in Stamp : a # ReimportId[s]
    OBVIOUS
  <2>1. a \in Known(SeedLedger) /\ a \in Known(ledger)
    BY DEF SeedsAside, SeedsAreKept
  <2>2. a \in ArtifactId /\ a \in Item /\ a \notin Entry
    BY <2>1, ImporterAssumption DEF Known, Item
  <2>3. indexed \subseteq Entry
    BY DEF RInv, IInv, TypeOK
  <2>4. ASSUME NEW e \in Event PROVE a \notin Enumerate(e.root)
    <3>1. a \notin Descendants(SeedLedger, e.root)
      BY DEF SeedsAside
    <3> QED
      BY <2>1, <2>2, <2>3, <3>1, SeedsDescend DEF Enumerate
  <2> QED
    BY <2>1, <2>2, <2>4 DEF SeedsAside
<1>1. ASSUME \A a \in SeedsAside : /\ a \in gated' => a \in gated
                                   /\ a \in retired' => a \in retired
                                   /\ ledger'[a].content = ledger[a].content
      PROVE  SeedsAreKept'
  BY <1>0, <1>1 DEF SeedsAreKept
<1>2. ASSUME NEW e \in Event, Quarantine(e) PROVE SeedsAreKept'
  BY <1>1, <1>2, <1>a DEF Quarantine
<1>3. ASSUME NEW i \in Item, RetireItem(i) PROVE SeedsAreKept'
  <2>1. /\ job.event \in Event /\ i \in Enumerate(job.event.root)
        /\ ledger' = ledger /\ gated' = gated /\ retired' = retired \cup {i}
    BY <1>3, RetireFacts DEF RInv
  <2> QED
    BY <1>1, <1>a, <2>1
<1>4. ASSUME NEW i \in Item, RebuildItem(i) PROVE SeedsAreKept'
  <2>1. /\ job.event \in Event /\ i \in Enumerate(job.event.root)
        /\ \A j \in Item : j # i => TextOf(j)' = TextOf(j)
    BY <1>4, RebuildFacts DEF RInv
  <2>2. gated' = gated \ {i} /\ retired' = retired
    BY <1>4 DEF RebuildItem, LiftGate
  <2> QED
    BY <1>1, <1>a, <2>1, <2>2 DEF TextOf
<1>5. ASSUME NEW r \in Root, NEW s \in Stamp, Reimport(r, s) PROVE SeedsAreKept'
  <2>1. \A j \in Item : j # ReimportId[s] => TextOf(j)' = TextOf(j)
    BY <1>5, ReimportTexts DEF RInv
  <2>2. gated' = gated /\ retired' = retired
    BY <1>5 DEF Reimport
  <2> QED
    BY <1>1, <1>a, <2>1, <2>2 DEF TextOf
<1>6. ASSUME NEW a \in DOMAIN Derivation, Derive(a) PROVE SeedsAreKept'
  <2>1. a \notin Known(ledger) /\ \A b \in ArtifactId : b # a => ledger'[b] = ledger[b]
    BY <1>6, DeriveFacts DEF RInv
  <2> QED
    BY <1>1, <1>6, <1>a, <2>1 DEF Derive
<1>7. ASSUME UNCHANGED <<ledger, gated, retired>> PROVE SeedsAreKept'
  BY <1>1, <1>7
<1> QED
  BY <1>2, <1>3, <1>4, <1>5, <1>6, <1>7
    DEF Next, RepairStep, BeginRepair, EndPassOne, Attest, Interrupt, Index, vars, storeVars

\* When nothing is left to rebuild, all probes pass.
LEMMA ProbesPass ==
    ASSUME RInv, TriadInv, ClaimsStayAtHome, ProbesFitTheSeeds, Attest
    PROVE  \A leg \in DOMAIN Triad(job.event) : Triad(job.event)[leg]
<1> DEFINE e == job.event
<1>1. /\ e \in Event /\ WellFormed(e, Root) /\ job.todo = {} /\ job.phase = "rebuild"
      /\ PassTwoInv
  BY AttestFacts DEF TriadInv, JobIsWellFormed, RInv, IInv, RepairInv
<1>2. ASSUME NEW i \in Enumerate(e.root), i \notin gated
      PROVE  RepairInputs(i) # {} /\ i \notin job.todo
  BY <1>1, <1>2 DEF PassTwoInv
<1>3. ASSUME NEW i \in Visible PROVE e.negative \notin TextOf(i)
  <2>1. i \notin gated
    BY DEF Visible
  <2>2. CASE i \in Enumerate(e.root)
    BY <1>1, <1>2, <2>1, <2>2 DEF TriadInv, RebuiltIsAmended
  <2>3. CASE i \notin Enumerate(e.root) /\ i \in Entry
    <3>1. i \in indexed /\ text[i] # None
      BY <2>3, ImporterAssumption DEF Visible, Known, Item
    <3>2. i \notin retired
      BY <2>3, <3>1 DEF TriadInv, RetiredIsDirect
    <3> QED
      BY <1>1, <2>3, <3>1, <3>2 DEF TriadInv, EntriesStayAtHome, TextOf
  <2>4. CASE i \notin Enumerate(e.root) /\ i \notin Entry
    <3>1. i \in Known(ledger) /\ i \notin Descendants(ledger, e.root)
      BY <2>4 DEF Visible, Enumerate, RInv, IInv, TypeOK
    <3> QED
      BY <1>1, <2>4, <3>1 DEF ClaimsStayAtHome, TextOf
  <2> QED
    BY <2>2, <2>3, <2>4
<1>4. ASSUME e.op # "erase" PROVE Recalls(e.positive)
  <2>1. PICK a \in Descendants(SeedLedger, e.root) : a \in Derived(SeedLedger)
    BY <1>1, <1>4 DEF ProbesFitTheSeeds
  <2>2. /\ a \in Known(ledger) /\ a \in Enumerate(e.root)
        /\ ledger[a].inputs # {} /\ a \in Item /\ a \notin Entry
    <3>1. a \in Known(SeedLedger) /\ SeedLedger[a].inputs # {}
      BY <2>1 DEF Derived
    <3>2. a \in Known(ledger) /\ ledger[a].inputs # {}
      BY <3>1 DEF TriadInv, SeedsAreKept
    <3>3. a \in Descendants(ledger, e.root)
      BY <2>1, SeedsDescend DEF TriadInv
    <3> QED
      BY <3>2, <3>3, ImporterAssumption DEF Enumerate, Known, Item
  <2>3. RepairInputs(a) # {} /\ a \notin gated /\ a \notin job.todo
    BY <1>1, <2>2 DEF RepairInputs, Source, PassTwoInv
  <2>4. a \notin retired
    BY <2>3 DEF TriadInv, RetiredIsDirect
  <2>5. e.positive = e.replacement /\ e.replacement # None
    BY <1>1, <1>4 DEF ProbesFitTheSeeds, WellFormed
  <2>6. e.positive \in TextOf(a)
    BY <1>1, <2>2, <2>3, <2>5 DEF TriadInv, RebuiltIsAmended
  <2> QED
    BY <2>2, <2>3, <2>4, <2>6 DEF Recalls, Visible
<1>5. ASSUME NEW p \in e.preserve PROVE Recalls(p)
  <2>1. PICK a \in SeedsAside : p \in SeedLedger[a].content
    BY <1>1, <1>5 DEF ProbesFitTheSeeds
  <2>2. /\ a \in Known(ledger) /\ a \notin gated \cup retired
        /\ p \in ledger[a].content
    BY <2>1 DEF TriadInv, SeedsAreKept, SeedsAside
  <2>3. a \notin Entry
    BY <2>2, ImporterAssumption DEF Known, Item
  <2> QED
    BY <2>2, <2>3 DEF Recalls, Visible, TextOf
<1>6. ~Recalls(e.negative)
  BY <1>3 DEF Recalls
<1> HIDE DEF e
<1>7. \A leg \in DOMAIN Triad(e) : Triad(e)[leg]
  BY <1>4, <1>5, <1>6 DEF Triad
<1> QED
  BY <1>7 DEF e

LEMMA TriadStep ==
    ASSUME ProbesFitTheSeeds, RInv, TriadInv, SortedByDerivation, ClaimsStayAtHome, KeptStep
    PROVE  TriadInv'
<1>1. CompletedRepairPassesTriad'
  <2>1. CASE Attest
    <3> DEFINE new == [event     |-> job.event,
                       stores    |-> ReceiptStores(job.event),
                       triad     |-> Triad(job.event),
                       aggregate |-> AggregateCoverage(ReceiptStores(job.event),
                                                       Triad(job.event))]
    <3>1. receipts' = receipts \cup {new} /\ new.triad = Triad(job.event)
      BY <2>1 DEF Attest
    <3>2. \A leg \in DOMAIN new.triad : new.triad[leg]
      BY <2>1, <3>1, ProbesPass
    <3> HIDE DEF new
    <3> QED
      BY <3>1, <3>2 DEF TriadInv, CompletedRepairPassesTriad
  <2>2. ASSUME receipts' = receipts PROVE CompletedRepairPassesTriad'
    BY <2>2 DEF TriadInv, CompletedRepairPassesTriad
  <2> QED
    BY <2>1, <2>2
      DEF KeptStep, Next, RepairStep, Quarantine, BeginRepair, RetireItem, EndPassOne,
          RebuildItem, Interrupt, Reimport, Derive, Index, vars
<1> QED
  BY <1>1, RetiredIsDirectStep, RebuiltIsAmendedStep, JobIsWellFormedStep,
     EntriesStayAtHomeStep, SeedsAreKeptStep
    DEF TriadInv, KeptStep

LEMMA TriadInit == Init /\ ClaimsStayAtHome => TriadInv
<1> SUFFICES ASSUME Init, ClaimsStayAtHome PROVE TriadInv
  OBVIOUS
<1>1. EntriesStayAtHome
  BY EntriesInit
<1>2. SeedsAreKept
  BY DEF Init, SeedsAreKept, SeedsAside
<1> QED
  BY <1>1, <1>2, ServingInit
    DEF Init, Idle, TriadInv, ServingInv, JobIsWellFormed, CompletedRepairPassesTriad

\* Every repair that comes to its end passes all probes of its erratum, however
\* it was interrupted and whatever was derived, indexed and re-exported on the
\* way, if the probes fit the seeds: what is retired is recalled from no store,
\* the replacement from a rebuilt seed, and what is to be preserved from seeds
\* the errata do not reach.
THEOREM CompletedRepairsPassTheirProbes ==
    ProbesFitTheSeeds
        => (Spec /\ LineageIsKept /\ []SortedByDerivation /\ []ClaimsStayAtHome
            => []CompletedRepairPassesTriad)
<1> SUFFICES ASSUME ProbesFitTheSeeds
             PROVE  Spec /\ LineageIsKept /\ []SortedByDerivation /\ []ClaimsStayAtHome
                    => []CompletedRepairPassesTriad
  OBVIOUS
<1>1. RInv /\ TriadInv /\ SortedByDerivation /\ ClaimsStayAtHome /\ KeptStep => TriadInv'
  BY TriadStep
<1>2. TriadInv => CompletedRepairPassesTriad
  BY DEF TriadInv
<1> QED
  BY <1>1, <1>2, TriadInit, StepsAreKept, RefinementInvariant, PTL DEF Spec, LineageIsKept

-----------------------------------------------------------------------------
\* Plain hosts: the circumstances follow from the constants.

HostInv == SortedByDerivation /\ ClaimsStayAtHome

LEMMA PlainHostKeepsLineage ==
    ASSUME PlainHost, IInv, [Next]_vars
    PROVE  KeepsLineage
<1>1. \A r \in Root, s \in Stamp : ~Reimport(r, s)
  BY DEF PlainHost
<1>2. ASSUME NEW i \in Item, RebuildItem(i) PROVE KeepsLineage
  BY <1>2, RebuildFacts DEF KeepsLineage
<1>3. ASSUME NEW a \in DOMAIN Derivation, Derive(a) PROVE KeepsLineage
  BY <1>3, DeriveFacts DEF KeepsLineage, Known
<1>4. ASSUME ledger' = ledger PROVE KeepsLineage
  BY <1>4 DEF KeepsLineage
<1> QED
  BY <1>1, <1>2, <1>3, <1>4
    DEF Next, RepairStep, Quarantine, BeginRepair, RetireItem, EndPassOne, Attest,
        Interrupt, Index, vars, storeVars

LEMMA PlainHostStep ==
    ASSUME PlainHost, IInv, HostInv, [Next]_vars
    PROVE  HostInv'
<1>0. KeepsLineage
  BY PlainHostKeepsLineage
<1>1. \A r \in Root, s \in Stamp : ~Reimport(r, s)
  BY DEF PlainHost
<1>2. \A r : Descendants(ledger, r) \subseteq Descendants(ledger', r)
  BY <1>0, LineageGrows
<1>3. ASSUME NEW i \in Item, RebuildItem(i), i \notin Entry PROVE HostInv'
  <2>1. /\ job.event \in Event /\ i \in Descendants(ledger, job.event.root)
        /\ i \in Known(ledger) /\ Source(i) = i /\ RepairInputs(i) # {}
        /\ Known(ledger') = Known(ledger)
    BY <1>3, RebuildFacts, EnumerateType DEF Enumerate, Source, IInv, TypeOK
  <2>2. ledger'[i].content = JoinedText(ledger, SurvivingInputs(i), job.event.replacement)
    BY <1>3, RebuildFacts DEF TextOf
  <2>3. \A a \in Known(ledger) : a # i => ledger'[a].content = ledger[a].content
    <3>1. \A a \in Known(ledger) : a \in Item /\ a \notin Entry
      BY ImporterAssumption DEF Known, Item
    <3> QED
      BY <1>3, <3>1, RebuildFacts DEF TextOf
  <2>4. SortedByDerivation'
    BY <1>0, <2>1 DEF HostInv, SortedByDerivation, KeepsLineage
  <2>5. ASSUME NEW e \in Event, i \notin Descendants(ledger', e.root)
        PROVE  e.negative \notin ledger'[i].content
    <3>1. i \notin Descendants(ledger, e.root) /\ e.root # job.event.root
      BY <1>2, <2>1, <2>5
    <3>2. e.negative # job.event.replacement
      BY <2>1, <3>1 DEF PlainHost
    <3>3. i \in Derived(ledger)
      BY <2>1 DEF Derived, RepairInputs
    <3>4. \A b \in ledger[i].inputs : b \in Known(ledger) /\ b \notin Descendants(ledger, e.root)
      BY <2>1, <3>1, <3>3, DescendantsAreClosed DEF ClosedUnderDerivation, IInv, RepairInv, IsRooted
    <3>5. \A b \in SurvivingInputs(i) : e.negative \notin ledger[b].content
      BY <2>1, <3>4 DEF SurvivingInputs, RepairInputs, HostInv, ClaimsStayAtHome
    <3> QED
      BY <2>2, <3>2, <3>5 DEF JoinedText
  <2>6. ClaimsStayAtHome'
    BY <1>2, <2>1, <2>3, <2>5 DEF HostInv, ClaimsStayAtHome
  <2> QED
    BY <2>4, <2>6 DEF HostInv
<1>4. ASSUME NEW a \in DOMAIN Derivation, Derive(a) PROVE HostInv'
  <2> DEFINE joined == JoinedText(ledger, Derivation[a], None)
  <2>1. /\ ledger'[a] = [root |-> None, inputs |-> Derivation[a], content |-> joined]
        /\ Known(ledger') = Known(ledger) \cup {a} /\ a \notin Known(ledger)
        /\ Derivation[a] \subseteq Known(ledger)
    BY <1>4, DeriveFacts
  <2>2. \A b \in Known(ledger) : ledger'[b] = ledger[b]
    BY <1>4, <2>1, DeriveFacts DEF Known
  <2>3. ledger'[a].content = joined /\ ledger'[a].inputs = Derivation[a]
    BY <2>1
  <2>4. SortedByDerivation'
    BY <2>1, <2>2, <2>3 DEF HostInv, SortedByDerivation, PlainHost
  <2>5. ASSUME NEW e \in Event, a \notin Descendants(ledger', e.root)
        PROVE  e.negative \notin joined
    <3>1. ASSUME NEW b \in Derivation[a] PROVE b \notin Descendants(ledger, e.root)
      <4>1. a \in Derived(ledger')
        BY <2>1, <2>3 DEF Derived
      <4> QED
        BY <1>2, <2>3, <2>5, <4>1, DescendantsAreClosed DEF ClosedUnderDerivation
    <3>2. \A b \in Derivation[a] : e.negative \notin ledger[b].content
      BY <2>1, <3>1 DEF HostInv, ClaimsStayAtHome
    <3> QED
      BY <3>2 DEF JoinedText
  <2> HIDE DEF joined
  <2>6. ClaimsStayAtHome'
    BY <1>2, <2>1, <2>2, <2>3, <2>5 DEF HostInv, ClaimsStayAtHome
  <2> QED
    BY <2>4, <2>6 DEF HostInv
<1>5. ASSUME ledger' = ledger PROVE HostInv'
  BY <1>5 DEF HostInv, SortedByDerivation, ClaimsStayAtHome
<1> QED
  BY <1>1, <1>3, <1>4, <1>5
    DEF Next, RepairStep, Quarantine, BeginRepair, RetireItem, EndPassOne, RebuildItem,
        Attest, Interrupt, Index, vars, storeVars

\* A plain host's importer serves nothing that an open erratum retires, strands
\* nothing behind a gate and, if its errata all name one root and retire for
\* good and it reads live sources, never serves again what an applied one retired;
\* and if their probes fit the seeds, every repair it completes passes them.
THEOREM PlainHostsServeNothingStale ==
    PlainHost
        => /\ Spec => []NothingStrandedBehindAGate
           /\ Spec => []OpenErratumServesNothingStale
           /\ (\A e, f \in Event : e.root = f.root) /\ RetiredForGood
                 => (Spec /\ SourcesAreLive => []AppliedStaysClean)
           /\ ProbesFitTheSeeds => (Spec => []CompletedRepairPassesTriad)
<1> SUFFICES ASSUME PlainHost
             PROVE  /\ Spec => []NothingStrandedBehindAGate
                    /\ Spec => []OpenErratumServesNothingStale
                    /\ (\A e, f \in Event : e.root = f.root) /\ RetiredForGood
                          => (Spec /\ SourcesAreLive => []AppliedStaysClean)
                    /\ ProbesFitTheSeeds => (Spec => []CompletedRepairPassesTriad)
  OBVIOUS
<1>1. Spec => LineageIsKept
  <2>1. IInv /\ [Next]_vars => [KeepsLineage]_vars
    BY PlainHostKeepsLineage
  <2> QED
    BY <2>1, ImporterInvariant, PTL DEF Spec, LineageIsKept
<1>2. Spec => []HostInv
  <2>1. Init => HostInv
    BY DEF Init, HostInv, SortedByDerivation, ClaimsStayAtHome, PlainHost
  <2>2. IInv /\ HostInv /\ [Next]_vars => HostInv'
    BY PlainHostStep
  <2> QED
    BY <2>1, <2>2, ImporterInvariant, PTL DEF Spec
<1>3. HostInv => SortedByDerivation /\ ClaimsStayAtHome
  BY DEF HostInv
<1>4. Spec => []NothingStrandedBehindAGate
  BY <1>1, GatesAreReopened, PTL
<1>5. Spec => []OpenErratumServesNothingStale
  BY <1>1, <1>2, <1>3, OpenErrataServeNothingStale, PTL
<1>6. ASSUME \A e, f \in Event : e.root = f.root, RetiredForGood
      PROVE  Spec /\ SourcesAreLive => []AppliedStaysClean
  <2>1. AmendedRootsAreApart
    BY <1>6 DEF AmendedRootsAreApart
  <2>2. Spec /\ LineageIsKept /\ SourcesAreLive /\ []SortedByDerivation /\ []ClaimsStayAtHome
             /\ []AmendedRootsAreApart
          => []AppliedStaysClean
    BY <1>6, AppliedErrataStayClean
  <2> QED
    BY <1>1, <1>2, <1>3, <2>1, <2>2, PTL
<1>7. ASSUME ProbesFitTheSeeds PROVE Spec => []CompletedRepairPassesTriad
  <2>1. Spec /\ LineageIsKept /\ []SortedByDerivation /\ []ClaimsStayAtHome
          => []CompletedRepairPassesTriad
    BY <1>7, CompletedRepairsPassTheirProbes
  <2> QED
    BY <1>1, <1>2, <1>3, <2>1, PTL
<1> QED
  BY <1>4, <1>5, <1>6, <1>7
===============================================================================
