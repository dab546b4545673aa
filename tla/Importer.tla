------------------------------- MODULE Importer -------------------------------
(***************************************************************************)
(* One in-process importer (prototype/controller.py) over a Markdown       *)
(* store, a vector store and, optionally, an opaque one (adapters.py),     *)
(* repaired by RebuildStrategy (strategies.py).                            *)
(*                                                                         *)
(* The host calls quarantine(e), later repair_quarantined(e, checkpoint),  *)
(* and between them anything else: it derives new artifacts, indexes       *)
(* them, offers re-exports and other errata.  repair(e) is a quarantine    *)
(* followed at once by its repair.  A repair is one step per artifact,     *)
(* and any adapter call in it may raise, which leaves what was done.       *)
(*                                                                         *)
(* Items are numbered in the order the strategy visits them: the stores    *)
(* by name (markdown before vector), the ids of one store sorted.          *)
(***************************************************************************)
EXTENDS ErrataFeed, Coverage, Lineage

CONSTANTS
    Entry,          \* vector entries
    SourceOf,       \* [Entry -> ArtifactId], fixed when the entry is indexed
    SeedLedger,     \* the ledger the importer starts with
    SeedIndex,      \* the entries it starts with
    LooseText,      \* [Entry -> the text it is indexed with when its source is
                    \* not registered]
    Derivation,     \* [artifacts the host may yet derive -> their inputs]
    ReimportId,     \* [stamp -> the id "fact:reimport:<stamp>"]
    ExportText,     \* [Root -> [stamp -> what an export stamped so states]]
    Event,          \* errata the host may be offered, good or not
    OpaqueStore,    \* "absent", "optional" or "required"
    MaxInterrupts   \* bound: adapter failures in one behaviour

VARIABLES
    ledger,         \* LineageLedger; a Markdown item's text is its content
    text,           \* VectorAdapter._text, None where an entry has no text
    indexed,        \* VectorAdapter._source_of's keys
    gated, retired, rebuilt,  \* _quarantined, _retired, _rebuilt of both stores
    history,        \* MarkdownAdapter._history
    lastSequence, applied, observed,   \* Importer's own fields
    checkpoint,     \* the latest checkpoint the host holds for each event
    receipts,       \* receipts returned so far
    job,            \* the repair in progress
    interrupts

storeVars == <<ledger, text, indexed, gated, retired, rebuilt, history>>
feedVars  == <<lastSequence, applied, observed>>
vars      == <<storeVars, feedVars, checkpoint, receipts, job, interrupts>>

Item        == ArtifactId \cup Entry
Stamp       == DOMAIN ReimportId
Sequence    == {e.seq : e \in Event}
Inspectable == {"markdown", "vector"}
Phase       == {"idle", "retire", "rebuild"}

\* What register_import and register_derivation guarantee of a ledger: inputs
\* are registered first, and an import has none.
IsRooted(l) ==
    \A a \in Known(l) :
        /\ l[a].inputs \subseteq Known(l)
        /\ l[a].root # None => l[a].inputs = {}

\* A checkpoint: the state it commits to, the items gated, and the coverage.
Checkpoint ==
    [state : [contents : [ArtifactId -> {None} \cup Text],
              live     : SUBSET ArtifactId,
              entries  : [Entry -> {None} \cup Text]],
     items : SUBSET Item,
     coverage : [Inspectable -> CoverageResult]]

ASSUME ImporterAssumption ==
    /\ Item \subseteq Nat
    /\ \A a \in ArtifactId, v \in Entry : a < v
    /\ SourceOf \in [Entry -> ArtifactId]
    /\ SeedLedger \in Ledger /\ IsRooted(SeedLedger)
    /\ SeedIndex \subseteq Entry
    /\ \A v \in SeedIndex : SourceOf[v] \in Known(SeedLedger)
    /\ LooseText \in [Entry -> Text]
    /\ Derivation \in [DOMAIN Derivation -> SUBSET ArtifactId]
    /\ DOMAIN Derivation \subseteq ArtifactId
    /\ ReimportId \in [Stamp -> ArtifactId] /\ Stamp \subseteq Nat
    /\ \A s, t \in Stamp : ReimportId[s] = ReimportId[t] => s = t
    /\ ExportText \in [Root -> [Stamp -> Text]]
    /\ Sequence \subseteq Nat
    /\ \A e \in Event : IsErratum(e)
    /\ OpaqueStore \in {"absent", "optional", "required"}
    /\ MaxInterrupts \in Nat
    /\ \A e \in Event : e # None
    /\ None \notin Checkpoint

Idle == [phase |-> "idle", event |-> None, todo |-> {}, dropped |-> {}]

-----------------------------------------------------------------------------
\* The adapters.

StoreItems(store) == IF store = "markdown" THEN ArtifactId ELSE Entry

\* source_artifact: the ledger node an item stands for.
Source(i) == IF i \in Entry THEN SourceOf[i] ELSE i

\* repair_inputs
RepairInputs(i) == ledger[Source(i)].inputs

\* enumerate over both inspectable stores
Enumerate(r) ==
    LET closure == Descendants(ledger, r)
    IN  closure \cup {v \in indexed : SourceOf[v] \in closure}

\* What recall may return, and whether any store recalls a proposition.
Visible ==
    {a \in Known(ledger) : a \notin gated \cup retired}
        \cup {v \in indexed : text[v] # None /\ v \notin gated}
TextOf(i) == IF i \in Entry THEN text[i] ELSE ledger[i].content
Recalls(p) == \E i \in Visible : p \in TextOf(i)

\* lineage_complete of the two inspectable adapters
LineageComplete(store, r) ==
    /\ r \in RootsSeen(ledger)
    /\ store = "vector" => \A v \in indexed : SourceOf[v] \in Known(ledger)

\* What state_root commits to: the contents, never the gates.
InspectableState ==
    [contents |-> [a \in ArtifactId |->
                     IF ledger[a] = None THEN None ELSE ledger[a].content],
     live     |-> Known(ledger) \ retired,
     entries  |-> text]

\* quarantine_coverage as _checkpoint_coverage records it, gates being `g`
CoverageAtCheckpoint(r, g) ==
    [s \in Inspectable |->
        CheckpointCoverage(
            QuarantineCoverage(LineageComplete(s, r),
                               Enumerate(r) \cap StoreItems(s), g),
            ~LineageComplete(s, r))]

-----------------------------------------------------------------------------
\* The importer.

\* Variants: a conflict with an earlier observation goes unseen; a second
\* observation of the same event is refused like a conflict.
ObservableAnew(e)  == Verdict(e, lastSequence, {}, Root) = "accepted"
ObservableOnce(e)  == observed[e.seq] = None /\ ObservableAnew(e)

\* observe: the event neither conflicts with one observed before at its
\* sequence nor fails verify_feed.  A refusal only writes the journal.
Observable(e) ==
    /\ observed[e.seq] \in {None, e}
    /\ Verdict(e, lastSequence, {}, Root) = "accepted"

Observe(e) == observed' = [observed EXCEPT ![e.seq] = e]

Init ==
    /\ ledger = SeedLedger
    /\ indexed = SeedIndex
    /\ text = [v \in Entry |->
                IF v \in SeedIndex THEN SeedLedger[SourceOf[v]].content ELSE None]
    /\ gated = {} /\ retired = {} /\ rebuilt = {} /\ history = {}
    /\ lastSequence = 0
    /\ applied = [r \in Root |-> 0]
    /\ observed = [s \in Sequence |-> None]
    /\ checkpoint = [e \in Event |-> None]
    /\ receipts = {}
    /\ job = Idle
    /\ interrupts = 0

\* quarantine: gate every known descendant in every store, then record what
\* was gated and the state it was gated in.
Quarantine(e) ==
    /\ job = Idle
    /\ Observable(e)
    /\ Observe(e)
    /\ gated' = gated \cup Enumerate(e.root)
    /\ checkpoint' = [checkpoint EXCEPT ![e] =
            [state    |-> InspectableState,
             items    |-> Enumerate(e.root),
             coverage |-> CoverageAtCheckpoint(e.root, gated \cup Enumerate(e.root))]]
    /\ UNCHANGED <<ledger, text, indexed, retired, rebuilt, history,
                   lastSequence, applied, receipts, job, interrupts>>

AreAllGated(items) == items \subseteq gated

\* A variant that compares the artifacts only: neither the state they are in
\* nor their gates.
CheckpointListsItems(e) ==
    checkpoint[e] # None /\ checkpoint[e].items = Enumerate(e.root)

\* _validate_checkpoint.  A refusal raises CheckpointError and changes nothing:
\* the event of a checkpoint has been observed already.
CheckpointIsValid(e) ==
    LET cp == checkpoint[e]
    IN  /\ cp # None
        /\ cp.state = InspectableState
        /\ cp.coverage = CoverageAtCheckpoint(e.root, gated)
        /\ cp.items = Enumerate(e.root)
        /\ AreAllGated(cp.items)

\* A variant that knows the Markdown store only.
IsDirectNote(i) == i \notin Entry /\ RepairInputs(i) = {}

\* What pass one retires: an item that was not derived.
IsDirect(i) == RepairInputs(i) = {}

\* repair_quarantined, up to the first item of pass one
BeginRepair(e) ==
    /\ job = Idle
    /\ Observable(e)
    /\ CheckpointIsValid(e)
    /\ Observe(e)
    /\ job' = [phase   |-> "retire", event |-> e, dropped |-> {},
               todo    |-> {i \in checkpoint[e].items : IsDirect(i)}]
    /\ UNCHANGED <<storeVars, lastSequence, applied, checkpoint, receipts, interrupts>>

IsNext(i) == i \in job.todo /\ \A j \in job.todo : i <= j

KeepsHistory(e) == e.op = "supersede"

\* Pass one: retire an item that has no inputs of its own.
RetireItem(i) ==
    /\ job.phase = "retire"
    /\ IsNext(i)
    /\ retired' = retired \cup {i}
    /\ IF i \in Entry
       THEN text' = [text EXCEPT ![i] = None] /\ UNCHANGED history
       ELSE /\ UNCHANGED text
            /\ history' = history \cup
                  (IF KeepsHistory(job.event)
                   THEN {[item |-> i, content |-> ledger[i].content]} ELSE {})
    /\ job' = [job EXCEPT !.todo = @ \ {i}, !.dropped = @ \cup {Source(i)}]
    /\ UNCHANGED <<ledger, indexed, gated, rebuilt, feedVars,
                   checkpoint, receipts, interrupts>>

EndPassOne ==
    /\ job.phase = "retire"
    /\ job.todo = {}
    /\ job' = [job EXCEPT
                !.phase = "rebuild",
                !.todo  = {i \in checkpoint[job.event].items :
                              Source(i) \notin job.dropped}]
    /\ UNCHANGED <<storeVars, feedVars, checkpoint, receipts, interrupts>>

\* Variants: every input survives; the gate is not lifted.
AllInputs(i) == RepairInputs(i)
KeepGate(i)  == gated

SurvivingInputs(i) == RepairInputs(i) \ job.dropped
LiftGate(i)        == gated \ {i}

\* Pass two: rebuild an item from the inputs that survive plus the
\* replacement, and lift its gate.
RebuildItem(i) ==
    /\ job.phase = "rebuild"
    /\ IsNext(i)
    /\ LET joined == JoinedText(ledger, SurvivingInputs(i), job.event.replacement)
       IN  IF i \in Entry
           THEN text' = [text EXCEPT ![i] = joined] /\ UNCHANGED ledger
           ELSE ledger' = SetContent(ledger, i, joined) /\ UNCHANGED text
    /\ rebuilt' = rebuilt \cup {i}
    /\ gated' = LiftGate(i)
    /\ job' = [job EXCEPT !.todo = @ \ {i}]
    /\ UNCHANGED <<indexed, retired, history, feedVars,
                   checkpoint, receipts, interrupts>>

\* An adapter call raises: the exception leaves apply and repair_quarantined.
Interrupt ==
    /\ job # Idle
    /\ interrupts < MaxInterrupts
    /\ interrupts' = interrupts + 1
    /\ job' = Idle
    /\ UNCHANGED <<storeVars, feedVars, checkpoint, receipts>>

\* _run_triad: erasure has no positive leg.
Triad(e) ==
    [leg \in {"negative", "preserve"} \cup
             (IF e.op = "erase" THEN {} ELSE {"positive"}) |->
        CASE leg = "negative" -> ~Recalls(e.negative)
          [] leg = "positive" -> Recalls(e.positive)
          [] leg = "preserve" -> \A p \in e.preserve : Recalls(p)]

RequiredStores ==
    Inspectable \cup (IF OpaqueStore = "required" THEN {"opaque"} ELSE {})

\* The stores a receipt names, each with its final coverage.
ReceiptStores(e) ==
    [s \in RequiredStores |->
        IF s = "opaque" THEN "unknown"
        ELSE ConservativeCoverage(
                checkpoint[e].coverage[s],
                DispositionCoverage(Enumerate(e.root) \cap StoreItems(s),
                                    retired \cup rebuilt))]

\* The rest of repair_quarantined: probe, attest, advance the sequence.
Attest ==
    LET e == job.event
    IN  /\ job.phase = "rebuild"
        /\ job.todo = {}
        /\ receipts' = receipts \cup
              {[event     |-> e,
                stores    |-> ReceiptStores(e),
                triad     |-> Triad(e),
                aggregate |-> AggregateCoverage(ReceiptStores(e), Triad(e))]}
        /\ lastSequence' = e.seq
        /\ applied' = [applied EXCEPT ![e.root] = e.seq]
        /\ job' = Idle
        /\ UNCHANGED <<storeVars, observed, checkpoint, interrupts>>

\* A variant with `<` for `<=`.
IsOlder(r, stamp) == applied[r] # 0 /\ stamp < applied[r]

IsStale(r, stamp) == applied[r] # 0 /\ stamp <= applied[r]

\* reimport(root, content, sequence).  The id of the new artifact names the
\* sequence only, so a later import with the same stamp overwrites it.
Reimport(r, stamp) ==
    /\ job = Idle
    /\ ~IsStale(r, stamp)
    /\ ledger' = RegisterImport(ledger, r, ReimportId[stamp], ExportText[r][stamp])
    /\ UNCHANGED <<text, indexed, gated, retired, rebuilt, history,
                   feedVars, checkpoint, receipts, job, interrupts>>

\* The host derives an artifact, for the first time, from registered ones.  The
\* ledger knows nothing of retirement, so a retired input gives its old text.
Derive(a) ==
    LET inputs == Derivation[a]
    IN  /\ job = Idle
        /\ a \notin Known(ledger)
        /\ InputsKnown(ledger, inputs)
        /\ ledger' = RegisterDerivation(ledger, a, inputs, JoinedText(ledger, inputs, None))
        /\ UNCHANGED <<text, indexed, gated, retired, rebuilt, history,
                       feedVars, checkpoint, receipts, job, interrupts>>

\* VectorAdapter.index, called by the host once for each entry, with the text
\* the source has in the ledger, or with what it has at hand for a source it
\* never registered: the store does not ask.
Index(v) ==
    /\ job = Idle
    /\ v \notin indexed
    /\ indexed' = indexed \cup {v}
    /\ text' = [text EXCEPT ![v] = IF SourceOf[v] \in Known(ledger)
                                   THEN ledger[SourceOf[v]].content ELSE LooseText[v]]
    /\ UNCHANGED <<ledger, gated, retired, rebuilt, history,
                   feedVars, checkpoint, receipts, job, interrupts>>

RepairStep ==
    \/ \E i \in Item : RetireItem(i) \/ RebuildItem(i)
    \/ EndPassOne
    \/ Attest

Next ==
    \/ \E e \in Event : Quarantine(e) \/ BeginRepair(e)
    \/ RepairStep
    \/ Interrupt
    \/ \E r \in Root, s \in Stamp : Reimport(r, s)
    \/ \E a \in DOMAIN Derivation : Derive(a)
    \/ \E v \in Entry : Index(v)

Spec == Init /\ [][Next]_vars

\* A host that keeps retrying: it quarantines and repairs whatever it may, and
\* lets a repair it started run.  Adapter failures are bounded, not fair.
FairSpec ==
    /\ Spec
    /\ WF_vars(RepairStep)
    /\ \A e \in Event : WF_vars(Quarantine(e)) /\ WF_vars(BeginRepair(e))

-----------------------------------------------------------------------------
\* Every variable holds a value the code could put there.
TypeOK ==
    /\ ledger \in Ledger
    /\ text \in [Entry -> {None} \cup Text]
    /\ indexed \subseteq Entry
    /\ gated \subseteq Item /\ retired \subseteq Item /\ rebuilt \subseteq Item
    /\ history \subseteq [item : ArtifactId, content : Text]
    /\ lastSequence \in Nat
    /\ applied \in [Root -> Nat]
    /\ observed \in [Sequence -> {None} \cup Event]
    /\ checkpoint \in [Event -> {None} \cup Checkpoint]
    /\ job \in [phase : Phase, event : {None} \cup Event,
               todo : SUBSET Item, dropped : SUBSET ArtifactId]
    /\ \A rc \in receipts : rc.event \in Event /\ rc.aggregate \in CoverageResult
    /\ interrupts \in 0..MaxInterrupts

RepairIsGrounded ==
    LET e == job.event
    IN  /\ e \in Event
        /\ observed[e.seq] = e /\ e.seq = lastSequence + 1
        /\ KeyIsActive(e) /\ SignatureVerifies(e)
        /\ checkpoint[e] # None /\ checkpoint[e].items = Enumerate(e.root)
        /\ \A s \in Inspectable :
              checkpoint[e].coverage[s] = "verified" => LineageComplete(s, e.root)
        /\ job.todo \subseteq Enumerate(e.root)
        /\ \A a \in job.dropped : ledger[a].inputs = {}
PassOneInv ==
    \A i \in Enumerate(job.event.root) :
        /\ i \in gated
        /\ RepairInputs(i) = {} <=> (i \in job.todo \/ Source(i) \in job.dropped)
        /\ RepairInputs(i) = {} => i \in job.todo \cup retired
PassTwoInv ==
    \A i \in Enumerate(job.event.root) :
        /\ RepairInputs(i) = {} <=> Source(i) \in job.dropped
        /\ RepairInputs(i) = {} => i \in retired \cap gated
        /\ i \in job.todo => i \in gated /\ RepairInputs(i) # {}
        /\ i \in gated => i \in job.todo \/ RepairInputs(i) = {}

\* What a repair in progress may rely on: it works for the one event observed at
\* the next sequence, its checkpoint still lists exactly the present descendants
\* of the target and vouches for no store of incomplete lineage, and each of them
\* that pass one is done with is retired while each that pass two is done with is
\* ungated.
RepairInv ==
    /\ IsRooted(ledger)
    /\ \A s \in Sequence : observed[s] # None => observed[s].seq = s
    /\ job.phase = "idle" => job = Idle
    /\ job.phase # "idle" => RepairIsGrounded
    /\ job.phase = "retire" => PassOneInv
    /\ job.phase = "rebuild" => PassTwoInv

\* The sequence discipline of observe and repair_quarantined: the receipts of
\* an importer are exactly one per sequence 1..lastSequence, each for the one
\* event it ever observed at that sequence, and that event was authentic.
ReceiptsFollowTheFeed ==
    /\ {rc.event.seq : rc \in receipts} = 1..lastSequence
    /\ \A rc \in receipts :
          /\ rc.event = observed[rc.event.seq]
          /\ KeyIsActive(rc.event) /\ SignatureVerifies(rc.event)
    /\ \A rc1, rc2 \in receipts : rc1.event.seq = rc2.event.seq => rc1 = rc2

\* THREAT_MODEL, "same-view conflict": the event bound to a sequence by the
\* first observe is never replaced, and the sequence never moves back or skips.
ObservedIsFinal ==
    [][/\ \A s \in Sequence : observed[s] # None => observed'[s] = observed[s]
       /\ lastSequence' \in {lastSequence, lastSequence + 1}]_vars

\* _validate_checkpoint: whatever happened between the two calls, a rebuild
\* works on gated state only.  Every present descendant of the target, those
\* registered after the quarantine included, is gated until this very repair
\* has rebuilt it.
RebuildsOnlyGatedState ==
    job # Idle =>
        \A i \in Enumerate(job.event.root) :
            \/ i \in gated
            \/ job.phase = "rebuild" /\ i \notin job.todo /\ Source(i) \notin job.dropped

\* Between the quarantine of an erratum and its receipt no gated descendant
\* serves the proposition the erratum retires, through every interruption and
\* every retry (retire, rebuild and the repeated gate, in their real order).
OpenErratumServesNothingStale ==
    \A e \in Event :
        checkpoint[e] # None /\ lastSequence < e.seq =>
            \A i \in checkpoint[e].items \cap Visible : e.negative \notin TextOf(i)

\* Once an erratum is applied no descendant of its root serves the retired
\* proposition again: not after later derivations, re-exports, further errata
\* on the root, or interrupted repairs of those (IDEA.md, "rebuild").
AppliedStaysClean ==
    \A rc \in receipts :
        \A i \in Visible \cap Enumerate(rc.event.root) :
            rc.event.negative \notin TextOf(i)

\* reimport with the checkpoint's drift checks: from the receipt on, an export
\* stamped no later than the applied erratum of its root is retired, whether it
\* was accepted before the quarantine, between quarantine and repair, or was
\* offered after the receipt.
StaleExportRetired ==
    \A s \in Stamp :
        LET record == ledger[ReimportId[s]]
        IN  (/\ record # None /\ record.root # None
             /\ applied[record.root] # 0 /\ s <= applied[record.root])
                => ReimportId[s] \in retired

\* A gate left closed outlives its erratum only over a retired item: no rebuild
\* and no re-quarantine strands a live descendant behind a gate for good.
NothingStrandedBehindAGate ==
    \A i \in gated \ retired :
        \E e \in Event :
            checkpoint[e] # None /\ lastSequence < e.seq /\ i \in checkpoint[e].items

\* Receipt honesty (aggregate_coverage, _attest): a repair is signed `verified`
\* only if no required store is opaque, every indexed entry has a registered
\* source, and this repair disposed of every present descendant, those derived
\* or indexed since the quarantine included, whatever flags earlier repairs left
\* behind.
VerifiedIsEarned ==
    [][\A rc \in receipts' \ receipts :
          rc.aggregate = "verified" =>
              /\ OpaqueStore # "required"
              /\ \A v \in indexed : SourceOf[v] \in Known(ledger)
              /\ \A i \in Enumerate(rc.event.root) : i \in retired \/ i \notin gated]_vars

\* RebuildStrategy conforms: whatever was derived, indexed or interrupted on the
\* way, the repair it completes passes all its probes.
CompletedRepairPassesTriad ==
    \A rc \in receipts : \A leg \in DOMAIN rc.triad : rc.triad[leg]

\* prototype/README.md, "interrupted repair ... resumes from there": with
\* finitely many adapter failures and a host that retries, the whole feed is
\* applied.
FeedIsApplied == <>(\A s \in Sequence : s <= lastSequence)

\* prototype/README.md, "Correction": the false history is not preserved.  What
\* a correction retired as never true is not found in scoped history, whichever
\* repair wrote it: the correction's own or that of a later erratum.
CorrectedIsNotHistory ==
    \A rc \in receipts : rc.event.op = "correct" =>
        \A h \in history :
            h.item \in DirectlyFrom(ledger, rc.event.root) =>
                rc.event.negative \notin h.content

-----------------------------------------------------------------------------
\* Circumstances under which the serving properties hold of every importer.

\* No re-export takes the id of an artifact that came from elsewhere.
KeepsLineage ==
    \A a \in Known(ledger) :
        ledger'[a].root = ledger[a].root /\ ledger'[a].inputs = ledger[a].inputs
LineageIsKept == [][KeepsLineage]_vars

\* Pass two, which visits artifacts by sorted id, visits inputs first.
SortedByDerivation ==
    \A a \in Known(ledger) : \A b \in ledger[a].inputs : b < a

\* What an erratum retires is stated by descendants of its root only, and by its
\* own replacement least of all.
ClaimsStayAtHome ==
    \A e \in Event :
        /\ e.negative # e.replacement
        /\ \A a \in Known(ledger) \ Descendants(ledger, e.root) :
              e.negative \notin ledger[a].content
        /\ \A v \in Entry : e.negative \notin LooseText[v]

\* The host reads live sources: what it derives or indexes anew comes from no
\* retired artifact.
ReadsLive ==
    /\ \A a \in Known(ledger') \ Known(ledger) : ledger'[a].inputs \cap retired = {}
    /\ \A v \in indexed' \ indexed : SourceOf[v] \notin retired
SourcesAreLive == [][ReadsLive]_vars

\* No artifact descends from two roots that errata name.
AmendedRootsAreApart ==
    \A e, f \in Event :
        e.root # f.root => Descendants(ledger, e.root) \cap Descendants(ledger, f.root) = {}

\* An owner does not state again what was retired: neither a later erratum nor
\* a later export does.
RetiredForGood ==
    /\ \A e, f \in Event : f.seq > e.seq => f.replacement # e.negative
    /\ \A e \in Event, s \in Stamp : s > e.seq => e.negative \notin ExportText[e.root][s]

\* Seeds that no erratum reaches and no re-export replaces.
SeedsAside ==
    {a \in Known(SeedLedger) : /\ \A e \in Event : a \notin Descendants(SeedLedger, e.root)
                               /\ \A s \in Stamp : ReimportId[s] # a}

\* The probes of an erratum of good shape ask for its replacement, which a seed
\* derived from its root is there to take on, and for what seeds aside state.
ProbesFitTheSeeds ==
    \A e \in Event : WellFormed(e, Root) =>
        /\ e.op # "erase" =>
              /\ e.positive = e.replacement
              /\ Descendants(SeedLedger, e.root) \cap Derived(SeedLedger) # {}
        /\ \A p \in e.preserve : \E a \in SeedsAside : p \in SeedLedger[a].content

\* An importer of which the constants alone say as much: its host offers no
\* re-export, ids sort inputs first, and what one root's errata retire neither
\* the seeds elsewhere nor the errata of another root state.
PlainHost ==
    /\ Stamp = {}
    /\ \A a \in Known(SeedLedger) : \A b \in SeedLedger[a].inputs : b < a
    /\ \A a \in DOMAIN Derivation : \A b \in Derivation[a] : b < a
    /\ \A e \in Event : \A a \in Known(SeedLedger) \ Descendants(SeedLedger, e.root) :
          e.negative \notin SeedLedger[a].content
    /\ \A e \in Event, v \in Entry : e.negative \notin LooseText[v]
    /\ \A e, f \in Event : e.negative = f.replacement => e # f /\ e.root = f.root

-----------------------------------------------------------------------------
\* How far an erratum has come: the host holds its checkpoint, its repair runs,
\* its receipt was returned.
StageOf(e) ==
    IF \E rc \in receipts : rc.event = e THEN "attested"
    ELSE IF job # Idle /\ job.event = e THEN "rebuilding"
    ELSE IF checkpoint[e] # None THEN "gated" ELSE "unseen"

Lifecycle == INSTANCE ErratumLifecycle WITH stage <- [e \in Event |-> StageOf(e)]

\* Whatever the host offers, refuses to finish or retries, an importer takes its
\* errata through the abstract lifecycle: in sequence, one at a time, gated
\* before they are rebuilt, gated again after a failure, attested for good.
FollowsLifecycle == Lifecycle!Spec
===============================================================================
