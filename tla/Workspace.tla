------------------------------ MODULE Workspace ------------------------------
(***************************************************************************)
(* The command line over one workspace directory (prototype/cli.py,        *)
(* workspace.py, checkpoints.py) with its SQLite store (sqlite_store.py).  *)
(*                                                                         *)
(* `export`, `derive` and `publish` append one line to a file.  A          *)
(* `quarantine` or `repair` is a process of its own: it opens the          *)
(* directory, builds an importer in memory, looks at the checkpoint, and   *)
(* then makes one durable change per step here.  It may die between any    *)
(* two of them, which loses its memory and keeps the files, and other      *)
(* commands may run meanwhile: nothing locks the directory, so what a      *)
(* command looked at may have changed when it writes.                      *)
(*                                                                         *)
(* Artifact ids are numbers in their sorted order.  The second store of    *)
(* the importer, prompt_cache, is opaque: it holds nothing inspectable.    *)
(***************************************************************************)
EXTENDS ErrataFeed, Coverage, Lineage

CONSTANTS
    Process,        \* commands that may run at the same time
    Line,           \* lines export and derive may append to lineage.jsonl
    SeedLineage,    \* lineage.jsonl at the start
    Event,          \* errata publish may append
    SeedFeed,       \* errata.jsonl at the start
    OpaqueStore,    \* config.json "opaque_store"
    MaxLineage,     \* bound: lines of lineage.jsonl
    MaxCrashes      \* bound: processes that die

VARIABLES
    lineage,        \* registry/lineage.jsonl
    feed,           \* feeds/errata.jsonl
    row,            \* store.sqlite3: the row of each artifact id
    checkpointFile, \* checkpoints/<sequence>-<id>.json, by event
    receiptFile,    \* receipts/<sequence>-<id>.json, by event
    appliedFile,    \* registry/applied.json, 0 where a root has no entry
    proc,           \* the memory of each process
    crashes,        \* processes that have died
    raced           \* has a file been replaced that another command was about to?

durable == <<lineage, feed, row, checkpointFile, receiptFile, appliedFile>>
vars    == <<durable, proc, crashes, raced>>

-----------------------------------------------------------------------------
\* What the files hold.

LineageLine == [id : ArtifactId, root : {None} \cup Root,
                inputs : SUBSET ArtifactId, content : Text]

Row == [content : {None} \cup Text, inputs : SUBSET ArtifactId,
        quarantined : BOOLEAN, retired : BOOLEAN, rebuilt : BOOLEAN]

Contents  == [ArtifactId -> {None} \cup Text]
StateRoot == [contents : Contents, rows : Contents]

Checkpoint == [state : StateRoot, items : SUBSET ArtifactId,
               coverage : CoverageResult, consumed : BOOLEAN]

MapsFrom(keys, values) == UNION {[some -> values] : some \in SUBSET keys}

Disposition == {"retired", "rebuilt", "quarantined-only", "untouched"}

Receipt == [event : Event, pre : StateRoot, post : StateRoot,
            dispositions : MapsFrom(ArtifactId, Disposition),
            stores : MapsFrom({"sqlite", "prompt_cache"}, CoverageResult),
            triad : MapsFrom({"negative", "positive", "preserve"}, BOOLEAN),
            aggregate : CoverageResult, scanned : BOOLEAN]

ASSUME WorkspaceAssumption ==
    /\ ArtifactId \subseteq Nat
    /\ Line \subseteq LineageLine
    /\ None \notin Row /\ None \notin Checkpoint /\ None \notin Receipt
    /\ SeedLineage \in Seq(Line) /\ SeedFeed \in Seq(Event)
    /\ \A e \in Event : e # None /\ IsErratum(e)
    /\ OpaqueStore \in BOOLEAN /\ MaxLineage \in Nat /\ MaxCrashes \in Nat

-----------------------------------------------------------------------------
\* The files.

\* load_lineage raises KeyError when this is false.
LineageLoads ==
    \A n \in DOMAIN lineage :
        lineage[n].inputs \subseteq {lineage[m].id : m \in 1..(n - 1)}

\* load_lineage: the last line of an id decides.
LoadedLedger ==
    [a \in ArtifactId |->
        LET lines == {n \in DOMAIN lineage : lineage[n].id = a}
        IN  IF lines = {} THEN None
            ELSE [root    |-> lineage[Max(lines)].root,
                  inputs  |-> lineage[Max(lines)].inputs,
                  content |-> lineage[Max(lines)].content]]

LastApplied == Max({0} \cup {appliedFile[r] : r \in Root})

\* _next_pending: the first event of the feed above the last applied sequence.
Pending == {n \in DOMAIN feed : feed[n].seq > LastApplied}
NextPending == feed[Min(Pending)]

-----------------------------------------------------------------------------
\* SqliteAdapter, over the ledger `l` of one process.

\* _sync_from_ledger: INSERT OR IGNORE, ungated and unflagged.
Synced(l) ==
    [a \in ArtifactId |->
        IF row[a] = None /\ l[a] # None
        THEN [content |-> l[a].content, inputs |-> l[a].inputs,
              quarantined |-> FALSE, retired |-> FALSE, rebuilt |-> FALSE]
        ELSE row[a]]

Rows(db) == {a \in ArtifactId : db[a] # None}
Gated(db) == {a \in Rows(db) : db[a].quarantined}
Enumerate(db, l, r) == Rows(db) \cap Descendants(l, r)
Disposed(db) == {a \in Rows(db) : db[a].retired \/ db[a].rebuilt}

\* What recall may return.
Visible(db) ==
    {a \in Rows(db) : ~db[a].quarantined /\ ~db[a].retired /\ db[a].content # None}
Recalls(db, p) == \E a \in Visible(db) : p \in db[a].content

LineageComplete(db, l, r) == r \in RootsSeen(l) /\ Rows(db) = Known(l)

\* state_root: the ledger in memory and the rows not retired
InspectableState(db, l) ==
    [contents |-> [a \in ArtifactId |-> IF l[a] = None THEN None ELSE l[a].content],
     rows     |-> [a \in ArtifactId |->
                    IF db[a] = None \/ (db[a] # None /\ db[a].retired)
                    THEN None ELSE db[a].content]]

CheckpointCoverageOf(db, l, r) ==
    CheckpointCoverage(
        QuarantineCoverage(LineageComplete(db, l, r), Enumerate(db, l, r), Gated(db)),
        ~LineageComplete(db, l, r))

-----------------------------------------------------------------------------
\* Processes.

Memory == [pc : {"exited", "opened", "gate", "write checkpoint", "retire", "rebuild",
                 "replace receipt", "record applied", "replace registry", "consume"},
           event : {None} \cup Event, ledger : {None} \cup Ledger,
           checkpoint : {None} \cup [state : StateRoot] \cup Checkpoint,
           todo : SUBSET ArtifactId, dropped : SUBSET ArtifactId,
           captured : SUBSET ArtifactId, receipt : {None} \cup Receipt,
           registry : {None} \cup [Root -> Nat]]

Exited == [pc |-> "exited", event |-> None, ledger |-> None, checkpoint |-> None,
           todo |-> {}, dropped |-> {}, captured |-> {}, receipt |-> None, registry |-> None]

Exit(p) == proc' = [proc EXCEPT ![p] = Exited]

\* observe in a fresh process: nothing observed yet, roots from the ledger
Observable(e, l) == Verdict(e, LastApplied, {}, RootsSeen(l)) = "accepted"

Init ==
    /\ lineage = SeedLineage /\ feed = SeedFeed
    /\ row = [a \in ArtifactId |-> None]
    /\ checkpointFile = [e \in Event |-> None]
    /\ receiptFile = [e \in Event |-> None]
    /\ appliedFile = [r \in Root |-> 0]
    /\ proc = [p \in Process |-> Exited]
    /\ crashes = 0 /\ raced = FALSE

\* export, derive: append without reading what is there
AppendLineage(l) ==
    /\ Len(lineage) < MaxLineage
    /\ lineage' = Append(lineage, l)
    /\ UNCHANGED <<feed, row, checkpointFile, receiptFile, appliedFile, proc, crashes, raced>>

Publish(e) ==
    /\ \A n \in DOMAIN feed : feed[n] # e
    /\ feed' = Append(feed, e)
    /\ UNCHANGED <<lineage, row, checkpointFile, receiptFile, appliedFile, proc, crashes, raced>>

\* _importer and _next_pending, which every command that opens the store begins
\* with: load the lineage, sync the store, and find an event that observe accepts.
Open(p) ==
    /\ proc[p] = Exited
    /\ LineageLoads
    /\ LET l == LoadedLedger
       IN  /\ row' = Synced(l)
           /\ IF Pending # {} /\ Observable(NextPending, l)
              THEN proc' = [proc EXCEPT ![p] =
                      [@ EXCEPT !.pc = "opened", !.event = NextPending, !.ledger = l]]
              ELSE UNCHANGED proc
    /\ UNCHANGED <<lineage, feed, checkpointFile, receiptFile, appliedFile, crashes, raced>>

\* quarantine, up to the pre-state root.  With a checkpoint on disk the command
\* only validates it and prints; so does plan, which opens the store as well.
QuarantineStart(p) ==
    LET me == proc[p]
    IN  /\ me.pc = "opened"
        /\ IF checkpointFile[me.event] = None
           THEN proc' = [proc EXCEPT ![p].pc = "gate",
                            ![p].checkpoint = [state |-> InspectableState(row, me.ledger)]]
           ELSE Exit(p)
        /\ UNCHANGED <<durable, crashes, raced>>

\* Importer._quarantine: one transaction gates every descendant.
Gate(p) ==
    LET me    == proc[p]
        items == Enumerate(row, me.ledger, me.event.root)
        gatedRow == [a \in ArtifactId |->
                        IF a \in items THEN [row[a] EXCEPT !.quarantined = TRUE] ELSE row[a]]
    IN  /\ me.pc = "gate"
        /\ row' = gatedRow
        /\ proc' = [proc EXCEPT ![p].pc = "write checkpoint", ![p].checkpoint =
              [state    |-> me.checkpoint.state,
               items    |-> items,
               coverage |-> CheckpointCoverageOf(gatedRow, me.ledger, me.event.root),
               consumed |-> FALSE]]
        /\ UNCHANGED <<lineage, feed, checkpointFile, receiptFile, appliedFile, crashes, raced>>

\* CheckpointStore.write: os.replace over whatever is there
WriteCheckpoint(p) ==
    /\ proc[p].pc = "write checkpoint"
    /\ checkpointFile' = [checkpointFile EXCEPT ![proc[p].event] = proc[p].checkpoint]
    /\ Exit(p)
    /\ UNCHANGED <<lineage, feed, row, receiptFile, appliedFile, crashes, raced>>

\* _validate_checkpoint over the store and the ledger this process loaded
CheckpointIsValid(e, db, l) ==
    LET cp == checkpointFile[e]
    IN  /\ cp # None
        /\ ~cp.consumed
        /\ cp.state = InspectableState(db, l)
        /\ cp.coverage = CheckpointCoverageOf(db, l, e.root)
        /\ cp.items = Enumerate(db, l, e.root)
        /\ cp.items \subseteq Gated(db)

\* repair, up to the first item of pass one
RepairStart(p) ==
    LET me == proc[p]
        cp == checkpointFile[me.event]
    IN  /\ me.pc = "opened"
        /\ IF CheckpointIsValid(me.event, row, me.ledger)
           THEN proc' = [proc EXCEPT ![p].pc = "retire", ![p].checkpoint = cp,
                            ![p].todo = {a \in cp.items : row[a].inputs = {}}]
           ELSE Exit(p)
        /\ UNCHANGED <<durable, crashes, raced>>

\* A variant that visits an item before its inputs.
IsLast(p, a) == a \in proc[p].todo /\ \A b \in proc[p].todo : b <= a

IsNext(p, a) == a \in proc[p].todo /\ \A b \in proc[p].todo : a <= b

\* A variant that only flags the row.
FlaggedRow(r) == [r EXCEPT !.retired = TRUE, !.quarantined = TRUE]

RetiredRow(r) == [r EXCEPT !.content = None, !.retired = TRUE, !.quarantined = TRUE]

\* SqliteAdapter.retire: capture the value for the scan, then clear the row.
RetireItem(p, a) ==
    /\ proc[p].pc = "retire"
    /\ IsNext(p, a)
    /\ row' = [row EXCEPT ![a] = RetiredRow(@)]
    /\ proc' = [proc EXCEPT
            ![p].todo = @ \ {a}, ![p].dropped = @ \cup {a},
            ![p].captured = @ \cup (IF row[a].content \in {None, {}} THEN {} ELSE {a})]
    /\ UNCHANGED <<lineage, feed, checkpointFile, receiptFile, appliedFile, crashes, raced>>

EndPassOne(p) ==
    /\ proc[p].pc = "retire" /\ proc[p].todo = {}
    /\ proc' = [proc EXCEPT ![p].pc = "rebuild",
                            ![p].todo = proc[p].checkpoint.items \ proc[p].dropped]
    /\ UNCHANGED <<durable, crashes, raced>>

\* A variant in which every input survives.
AllInputs(p, a) == row[a].inputs

SurvivingInputs(p, a) == row[a].inputs \ proc[p].dropped

\* SqliteAdapter.rebuild: the inputs' text comes from the ledger in memory.
RebuildItem(p, a) ==
    LET me     == proc[p]
        joined == JoinedText(me.ledger, SurvivingInputs(p, a), me.event.replacement)
    IN  /\ me.pc = "rebuild"
        /\ IsNext(p, a)
        /\ row' = [row EXCEPT ![a].content = joined, ![a].rebuilt = TRUE,
                              ![a].quarantined = FALSE]
        /\ proc' = [proc EXCEPT ![p].todo = @ \ {a},
                                ![p].ledger = SetContent(@, a, joined)]
        /\ UNCHANGED <<lineage, feed, checkpointFile, receiptFile, appliedFile, crashes, raced>>

Triad(e) ==
    [leg \in {"negative", "preserve"} \cup
             (IF e.op = "erase" THEN {} ELSE {"positive"}) |->
        CASE leg = "negative" -> ~Recalls(row, e.negative)
          [] leg = "positive" -> Recalls(row, e.positive)
          [] leg = "preserve" -> \A p \in e.preserve : Recalls(row, p)]

\* scan_files: whether the bytes of a captured value are still in the store's
\* files, or the files can be read, is SQLite's and the file system's choice.
ScanResult == {"found", "no scan", "clean"}

\* blocks_verified: nothing but a clean scan is positive evidence.
BlocksVerified(scan) == scan # "clean"

\* SqliteAdapter.coverage
FinalCoverage(me, scan) ==
    LET kept == DispositionCoverage(Enumerate(row, me.ledger, me.event.root), Disposed(row))
    IN  IF kept # "verified" \/ me.captured = {} THEN kept
        ELSE IF scan = "found" THEN "failed"
        ELSE IF BlocksVerified(scan) THEN "partial" ELSE "verified"

\* dispositions
DispositionOf(r) ==
    CASE r.retired -> "retired"
      [] ~r.retired /\ r.rebuilt -> "rebuilt"
      [] ~r.retired /\ ~r.rebuilt /\ r.quarantined -> "quarantined-only"
      [] OTHER -> "untouched"

\* _attest.  `scanned` is not in the file: it records what the scan was.
ReceiptOf(me, scan) ==
    LET e      == me.event
        sqlite == ConservativeCoverage(me.checkpoint.coverage, FinalCoverage(me, scan))
        stores == [s \in {"sqlite"} \cup (IF OpaqueStore THEN {"prompt_cache"} ELSE {}) |->
                      IF s = "sqlite" THEN sqlite ELSE "unknown"]
    IN  [event |-> e, pre |-> me.checkpoint.state,
         post |-> InspectableState(row, me.ledger),
         dispositions |-> [a \in Enumerate(row, me.ledger, e.root) |-> DispositionOf(row[a])],
         stores |-> stores, triad |-> Triad(e),
         aggregate |-> AggregateCoverage(stores, Triad(e)),
         scanned |-> me.captured # {}]

\* A variant that consumes the checkpoint before the sequence is recorded.
ConsumedFirst(step) ==
    CASE step = "receipt" -> "consume" [] step = "applied" -> "record applied"

\* cmd_repair: what follows each writeback.
Following(step) ==
    CASE step = "receipt" -> "record applied" [] step = "applied" -> "consume"

\* A variant that does not look for an earlier receipt.
AlwaysNew(e) == TRUE

IsNew(e) == receiptFile[e] = None

AgreesWithFile(e, receipt) == [receiptFile[e] EXCEPT !.scanned = receipt.scanned] = receipt

\* probe, attest, and the first half of write_receipt: a receipt that is there
\* already stays if it agrees, and ends the command if it does not.
LookForReceipt(p, scan) ==
    LET me == proc[p]
        receipt == ReceiptOf(me, scan)
    IN  /\ me.pc = "rebuild" /\ me.todo = {}
        /\ IF IsNew(me.event)
           THEN proc' = [proc EXCEPT ![p].pc = "replace receipt", ![p].receipt = receipt]
           ELSE IF AgreesWithFile(me.event, receipt)
           THEN proc' = [proc EXCEPT ![p].pc = Following("receipt")]
           ELSE Exit(p)
        /\ UNCHANGED <<durable, crashes, raced>>

\* Has another command looked at what p replaces now, to replace it as well?
ReceiptIsContended(p) ==
    \E q \in Process \ {p} : proc[q].pc = "replace receipt" /\ proc[q].event = proc[p].event
RegistryIsContended(p) ==
    \E q \in Process \ {p} : proc[q].pc = "replace registry"

\* The rest of write_receipt: os.replace of whatever is there by now.
ReplaceReceipt(p) ==
    LET me == proc[p]
    IN  /\ me.pc = "replace receipt"
        /\ receiptFile' = [receiptFile EXCEPT ![me.event] = me.receipt]
        /\ proc' = [proc EXCEPT ![p].pc = Following("receipt"), ![p].receipt = None]
        /\ raced' = (raced \/ ReceiptIsContended(p))
        /\ UNCHANGED <<lineage, feed, row, checkpointFile, appliedFile, crashes>>

\* record_applied reads the registry; a root that has another sequence is refused.
ReadRegistry(p) ==
    LET e == proc[p].event
    IN  /\ proc[p].pc = "record applied"
        /\ IF appliedFile[e.root] \in {0, e.seq}
           THEN proc' = [proc EXCEPT ![p].pc = "replace registry", ![p].registry = appliedFile]
           ELSE Exit(p)
        /\ UNCHANGED <<durable, crashes, raced>>

\* A variant that does not keep what is recorded.
AppliedAlone(view, e) == [r \in Root |-> IF r = e.root THEN e.seq ELSE 0]

AppliedWith(view, e) == [view EXCEPT ![e.root] = e.seq]

\* _atomic_json: os.replace of the whole registry by what was read, plus the
\* entry.  Another repair may have replaced it since, and nothing notices.
ReplaceRegistry(p) ==
    /\ proc[p].pc = "replace registry"
    /\ appliedFile' = AppliedWith(proc[p].registry, proc[p].event)
    /\ proc' = [proc EXCEPT ![p].pc = Following("applied"), ![p].registry = None]
    /\ raced' = (raced \/ RegistryIsContended(p))
    /\ UNCHANGED <<lineage, feed, row, checkpointFile, receiptFile, crashes>>

\* CheckpointStore.consume.  It refuses a checkpoint that is consumed already,
\* which leaves the file as setting the mark again does.
Consume(p) ==
    LET e == proc[p].event
    IN  /\ proc[p].pc = "consume"
        /\ checkpointFile' =
              [checkpointFile EXCEPT ![e].consumed = TRUE]
        /\ Exit(p)
        /\ UNCHANGED <<lineage, feed, row, receiptFile, appliedFile, crashes, raced>>

Crash(p) ==
    /\ proc[p] # Exited
    /\ crashes < MaxCrashes
    /\ crashes' = crashes + 1
    /\ Exit(p)
    /\ UNCHANGED <<durable, raced>>

\* What a command still has to do once it has admitted its event.
Continue(p) ==
    \/ Gate(p) \/ WriteCheckpoint(p)
    \/ \E a \in ArtifactId : RetireItem(p, a) \/ RebuildItem(p, a)
    \/ EndPassOne(p)
    \/ \E scan \in ScanResult : LookForReceipt(p, scan)
    \/ ReplaceReceipt(p) \/ ReadRegistry(p) \/ ReplaceRegistry(p) \/ Consume(p)

Next ==
    \/ \E l \in Line : AppendLineage(l)
    \/ \E e \in Event : Publish(e)
    \/ \E p \in Process :
          Open(p) \/ QuarantineStart(p) \/ RepairStart(p) \/ Continue(p) \/ Crash(p)

Spec == Init /\ [][Next]_vars

\* An operator who keeps running both commands, and processes that are scheduled.
FairSpec ==
    /\ Spec
    /\ \A p \in Process :
          /\ WF_vars(Open(p)) /\ WF_vars(Continue(p))
          /\ SF_vars(QuarantineStart(p)) /\ SF_vars(RepairStart(p))
    /\ \A e \in Event : WF_vars(Publish(e))

-----------------------------------------------------------------------------
\* Every file and every process memory holds a value the code could put there.
TypeOK ==
    /\ lineage \in Seq(Line) /\ feed \in Seq(Event)
    /\ row \in [ArtifactId -> {None} \cup Row]
    /\ checkpointFile \in [Event -> {None} \cup Checkpoint]
    /\ receiptFile \in [Event -> {None} \cup Receipt]
    /\ appliedFile \in [Root -> Nat]
    /\ proc \in [Process -> Memory]
    /\ raced \in BOOLEAN
    /\ \A a \in Rows(row) : row[a].retired => row[a].content = None /\ row[a].quarantined

\* prototype/README.md: "consumption happens only after receipt and applied-state
\* writeback".  Whatever died when, an applied entry implies the receipt it rests
\* on, and a consumed checkpoint implies the receipt and, as long as no two
\* commands raced for a file, the applied entry.
WritebackInOrder ==
    /\ \A e \in Event : checkpointFile[e] # None =>
          (checkpointFile[e].consumed =>
              /\ receiptFile[e] # None
              /\ ~raced => appliedFile[e.root] = e.seq)
    /\ \A r \in Root : appliedFile[r] # 0 =>
          \E e \in Event : e.root = r /\ e.seq = appliedFile[r] /\ receiptFile[e] # None

\* workspace.py: "evidence does not get edited in place".  Whichever commands die
\* and resume, a receipt stays as signed and an applied sequence as recorded,
\* until one command replaces a file that another has looked at in order to
\* replace it.  From then on neither is safe: nothing locks the directory.
EvidenceIsFinal ==
    [][~raced' =>
         /\ \A e \in Event : receiptFile[e] # None => receiptFile'[e] = receiptFile[e]
         /\ \A r \in Root : appliedFile[r] # 0 => appliedFile'[r] = appliedFile[r]]_vars

\* The gate outlives the process that raised it: from the durable checkpoint to
\* the applied entry no checkpointed artifact serves what the erratum retires,
\* however often quarantine and repair die in between.
OpenErratumServesNothingStale ==
    \A e \in Event :
        checkpointFile[e] # None /\ LastApplied < e.seq =>
            \A a \in checkpointFile[e].items \cap Visible(row) :
                e.negative \notin row[a].content

\* An applied erratum stays applied: no later command, and no late write of a
\* command that raced it, serves the retired proposition again from what its
\* checkpoint gated.
AppliedStaysClean ==
    \A e \in Event :
        appliedFile[e.root] = e.seq /\ receiptFile[e] # None =>
            \A a \in checkpointFile[e].items \cap Visible(row) :
                e.negative \notin row[a].content

\* With an operator who keeps running the commands every published erratum is
\* applied ("safe resume").
FeedIsApplied == <>(\A e \in Event : appliedFile[e.root] >= e.seq)

\* residue.py, rule 2: an unscanned store cannot reach `verified`.
VerifiedStoreWasScanned ==
    \A e \in Event :
        receiptFile[e] # None /\ receiptFile[e].stores["sqlite"] = "verified"
            => receiptFile[e].scanned

-----------------------------------------------------------------------------
\* Circumstances under which the serving properties hold of every directory.

Amended == {e.root : e \in Event}

\* What a line records is at home with at most one root that errata name: that
\* is where it was imported or derived, its inputs are at home there or nowhere,
\* it sorts after them, and what an erratum retires is stated at home only.
IsHome(home) ==
    \A l \in Line :
        /\ l.root \in Amended => home[l.id] = l.root
        /\ home[l.id] # None => l.root = home[l.id] \/ \E b \in l.inputs : home[b] = home[l.id]
        /\ \A b \in l.inputs : b < l.id /\ home[b] \in {None, home[l.id]}
        /\ \A e \in Event : e.negative \in l.content => home[l.id] = e.root
OneHomeEach == \E home \in [ArtifactId -> {None} \cup Amended] : IsHome(home)

\* An owner never states what an erratum of the same root retires: not at all,
\* not from that erratum on, or at least not in that erratum.
NeverStatedAgain ==
    \A e, f \in Event : e.root = f.root => e.negative # f.replacement
RetiredForGood ==
    \A e, f \in Event : e.root = f.root /\ e.seq <= f.seq => e.negative # f.replacement
ReplacedByAnother == \A e \in Event : e.negative # e.replacement

\* No repair goes on when its event, or a later one, is applied.
NoRepairIsLate ==
    \A p \in Process : proc[p].pc \in {"retire", "rebuild"} => LastApplied < proc[p].event.seq

-----------------------------------------------------------------------------
\* How far the files and the processes have taken an erratum.  A repair that was
\* refused after its receipt is not under way: it only exits.
StageOf(e) ==
    IF receiptFile[e] # None /\ appliedFile[e.root] = e.seq THEN "attested"
    ELSE IF \E p \in Process : /\ proc[p].event = e
                               /\ proc[p].pc \in {"retire", "rebuild", "replace receipt",
                                                  "record applied", "replace registry"}
         THEN "rebuilding"
    ELSE IF checkpointFile[e] # None THEN "gated" ELSE "unseen"

Lifecycle == INSTANCE ErratumLifecycle WITH stage <- [e \in Event |-> StageOf(e)]

\* Whichever commands run together and whichever die, the directory takes its
\* errata through the abstract lifecycle: in sequence and without a gap, gated
\* before they are rebuilt, gated again after a crash, applied for good.  A
\* registry entry lost to a race takes it back; until then it follows.
FollowsLifecycle ==
    Lifecycle!Init /\ [][~raced' => Lifecycle!Next]_<<[e \in Event |-> StageOf(e)]>>
===============================================================================
