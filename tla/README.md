# Verification of the LLM Errata prototype

LLM Errata lets the owner of an imported memory publish signed *errata*
(corrections, supersessions, erasures) and makes an importer repair everything
it derived from that memory: observe, quarantine, rebuild, test, attest. This
directory models that machinery in TLA+, checks it with TLC and proves part of
it with TLAPS.

## The system

| Component | State | Operations | What makes it correct |
|---|---|---|---|
| Lineage ledger (`prototype/lineage.py`) | artifacts with their inputs and roots | register an import or a derivation, rewrite content, walk to the descendants of a root | the walk returns exactly what is reachable |
| Errata feed (`errata.py`, `signing.py`) | none; a key schedule | authenticate and order a list of events | exactly the gap-free, conflict-free, authentic lists are accepted |
| Importer (`controller.py`) | last sequence, applied sequence per root, observed events, the stores | `observe`, `quarantine`, `repair_quarantined`, `repair`, `reimport` | only gated state is rebuilt; nothing retired is served; receipts follow the feed and claim no more than was done |
| In-memory stores (`adapters.py`) | gates, retired and rebuilt flags, vector texts, scoped history | gate, retire, rebuild, recall, coverage | an item is gated until its own rebuild |
| Strategy (`strategies.py`) | what pass one dropped | pass one retires, pass two rebuilds from what survives | the retired proposition is gone, the rest is kept |
| Workspace (`workspace.py`, `checkpoints.py`, `cli.py`) | lineage and feed files, checkpoints, receipts, applied registry | `export`, `derive`, `publish`, `quarantine`, `repair` | evidence is written in order and never rewritten, whatever dies when, until two commands race for a file |
| SQLite store (`sqlite_store.py`, `residue.py`) | one row per artifact | the adapter operations, one transaction each; residue scan | a store not scanned is not `verified` |
| Receipts (`receipts.py`) | none | combine store coverage and probes | `verified` is earned |
| Semantic probes (`semantic.py`) | one run's answers | ask a verifier, evaluate, report, parse | uncertainty is never upgraded, failure never masked |
| Publication manifest (`scripts/check_publication.py`) | the manifest in the working tree, its committed revisions | validate | what was public once stays accounted for, over any number of revisions |
| Conformance validator (`conformance.py`, `adapter-conformance` in `cli.py`) | two checkouts, the memory of one run, its exit code and report | admit and execute a binding, run every case plain and mutated under a timeout, report | a binding that passes tells its store with a defect from one without; a report follows from the bytes it names; a run ends |
| Readiness gate (`scripts/check_readiness.py`) | the checkout, its commits, the reports recorded in the ledger | validate | what may be called `PASS` rests on outside reports about this very content |
| Schema, Ed25519, surface digest, `claim_guard`, `validate_repo`, `check_links`, demo | | | not modelled, see below |

The components interact by calls: the command line builds an importer over the
ledger it loads and the SQLite store; the importer calls its adapters; the
strategy calls back into the importer's adapters item by item. They share state
through the ledger (adapters read and rewrite its contents) and through the
workspace directory (commands that run at the same time).

What is hard: the host acts between `quarantine` and `repair`; an adapter raises
in the middle of a repair, which is then retried; a command dies between two
durable changes and the next starts from the files; two commands run at once
with no lock, each replacing what it looked at a step ago; several errata hit one root, or two roots that share a
descendant; a verifier answers anything; a binding supplies the very observations it is
judged by; a checker that compares neighbouring
revisions only speaks about the whole history; a foreign binding hangs, raises,
leaves or catches the alarm while the files it was admitted with are edited; a report outlives the
content it was about.

## The modules

`Vocabulary` holds the values all modules speak about. A text is the set of
propositions it states: the code joins texts with `"; "` (union) and probes them
for substrings (membership).

- **`Lineage`** has the ledger as a function from ids to records and the
  operators over it; `Descendants` is the closed definition, the least closed
  set. **`LineageWalk`** is the loop that computes it, one visit a step, in any
  order.
- **`ErrataFeed`** has the checks of `verify_feed` in their order as the
  operator `Verdict`; **`FeedWalk`** is the loop over a list. A signature is
  modelled by who made it: it verifies for that key on that content only.
- **`Coverage`** has the pure rules that combine coverage results.
- **`Importer`** extends the three: one importer over a Markdown, a vector and
  an optional or required opaque store. `Quarantine` is one step (no adapter of
  it may be interrupted: it only adds to a set). A repair is `BeginRepair`
  (observe and validate the checkpoint), then one `RetireItem` or `RebuildItem`
  per item in the order the code visits them, `EndPassOne` between the passes,
  and `Attest`. `Interrupt` is an adapter call that raises. Between steps of
  different repairs the host may `Derive`, `Index` or `Reimport`.
- **`Workspace`** extends the same three: the directory's files, the SQLite
  rows, and processes whose memory is lost at a `Crash`. One step is one durable
  change, or one look at a file that decides about a later one. Every command
  that opens the store begins with `Open`: it loads the lineage, syncs it into
  the store and picks the pending event. `QuarantineStart` and `RepairStart` then
  look at the checkpoint; `quarantine` over an existing one, `plan` and a refused
  `repair` exit there. A receipt takes two steps (`LookForReceipt` finds none,
  `ReplaceReceipt` replaces whatever is there by then), and so does the registry
  (`ReadRegistry`, `ReplaceRegistry`). The history variable `raced` becomes true
  when a command replaces a file that another one has looked at in order to
  replace it. `pull`, `test`, `attest`, `audit` and `verify` only read.
- **`ErratumLifecycle`** is what both promise, whatever stores, files and
  processes they are made of: a *stage* per erratum (unseen, gated, rebuilding,
  attested) that moves one at a time, in feed order, one erratum per sequence.
  `Importer` and `Workspace` each instantiate it `WITH stage <- StageOf`.
  `FollowsLifecycle` is `Lifecycle!Spec` for the importer, and for the workspace
  the same up to the first race. In the importer the stage is read off the receipts, the repair that runs and the checkpoints; in
  the workspace off the registry and receipt files, the processes that are past
  validation, and the checkpoint files.
- **`SemanticRun`** is one run of the semantic probe runner and the later parse
  of its report.
- **`PublicationHistory`** is the checker as the operator `Accepted` over a draft
  manifest and a sequence of revisions. Its actions are not code but what the
  checker is exposed to: documented edits (`Supersede`, `Retarget`), a careless
  one (`Slip`), `Commit` without a check, and `Restore` of any revision. Its
  properties all say what an *accepted* draft owes to every earlier revision.

- **`ReferenceBinding`** has the synthetic store of the conformance corpus and the
  corpus itself as operators: what each case expects, what its flattering
  mutation must yield, and what the reference binding makes of either.
  **`Conformance`** is a run of the validator over them: one action per read of a
  file, per Git query and per call of the binding, between any two of which
  either checkout may be edited, committed or restored. What a binding does is a
  constant function (`Conduct`) of the versions of its module and its helper that
  were executed. `observe()` and `calls` are the binding's own word, and it is
  handed the case with both results: its `answers` are, per case and mode, what is
  seen of its store or a recital of either result. The alarm is armed, goes off
  once inside the binding's code, and is not set again before the next call that
  sets it. An audit of the lineage catches it (`AuditEnds`), and so may the
  binding itself, at the points of its `catches` (`Swallows`).
- **`Readiness`** has the checker as the operator `Accepts` over what the ledger
  says. Statuses and verdict are not state: nothing but the check stands between
  them and a green repository, so the properties quantify over all of them. Its
  actions are, as in the publication history, what the checker is exposed to:
  edits, commits, reports on a commit or on a dirty checkout, withdrawals.

`MC*` modules give the constants values. Definitions commented as *variants* are
plausible wrong versions of the definition that follows them; they are used by
no action and serve to show that each property would notice.

`MCWalks` runs the two loops, which share no state, in one configuration.

Abstractions a reader should know: registering an import over an existing
derivation id leaves the code's root index and record separate, the model has
the record only; checkpoint digests, JSON and journal are left out. An entry the
host indexes takes the text of its source, or `LooseText` if its source is not
registered; the code takes any text. The host derives each id and indexes each
entry once. `Open` loads the lineage and syncs the store in one step, a probe and
the receipt read the store in one step, and `CheckpointStore.consume` compares
and replaces in one step, as the mark it sets is all it changes. In `Conformance`
the checks on the format, quotations and provenance of a corpus are one Boolean,
and the module table that the loader empties and restores is left out, as it ends
with the process. In `Readiness` a digest is the content it hashes, in which the
review target reads as zeros (`Hashed`, from `normalize_corpus_target`), and
conditions that can only refuse more are left out: dates, versions, reference
formats, gate classes, the matrix. G1 has no external evidence; G2 is there through
its surface, which G4 shares.

## The runs

| Run | Question | Bounds and why they suffice |
|---|---|---|
| `MCWalks` | are the two walks exact, and do they end? | every ledger over 3 artifacts and 2 roots: chains, diamonds, cycles, an import that was re-registered; lists of up to 4 out of 9 events, one defect each, key rotation at 3, starting at 0 to 2 |
| `MCSemanticRun` | is a report honest? | 6 declarations, 13 answers covering every verdict and every kind of mismatch, recorded lists with duplicates |
| `MCPublicationHistory` | do checks of neighbours add up to a promise about the whole history? | 3 revisions (the third is never compared with the first), 5 URLs, 2 targets, one careless edit anywhere among documented edits, commits and restores; a wrong version of the checker is caught within these bounds for each property |
| `MCImporterInterrupts` | are interruption and retry safe, and do they end? | a correction, then an erasure of the same root; 4 artifacts and 1 entry, 1 more artifact derived and 2 more entries indexed, one of them before its source is registered, the other from an import that may be retired; an optional opaque store, so that a receipt may be `verified`; 2 interruptions, so a retry is interrupted again |
| `MCImporterFeed` | are receipts, observations and re-exports right, and is the lifecycle followed? | competing events for one sequence, a forged one, an erasure after them; re-exports stamped before and exactly at an applied sequence, for both roots; a required opaque store; 1 interruption |
| `MCWorkspaceCommands` | do durable effects survive races and crashes, in the order of the lifecycle? | 2 processes, 2 crashes, two roots, a late derivation from a derivative or a line recorded twice, events published at any time and in any order; races for a receipt and for the registry happen |
| `MCConformance` | can a blind binding pass, and what does a report rest on? | 2 edits or commits and any number of restores, 13 bindings with one defect or trouble each, two that catch the alarm, one that recites the expected and counter-results and passes, one that recites the expected ones in both modes; 2 helpers (one makes the first binding blind), 3 corpora, 3 fixtures; two edits are what swaps a file and moves the commit, or swaps a file and a second one |
| `MCReadiness` | what does an accepted `PASS` rest on? | gates G3 to G6, 2 parts, 1 edit (a content or the review target alone), 2 commits, 6 reports at a time (an accepted ready ledger needs six) out of 8 kinds, about any commit or a dirty checkout |
| `MCImporterShared`, `MCImporterHistory`, `MCWorkspaceWedge`, `MCWorkspaceScan` | disagreements, see below | the smallest configuration that shows each |

Deadlock is not checked: an importer whose host has nothing left to do, a loop
that returned, a directory with nothing pending and a validator that has exited
really do stop, and `Readiness` is bounded in its edits, commits and entries.

Four properties fail in a violation run: the importer's `AppliedStaysClean` and
`CorrectedIsNotHistory`, the workspace's `FeedIsApplied` and
`VerifiedStoreWasScanned`. The code serves nothing retired only under circumstances. `Importer` and `Workspace` define these as named
conditions on the constants or on every state (`SortedByDerivation`,
`ClaimsStayAtHome`, `AmendedRootsAreApart`, `RetiredForGood`, `LineageIsKept`,
`SourcesAreLive`, `ProbesFitTheSeeds`; `OneHomeEach`, `NeverStatedAgain`,
`NoRepairIsLate`). The theorems have them as hypotheses; the cases met in which
the code leaves one of them and serves what was retired are listed below.

`raced` is not a circumstance but part of the properties: `EvidenceIsFinal`,
`FollowsLifecycle` and the registry half of `WritebackInOrder` speak of the steps
up to the first race. The run goes on beyond it, and the serving properties and
the other half of `WritebackInOrder` are checked there too.

### Fairness

`LineageWalk` and `FeedWalk` are sequential loops: weak fairness of their step.
The importer's `FairSpec` is a host that keeps trying: `Quarantine` and
`BeginRepair` of each event are weakly fair, and a repair that runs goes on.
Adapter failures are bounded by `MaxInterrupts`, not fair. Re-exports are left
out of that run: a host that re-exports for ever makes every checkpoint stale
before it is used, and the code promises nothing to such a host. The workspace's
`FairSpec` is an operator who keeps running both commands, and an operating
system that schedules processes: what the README promises to an interrupted
rebuild, which `MCWorkspaceWedge` refutes. In `Conformance` the validator is
scheduled, and an alarm that is armed goes off in a call that hangs. No fairness
keeps a binding or an audit from catching it, so `RunsEnd` ends in a report, an
exit, or a call that hangs without an alarm (`HangsForGood`). Editors are not fair.

### Disagreements found

Four runs end in a violation that TLC exhibits:

- `MCImporterShared`: a second erratum on a root that shares a summary with an
  earlier one joins the earlier root's retired import back in.
- `MCWorkspaceWedge`: a repair that dies past its first row can never be resumed
  nor quarantined again.
- `MCImporterHistory`: a supersession after a correction of the same root retires
  the corrected import again and copies its content, which `retire` left in the
  ledger, into the scoped history that a correction promises not to have.
- `MCWorkspaceScan`: a second erratum on a root finds its imports cleared; the
  process that repairs it captures no value, scans for nothing and signs
  `verified`.

Others were met while modelling and have no run; "hazards" in `PROJECT.json`
gives each at its line.

- Importer: pass two goes by sorted id, so a derivative that sorts before its
  input is rebuilt from the input's old text and served; a rebuilt item is served
  before the receipt of its interrupted repair; a stale re-export accepted
  between quarantine and repair is served until the repair; `retire` leaves the
  ledger content in place, so an artifact derived or an entry indexed later from a
  retired one may state its text again (excluded by `SourcesAreLive`).
- Workspace: a command with a fresh importer does not compare a second event for
  a sequence; `derive` records unknown inputs; a late `quarantine` replaces a
  consumed checkpoint; a mixed lineage breaks `AppliedStaysClean` here too; a
  repair that goes on after another process has applied its event reopens an item
  that the next erratum of the same root has gated meanwhile, with the first
  replacement, which that erratum retires (excluded by `NoRepairIsLate`); of two
  repairs that find no receipt the later overwrites what the earlier signed, and of
  two that read the registry at once the later drops the earlier's entry, where
  `prototype/workspace.py:4-6` says "evidence does not get edited in place" and the
  design leaves locking out
  (`docs/superpowers/specs/2026-08-12-quarantine-checkpoint-design.md:137-138`).
- Conformance: the one alarm of a call is an `Exception` raised inside untrusted
  code and not set again, so an `except Exception` of the binding, or the one
  around an audit, takes it, and what hangs after that hangs the run, where
  `tests/test_conformance.py:292` calls the timeout hard and `SECURITY.md:54-58`
  says that it is no sandbox; a binding that answers from the case it is handed
  passes, which `THREAT_MODEL.md:63-67` concedes; a `SystemExit`
  raised by a binding outside of its import ends the process with the binding's
  own code, which `spec/README.md:60` reserves for the validator's verdict; the
  identity of the runtime checkout is checked once, and a reference run hashes
  a file that may be newer than the code that runs; `load_corpus` does not require
  a counter-result to differ from the expected result, so the property about blind
  bindings speaks of corpora where it does.
- Readiness: a report on a commit that is no longer current stays accepted while
  the files of its surface are unchanged, against
  `docs/superpowers/specs/2026-08-12-g6-operational-evidence-design.md:168`; a
  deployment's `artifact_digest` is compared with nothing; the evidence cells of
  the matrix are fixed strings ("no qualifying independent review is recorded")
  that a `PASS` has to keep; one stale report fails the whole check until it is
  withdrawn.

## Proofs

TLAPS proves, for every value of the constants, what follows. Each proof module
names its inductive invariant in its header; TLC checked the invariants on the
instances of the runs before they were proved.

**`LineageWalkProofs`**: type correctness, `WalkIsSound` and `WalkIsExact`. The
inductive invariant `WalkInv` adds what a lap that added nothing has established:
no artifact it visited still wants to be added. At the return nothing is left to
visit, so the closure is closed, and `Descendants` is by definition the least
closed set (`DescendantsAreClosed`, `DescendantsAreLeast`).

**`FeedWalkProofs`**: `FeedsAreReturnedIfGood` (the loop returns a feed exactly if
the whole list is well formed, authentic, in sequence and without conflict) and
`ConflictsAreNamed`. The invariant says that what was accepted so far is a prefix
without a gap whose events are authentic and one per sequence.

**`ImporterProofs`**, in three parts.

1. `TypeOK`, `RepairInv`, `RebuildsOnlyGatedState`, `ReceiptsFollowTheFeed`,
   `ObservedIsFinal`, `VerifiedIsEarned` and `StaleExportRetired`. The inductive
   invariant is `IInv == TypeOK /\ RepairInv`. None of the results is inductive by
   itself: that only gated state is rebuilt needs to know that the checkpoint
   still lists the present descendants, that pass one is done with exactly the
   retired ones, and that rewriting a content changes no lineage
   (`SetContentKeepsLineage`). `RepairInv` says so for each phase; `BeginRepair`
   establishes it from the checks of `_validate_checkpoint`, both passes keep it,
   and everything else happens while no repair runs.
2. `ImporterFollowsLifecycle`: an importer implements `ErratumLifecycle`. `RInv`
   adds that what is gated was observed, at most one past the last applied
   sequence; under it `Quarantine` maps to `Gate`, `BeginRepair` to `Begin`,
   `Attest` to `Attest`, `Interrupt` to `Fail`, everything else to a stutter.
   `ErrataAreInFeedOrder` is what the lifecycle promises, of the importer itself.
3. What is served. `GatesAreReopened` needs that no re-export takes the id of an
   artifact that came from elsewhere (`LineageIsKept`), and nothing else.
   `OpenErrataServeNothingStale` adds `SortedByDerivation` and `ClaimsStayAtHome`:
   its invariant says that what was retired was imported and has no text, what the
   repair has rebuilt is clean, and whatever is served of an open erratum was rebuilt.
   `AppliedErrataStayClean` adds `AmendedRootsAreApart`, `RetiredForGood` and
   `SourcesAreLive`: the recorded texts of what an applied erratum covered stay
   clean, through the repairs of later ones, and nothing new is read off what was
   retired. `CompletedRepairsPassTheirProbes` has the hypotheses
   of `OpenErrataServeNothingStale` and `ProbesFitTheSeeds`, since an owner may ask
   a host for what it never held. Its invariant takes two facts beside those of a
   repair. An entry keeps its text while its artifact is written anew, so what it
   states needs an argument of its own (`EntriesStayAtHome`): a rebuilt entry adds
   only the replacement, which its artifact took on before it. And the seeds keep
   their lineage, those that no erratum reaches their text and visibility
   (`SeedsAreKept`), so that the preservation leg has something to recall.
   These circumstances are hypotheses about
   behaviours; `PlainHostsServeNothingStale` shows that a host which offers no
   re-export and whose seeds and errata keep their claims to themselves is in them
   by its constants alone (`PlainHost`), but for `SourcesAreLive`, and `MCImporter` has TLC evaluate that the
   chain of `MCImporterInterrupts` is such a host.

**`WorkspaceProofs`**, in three parts.

1. `TypeOK`, `WritebackInOrder` and `EvidenceIsFinal`, for any number of
   processes, lines, events and deaths. `WInv` adds to the types that the rows of
   the store are records of the lineage (`RowsAreRecorded`) and, per process, what
   its memory is worth at each point (`Grounded`): the items of its checkpoint are
   known to the ledger it loaded, pass one is done with exactly the retired ones, a
   checkpoint and a receipt exist before what rests on them. `EInv` adds what holds
   until the first race (`Orderly`): what a process is about to replace is still
   what it looked at, and one about to consume a checkpoint finds its entry in the
   registry. It is not inductive beyond a race, nor without knowing that the
   sequence of a running command is not 0, which the gap check gives.
   `SingleCommandsKeepEvidence` discharges the hypothesis: where one command runs
   at a time there is no race, and the evidence never changes.
2. `WorkspaceFollowsLifecycle`: up to the first race a directory implements
   `ErratumLifecycle`. `RInv` adds that commands only touch the event the feed has
   first at its sequence, at most one past the last applied one, and that every
   sequence up to that one is attested. Two commands that run at once are then on
   the same erratum or one of them is late, on an attested one. Steps fall into
   six kinds (`Kinds`): a checkpoint file is `Gate` if it is the first, a start
   `Begin` if nobody else repairs, an end `Fail` if nobody else goes on, the
   registry entry `Attest`, a receipt and everything quiet stutter.
   `DirectoryErrataAreInFeedOrder` is the lifecycle's promise, of the directory.
3. What is served, where every line has one home among the amended roots
   (`OneHomeEach`: it sorts after its inputs, they are at home with it or nowhere,
   and an erratum's claim is stated at home only). `DirectoryServesNothingStale`:
   if moreover no erratum of a root states what another one of it retires
   (`NeverStatedAgain`), both serving properties hold whatever races, dies or
   loses a registry entry. Where an owner may state earlier claims again, they
   hold as long as no repair is late and no race has happened:
   `OpenErrataStayGated` if a replacement differs from what it replaces,
   `AppliedErrataStayApplied` if no later erratum states what an earlier one
   retired. `SingleCommandsServeNothingStale`: with one
   command at a time neither happens. `HomeInv` says that checkpoints list
   what is at home with the root of their erratum, and that the memory of a repair
   states what is retired only in what is still to be rebuilt or was dropped; a
   gated row opens by a rebuild only, and `RebuiltTextIsClean`. TLC evaluates in
   every workspace run that the lines and errata of its instance are in these
   circumstances (`LinesHaveOneHome`).

**`SemanticRunProofs`**: the four properties of `SemanticRun`, for every set of
probes, verifier and recorded list. `SInv` says that a report is computed from
what is still there and a parse from the report. `NoDefects` reduces the list of
limitations to a statement about the observations, and
`AcceptedShowTheUnanswered` says what the parser recomputes from a report's own
observations, in whatever order it takes them.

**`ConformanceProofs`**: `TypeOK`, `ReportFollowsFromItsEvidence` and
`BlindBindingsAreRefused`. First the corpus itself: the reference store without a
defect meets every expectation, and no counter-result is an expectation. The
inductive invariant (`RunInvariant`) then says that what was hashed is what is
executed, that the helper can no longer change once a case has run, that two
audits which agree say what an undisturbed one says, and that each result noted
so far follows from these. A passing binding hence gives the expected answer
without a defect and the counter-result with one: one that answers with what it
sees cannot be blind to the defect. That it sees at all cannot be concluded: one
that recites both passes, in the run as in the code.

**`PublicationHistoryProofs`**: `TypeOK`, `PublishedIsAccountedFor`,
`SupersededIsNeverCurrent` and `EveryCallLeadsToACurrentOne`, for any number of
revisions, slips, commits and restores. The steps only have to keep that
manifests are manifests with finite lists. What an accepted manifest owes follows
from the comparisons of neighbours: were there an exception, the last revision
that is one would have a neighbour the checker compared it with. The chains of
successors end because the checker refuses a circle, and they are followed as a
path.

**`ReadinessProofs`**: `EntriesKeepTheirMeaning` is the invariant: every entry of
the ledger names a commit there is and a digest of exactly its gate's surface, and
commits are only appended. With it `PassRestsOnContent` and
`ReadyRestsOnMeasurements` say of every repository, set of reports and history what
the two properties say. The latter is about instances that have the gates it speaks
of. That G4 needs three parties who agree is one predicate over what is recorded at
one time (`QualifyTogether`): it is modelled, and a property of it would repeat it.

The assumptions are those the modules name: `ImporterAssumption` (an artifact
sorts before a vector entry, seeds are ledgers the code can build, re-export ids
are distinct per stamp, replacements are propositions), `WorkspaceAssumption`
(artifact ids are numbers, lines and events have their type, an absent value is no
row, checkpoint or receipt), `LineageAssumption` and `NoneAssumption` (an absent
value is none of the others), `KeyScheduleAssumption` (what `OwnerKeySchedule`
validates), `FeedWalkAssumption` (the bounds are numbers), `ProbeAssumption` (what
the constructors of probes and observations refuse), `ConformanceAssumption` (what
a binding's store has is one of the corpus's defects or none, and its answers are
what is seen of it or one of the two results it is handed; an absent file is none
of the present ones), `PublicationAssumption` (the first manifest is a manifest with
finite lists, as a JSON file has), `ReadinessAssumption` (reports are on known
gates with known results). TLC evaluates them in every run.

Model-checked only: liveness (`WalkReturns`, the importer's `FeedIsApplied`,
`RunsEnd`), which the prover cannot do. Every invariant and every other action
property of a passing run is stated by a theorem.

## Not modelled

Ed25519 arithmetic, canonical JSON, schema validation and surface digests (pure
functions of bytes; the models assume what they promise); vector similarity
(recall is membership); the journal and all printed output; `WipeStrategy` and
`AppendOnlyStrategy`, which exist to be caught; `claim_guard`, `validate_repo`
and `check_links`, which read the repository once and match patterns over prose.
Of the publication check: licence, dates, roles, digests, the packaging delta,
release tags, and histories that merge branches. Of the readiness gate: what is
named under the abstractions, and the repository evidence of a gate.

## Plan

Done: lineage, feed, importer, workspace, semantic runner, publication history,
the abstract lifecycle, the conformance validator, the readiness gate; proofs of
all of them, of both refinements, and of what importer and workspace serve.

What would come next:

1. `FeedIsApplied` split into safety lemmas (what a checkpoint that is valid stays
   valid under) that leave only the fairness argument to TLC.
2. The wrong strategies as variants caught by the triad; `consume` as two steps;
   a ledger that separates the root index from the records.
3. Branches in the publication history; schema validation over small documents.
